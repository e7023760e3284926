SPECIFICATION Spec
CONSTANTS
  MaxFrame = 4
  LastBlock <- MCLastBlock
  DataPackets = 2
  ParityPackets = 2
  SeqModulus = 32
  FirstSeq = 15
INVARIANT NoCorruptPacket
