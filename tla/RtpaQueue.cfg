SPECIFICATION Spec
CONSTANTS
  DataShards = 2
  FecShards = 1
  SeqModulus = 24
  FirstSeq = 18
  MaxBlock = 10
  MaxLate = 2
  MaxSkip = 3
  Patience = 2
CONSTRAINT UntilRestarted
CHECK_DEADLOCK FALSE
INVARIANTS ListMatchesWindow
PROPERTIES NothingSkippedOrRepeated PlayedAsArrived
