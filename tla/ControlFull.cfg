SPECIFICATION FairSpec
CONSTANTS
  rumble1 = rumble1  rumble2 = rumble2  motion = motion  hdr = hdr
  PerController <- MCPerController
  Motion <- MCMotion
  Hdr <- MCHdr
  MaxFrame = 2
  TupleBound = 1  FecBound = 1  CallbackBound = 2
  Budgets <- MCBudgets
INVARIANTS NoLossForgotten StatesReachClient
PROPERTIES ReceivedBeforeDisconnect StartAndStopReturn HostIsTold DeathIsReported
