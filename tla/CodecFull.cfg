SPECIFICATION FairSpec
CONSTANTS
  MaxTries = 1
  OutLimit = 2
  EventBound = 2
INVARIANT RecoveryIsExclusive
CHECK_DEADLOCK FALSE
PROPERTY RecoveryAndStopEnd
