SPECIFICATION Spec
CONSTANTS
  MaxFrame = 6
  QueueBound = 2
  DropLimit = 3
CHECK_DEADLOCK FALSE
INVARIANTS RecoveryIsOver IdrIsOnItsWay
PROPERTIES NoGapBeforeP RfiWindowExact RefreshThenNoP IdrBeforeP
