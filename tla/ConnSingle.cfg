SPECIFICATION ConnSpec
CONSTANTS
  controlRecv = controlRecv
  lossStats = lossStats
  videoRecv = videoRecv
  Worker <- MCWorker
  OwnerStage <- MCOwnerStage
INVARIANTS SingleTerminationCallback
