SPECIFICATION FairConnSpec
CONSTANTS
  controlRecv = controlRecv
  lossStats = lossStats
  videoRecv = videoRecv
  Worker <- MCWorker
  OwnerStage <- MCOwnerStage
INVARIANTS WorkersWithinStage AllOrNothing
PROPERTIES StopSilencesWorkers CallsReturn FatalErrorReported
