SPECIFICATION LoopingSpec
CONSTANTS
  p1 = p1
  p2 = p2
  e1 = e1
  e2 = e2
  e3 = e3
  worker = worker
  NULL = NULL
  Producer <- MCProducer
  Consumer = worker
  Entry <- MCEntry
  SizeBound = 2
  Flusher <- MCFlusher
  Waker <- MCWaker
INVARIANTS ListSpellsItems NoLostWakeup PeekedIsNext
PROPERTIES ImplementsBoundedQueue ShutdownReleasesWaiter DrainEmptiesQueue
