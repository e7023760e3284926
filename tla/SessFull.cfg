SPECIFICATION FairSpec
CONSTANTS
  Game = {g1, g2, g3}
  NoGame = NoGame
CHECK_DEADLOCK FALSE
INVARIANTS SemaphoreCountsSessions CallbacksReachTheirGame
PROPERTIES StopsItsOwnSession StartsWhenDown PendingConnectionProceeds
