SPECIFICATION FairSpec
CONSTANTS
  Client = {u, v}
  Latest = {"position"}
  Moves <- MCMoves
  Buttons = {b1, b2}
  Int16Max = 1
  QueueBound = 2
  MaxEvents = 3
INVARIANT BatchedStateAccounted
PROPERTIES EventsInOrder InputDrains
