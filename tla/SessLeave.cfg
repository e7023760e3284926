SPECIFICATION FairSpec
CONSTANTS
  Game = {g1, g2}
  NoGame = NoGame
CHECK_DEADLOCK FALSE
PROPERTIES LeftSessionReleases
