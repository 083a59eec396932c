SPECIFICATION OneTurnSpec
CONSTANTS
  Guids = {1, 2, 3}
  MaxConnections = 3
  NoName = NoName
  Names <- AllOwnNames
  Typed <- OwnNames
  Picks <- MageOnly
  Moves <- Attacks
  Curious = {}
  Quitters = {}
INVARIANT TurnNeverLost
CHECK_DEADLOCK FALSE
