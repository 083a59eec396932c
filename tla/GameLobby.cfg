SPECIFICATION Spec
CONSTANTS
  Guids = {1, 2, 3}
  MaxConnections = 3
  NoName = NoName
  Names <- AllOwnNames
  Typed <- OneCopies
  Picks <- MageOnly
  Moves <- Attacks
  Curious = {}
  Quitters = {3}
CONSTRAINT LobbyBound
INVARIANTS TypeOK NeverUnknownPlayer IndicesDistinct NamesDistinct ChoosesOnlyWhenFull
CHECK_DEADLOCK FALSE
