SPECIFICATION LateChoiceSpec
CONSTANTS
  Guids = {1, 2, 3}
  MaxConnections = 3
  NoName = NoName
  Names <- AllOwnNames
  Typed <- OwnNames
  Picks <- MageOnly
  Moves <- AttacksHealAndSkip
  Curious = {2}
  Quitters = {}
CONSTRAINT BattleBound
INVARIANTS NeverSpinning OneLivingWinner HealthBounded
PROPERTIES TurnsComeFromCalls WinEndsATurn DeadLeave
CHECK_DEADLOCK FALSE
