SPECIFICATION FairMetSpec
CONSTANTS
  x = x
  y = y
  z = z
  Systems = {x, y, z}
  Forcers = {x}
  Leavers = {z}
  MaxWhims = 1
INVARIANTS ReadyTypeOK ViewsCurrent TwoStages
PROPERTIES CompletesAtLast ForcedReaches
CHECK_DEADLOCK FALSE
