SPECIFICATION MeshSpec
CONSTANTS
  a1 = a1
  a2 = a2
  a3 = a3
  a4 = a4
  Systems = {a1, a2, a3, a4}
  Founders = {a1, a2, a3, a4}
  startupTime <- Ages
  Draws = 4
  Resetters = {}
  MaxUpsets = 1
  UNASSIGNED_RAKNET_GUID = none
INVARIANT FirstIsHost
ACTION_CONSTRAINT PairsMeet
CHECK_DEADLOCK FALSE
