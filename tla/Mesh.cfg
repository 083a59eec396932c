SPECIFICATION MeshSpec
CONSTANTS
  a1 = a1
  a2 = a2
  a3 = a3
  a4 = a4
  Systems = {a1, a2, a3}
  Founders = {a1, a2}
  startupTime <- Ages
  Draws = 4
  Resetters = {a2}
  MaxUpsets = 1
  UNASSIGNED_RAKNET_GUID = none
INVARIANTS MeshTypeOK HostsAgree HostIsPresent HostKnown IdsKnown FoundersFirst
CHECK_DEADLOCK FALSE
