SPECIFICATION RemoteSpec
CONSTANTS
  Peers = {server, c1, c2}
  maximumNumberOfPeers <- OneSlot
  UNASSIGNED = UNASSIGNED
  MaxRestarts <- NoRestart
  Targets <- ToServer
  maximumIncomingConnections <- OneIncoming
  sendConnectionAttemptCount = 3
  RightPasswords = {TRUE, FALSE}
  MaxCalls <- ClientCalls
  Closers = {server}
  MaxOrdered <- ClientData
  MaxLostAcks = 0
  server = server
  c1 = c1
  c2 = c2
INVARIANTS RemoteTypeOK ListsAgree
SYMMETRY ClientSymmetry
CHECK_DEADLOCK FALSE
