SPECIFICATION RemoteFairSpec
CONSTANTS
  Peers = {server, c1}
  maximumNumberOfPeers <- ServerSlots
  UNASSIGNED = UNASSIGNED
  MaxRestarts <- ServerRestarts
  Targets <- ToServer
  maximumIncomingConnections <- OneIncoming
  sendConnectionAttemptCount = 3
  RightPasswords = {TRUE}
  MaxCalls <- TwoCalls
  Closers = {c1}
  MaxOrdered <- ClientData
  MaxLostAcks = 1
  server = server
  c1 = c1
  c2 = c2
CONSTRAINT OneRestartOrCall
INVARIANT OpenIsHeld
PROPERTIES KeepsPromise AttemptConcluded OneSidedEnds
CHECK_DEADLOCK FALSE
