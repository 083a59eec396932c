SPECIFICATION CTFSpec
CONSTANTS
  host = host
  p = p
  q = q
  Players = {host, p, q}
  Host = host
  NoPlayer = NoPlayer
  m_numPlayers = 2
  droppedTime = 1
  MaxInFlight = 2
  MaxCommands = 1
INVARIANTS CTFTypeOK ServerAttached WholeCooldown CarrierScores
PROPERTIES FlagKeepsRules
SYMMETRY Remotes
CHECK_DEADLOCK FALSE
