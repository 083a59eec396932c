SPECIFICATION FairCTFSpec
CONSTANTS
  host = host
  p = p
  Players = {host, p}
  Host = host
  NoPlayer = NoPlayer
  m_numPlayers = 2
  droppedTime = 1
  MaxInFlight = 2
  MaxCommands = 2
PROPERTIES FlagReturns ScoresAtLast
CHECK_DEADLOCK FALSE
