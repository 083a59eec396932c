SPECIFICATION FairRelSpec
CONSTANTS
  Kinds = {"RELIABLE_ORDERED", "RELIABLE_SEQUENCED"}
  Modulus = 8
  ResendBufferLength = 2
  First = 6
  MaxMessages = 4
  MaxPerDatagram = 2
  MaxInFlight = 2
  MaxAcks = 1
  Empty = Empty
INVARIANTS ReliabilityTypeOK WindowFits NothingForgotten
PROPERTIES DeliversInOrder EverythingArrives
CHECK_DEADLOCK FALSE
