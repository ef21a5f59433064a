SPECIFICATION StackSpec
CONSTANTS
  s1 = s1
  c1 = c1
  c2 = c2
  r1 = r1
  Sid <- OneSession
  NoSid = NoSid
  Conn <- TwoConns
  RequestId <- OneRequest
  GrantTtl = 1
  MaxTime = 0
  MaxConnections = 1
  MaxProofSkew = 0
  MaxReplayIds = 1
  MaxRelay = 2
  RelayRounds = 1
INVARIANTS StackTypeOK StoppedIsClosed
PROPERTY ConnectionsEnd StopReturns
CHECK_DEADLOCK FALSE
