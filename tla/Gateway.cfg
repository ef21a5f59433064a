SPECIFICATION Spec
CONSTANTS
  s1 = s1
  c1 = c1
  c2 = c2
  c3 = c3
  r1 = r1
  r2 = r2
  Sid <- OneSession
  NoSid = NoSid
  Conn <- ThreeConns
  RequestId <- TwoRequests
  GrantTtl = 1
  MaxTime = 1
  MaxConnections = 2
  MaxProofSkew = 0
  MaxReplayIds = 1
  MaxRelay = 2
  RelayRounds = 1
SYMMETRY Symmetry
INVARIANTS SlotAccounting AdmittedOnce NoAdmissionAfterEnd OneDeliveryAfterEnd
CHECK_DEADLOCK FALSE
