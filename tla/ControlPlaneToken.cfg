SPECIFICATION Spec
CONSTANTS
  s1 = s1
  s2 = s2
  w1 = w1
  w2 = w2
  r1 = r1
  o1 = o1
  Sid <- TwoSessions
  NoSid = NoSid
  Threads <- TwoThreads
  RequestId <- OneRequest
  Otp <- OneCode
  GrantTtl = 1
  MaxTime = 1
  MaxProofSkew = 0
  ClientOffsets <- RightOrAhead
  MaxReplayIds = 1
SYMMETRY Symmetry
INVARIANT InvalidTokenAnswered
