SPECIFICATION GuardsSpec
CONSTANTS
  t1 = t1
  t2 = t2
  r1 = r1
  r2 = r2
  r3 = r3
  r4 = r4
  h1 = h1
  h2 = h2
  Threads <- TwoThreads
  Codes = {0, 1, 2, 3, 4, 5, 6, 7, 8}
  Totp <- SharedCode
  MatchSlip = 1
  LockSlip = 0
  MaxStep = 6
  MaxUses = 2
  RequestId <- Requests
  NoRequest = NoRequest
  Handlers <- TwoHandlers
  MaxReplayIds = 2
  MaxProofSkew = 1
  MaxTime = 2
  MaxAccepted = 5
SYMMETRY Symmetry
INVARIANT AcceptedOnce
\* The bound on acceptances ends every behaviour of the replay cache.
CHECK_DEADLOCK FALSE
