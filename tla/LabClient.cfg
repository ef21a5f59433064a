SPECIFICATION Spec
CONSTANTS
  s1 = s1
  s2 = s2
  Sid <- TwoSessions
  NoSid = NoSid
  GrantTtl = 1
  ManifestTtl = 1
  MaxTime = 2
  MaxCalls = 3
SYMMETRY Symmetry
INVARIANTS ClientConsistent StalePlanUseless LoggedOutEnded
\* The bounds on time and calls end every behaviour.
CHECK_DEADLOCK FALSE
