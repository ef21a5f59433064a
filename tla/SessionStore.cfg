SPECIFICATION FairSpec
CONSTANTS
  s1 = s1
  s2 = s2
  t1 = t1
  t2 = t2
  SessionId <- TwoIds
  Threads <- TwoThreads
  NoId = NoId
  PoolSize = 1
  TtlSeconds = 1
  AbsoluteTtlSeconds = 2
  IdleSeconds = 1
  MaxTime = 3
INVARIANTS PoolPartition LeaseAccounting LeaseSuccession DeadlinesHonoured
PROPERTIES NoResurrection EndedOnlyWhenDue ImplementsLedger LeaseReturns
