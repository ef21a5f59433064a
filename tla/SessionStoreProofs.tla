-------------------------- MODULE SessionStoreProofs --------------------------
(***************************************************************************)
(* The session store for any number of threads, sessions and addresses:    *)
(* LeaseAccounting and LeaseSuccession, then the deadlines, and that it    *)
(* implements LeaseLedger.  LeaseAccounting is not inductive: a lease is   *)
(* accounted for only because popped sessions belong to one thread each, a *)
(* thread's pc tells what it still owes, and the id of a create() under    *)
(* way is its own.                                                         *)
(***************************************************************************)
EXTENDS SessionStore, TLAPS

-----------------------------------------------------------------------------
(* The pool by itself: PoolPartition for every pool size and every set of  *)
(* session ids.  The step lemmas are stated for one call of allocate() and *)
(* release(), so that the store's steps can cite them.                     *)
PoolInv == PoolTypeOK /\ PoolPartition

(* The constructor fills the deque with every host once.                   *)
LEMMA PoolInitInv == PoolInit => PoolInv
<1> SUFFICES ASSUME PoolInit PROVE PoolInv
  OBVIOUS
<1> USE PoolAssumption DEF PoolInit, Hosts, NoIP
<1>1. available \in Seq(1..PoolSize) /\ Len(available) = PoolSize
  OBVIOUS
<1>2. \A i \in 1..PoolSize : available[i] = i
  OBVIOUS
<1>3. PoolTypeOK
  BY <1>1 DEF PoolTypeOK
<1>4. PoolPartition
  BY <1>1, <1>2 DEF PoolPartition, NoDuplicateFree, NoDoubleLease, ReleasedAreFree,
                    IsFree, IsLeased
<1> QED
  BY <1>3, <1>4 DEF PoolInv

(* One call of allocate() that finds an address keeps the partition.       *)
LEMMA PoolAllocateInv ==
  ASSUME PoolInv, NEW s \in SessionId, PoolAllocate(s)
  PROVE  PoolInv'
<1> DEFINE n == Len(available)
           h == Head(available)
<1> USE DEF PoolInv
<1>1. /\ available \in Seq(Hosts)
      /\ n \in Nat /\ n > 0
      /\ h = available[1]
      /\ h \in Hosts
  BY DEF PoolTypeOK, PoolAllocate
<1>2. /\ available' \in Seq(Hosts)
      /\ Len(available') = n - 1
      /\ \A i \in 1..(n - 1) : available'[i] = available[i + 1]
  BY <1>1 DEF PoolAllocate
<1>3. /\ allocated' = [allocated EXCEPT ![s] = h]
      /\ allocated \in [SessionId -> Hosts \cup {NoIP}]
      /\ released' = released \ {h}
      /\ released \in SUBSET Hosts
      /\ allocated[s] = NoIP
  BY DEF PoolAllocate, PoolTypeOK
<1>4. PoolTypeOK'
  BY <1>1, <1>2, <1>3 DEF PoolTypeOK
<1>5. NoDuplicateFree'
  <2> SUFFICES ASSUME NEW i \in 1..Len(available'), NEW j \in 1..Len(available'),
                      available'[i] = available'[j]
               PROVE  i = j
    BY DEF NoDuplicateFree
  <2>1. i + 1 \in 1..n /\ j + 1 \in 1..n /\ available[i + 1] = available[j + 1]
    BY <1>1, <1>2
  <2> QED
    BY <2>1, <1>1, <1>2 DEF PoolPartition, NoDuplicateFree
<1>6. \A g \in Hosts : IsFree(g)' <=> IsFree(g) /\ g # h
  <2> SUFFICES ASSUME NEW g \in Hosts
               PROVE  IsFree(g)' <=> IsFree(g) /\ g # h
    OBVIOUS
  <2>1. ASSUME IsFree(g)' PROVE IsFree(g) /\ g # h
    <3>1. PICK i \in 1..(n - 1) : available[i + 1] = g
      BY <2>1, <1>2 DEF IsFree
    <3>2. i + 1 \in 1..n /\ 1 \in 1..n /\ i + 1 # 1
      BY <1>1
    <3> QED
      BY <3>1, <3>2, <1>1 DEF IsFree, PoolPartition, NoDuplicateFree
  <2>2. ASSUME IsFree(g), g # h PROVE IsFree(g)'
    <3>1. PICK i \in 1..n : available[i] = g
      BY <2>2 DEF IsFree
    <3>2. i - 1 \in 1..(n - 1) /\ available'[i - 1] = g
      BY <3>1, <2>2, <1>1, <1>2
    <3> QED
      BY <3>2, <1>2 DEF IsFree
  <2> QED
    BY <2>1, <2>2
<1>7. \A g \in Hosts : IsLeased(g)' <=> IsLeased(g) \/ g = h
  BY <1>1, <1>3 DEF IsLeased, Hosts, NoIP
<1>8. IsFree(h) /\ ~IsLeased(h)
  <2>1. IsFree(h)
    BY <1>1 DEF IsFree
  <2> QED
    BY <2>1, <1>1 DEF PoolPartition
<1>9. NoDoubleLease'
  BY <1>3, <1>8 DEF NoDoubleLease, PoolPartition, IsLeased
<1>10. ReleasedAreFree'
  BY <1>3, <1>6 DEF ReleasedAreFree, PoolPartition
<1> QED
  BY <1>4, <1>5, <1>6, <1>7, <1>8, <1>9, <1>10 DEF PoolPartition

(* One call of release(), for an id with or without an address, keeps the  *)
(* partition: _released never hides an address that is handed back.        *)
LEMMA PoolReleaseInv ==
  ASSUME PoolInv, NEW s \in SessionId, PoolRelease(s)
  PROVE  PoolInv'
<1> DEFINE n == Len(available)
           h == allocated[s]
<1> USE DEF PoolInv
<1>1. /\ available \in Seq(Hosts)
      /\ n \in Nat
      /\ allocated \in [SessionId -> Hosts \cup {NoIP}]
      /\ released \in SUBSET Hosts
      /\ allocated' = [allocated EXCEPT ![s] = NoIP]
  BY DEF PoolTypeOK, PoolRelease
<1>2. CASE h = NoIP
  <2>1. available' = available /\ released' = released /\ allocated' = allocated
    BY <1>1, <1>2 DEF PoolRelease
  <2> QED
    BY <2>1 DEF PoolTypeOK, PoolPartition, NoDuplicateFree, NoDoubleLease,
                ReleasedAreFree, IsFree, IsLeased
<1>3. CASE h # NoIP
  <2>1. h \in Hosts /\ IsLeased(h) /\ ~IsFree(h) /\ h \notin released
    BY <1>1, <1>3 DEF IsLeased, PoolPartition, ReleasedAreFree
  <2>2. available' = Append(available, h) /\ released' = released \cup {h}
    BY <1>3, <2>1 DEF PoolRelease
  <2>3. /\ available' \in Seq(Hosts)
        /\ Len(available') = n + 1
        /\ \A i \in 1..n : available'[i] = available[i]
        /\ available'[n + 1] = h
    BY <1>1, <2>1, <2>2
  <2>4. PoolTypeOK'
    BY <1>1, <2>1, <2>2, <2>3 DEF PoolTypeOK
  <2>5. NoDuplicateFree'
    <3> SUFFICES ASSUME NEW i \in 1..(n + 1), NEW j \in 1..(n + 1),
                        available'[i] = available'[j]
                 PROVE  i = j
      BY <2>3 DEF NoDuplicateFree
    <3>1. \A k \in 1..n : available[k] # h
      BY <2>1 DEF IsFree
    <3>2. CASE i \in 1..n /\ j \in 1..n
      BY <3>2, <2>3 DEF PoolPartition, NoDuplicateFree
    <3>3. CASE i = n + 1 \/ j = n + 1
      BY <3>1, <3>3, <2>3, <1>1
    <3> QED
      BY <3>2, <3>3, <1>1
  <2>6. \A g \in Hosts : IsFree(g)' <=> IsFree(g) \/ g = h
    <3>1. ASSUME NEW g \in Hosts, IsFree(g)' PROVE IsFree(g) \/ g = h
      BY <3>1, <2>3, <1>1 DEF IsFree
    <3>2. ASSUME NEW g \in Hosts, IsFree(g) \/ g = h PROVE IsFree(g)'
      BY <3>2, <2>3, <1>1 DEF IsFree
    <3> QED
      BY <3>1, <3>2
  <2>7. \A g \in Hosts : IsLeased(g)' <=> IsLeased(g) /\ g # h
    BY <1>1, <1>3, <2>1 DEF IsLeased, PoolPartition, NoDoubleLease, Hosts, NoIP
  <2>8. NoDoubleLease'
    BY <1>1 DEF NoDoubleLease, PoolPartition
  <2>9. ReleasedAreFree'
    BY <2>1, <2>2, <2>6, <1>1 DEF ReleasedAreFree, PoolPartition
  <2> QED
    BY <2>1, <2>4, <2>5, <2>6, <2>7, <2>8, <2>9 DEF PoolPartition
<1> QED
  BY <1>2, <1>3

(* A step that does not touch the pool.                                    *)
LEMMA PoolStutterInv == PoolInv /\ UNCHANGED poolVars => PoolInv'
  BY DEF PoolInv, poolVars, PoolTypeOK, PoolPartition, NoDuplicateFree, NoDoubleLease,
         ReleasedAreFree, IsFree, IsLeased

(* For every pool size and every order of allocate() and release() calls:  *)
(* an address is free exactly once or leased to exactly one session.       *)
THEOREM PoolCorrect == PoolSpec => [](PoolTypeOK /\ PoolPartition)
<1>1. PoolInit => PoolInv
  BY PoolInitInv
<1>2. PoolInv /\ [PoolNext]_poolVars => PoolInv'
  BY PoolAllocateInv, PoolReleaseInv, PoolStutterInv DEF PoolNext
<1>3. PoolInv => PoolTypeOK /\ PoolPartition
  BY DEF PoolInv
<1> QED
  BY <1>1, <1>2, <1>3, PTL DEF PoolSpec

-----------------------------------------------------------------------------
(* The store.                                                              *)
Generation(s) == session[s].lease_generation

StoredOK ==
  \A s \in stored :
    /\ Created(s)
    /\ ~session[s].revoked
    /\ allocated[s] = session[s].virtual_ip
    /\ allocated[s] # NoIP

PendingOK ==
  \A t \in Threads : \A s \in pending[t] :
    /\ Created(s)
    /\ s \notin stored
    /\ allocated[s] # NoIP
    /\ \A u \in Threads : s \in pending[u] => u = t

CreatorsOK ==
  \A t \in Threads : pc[t] \in Creating =>
    /\ arg[t] \in SessionId
    /\ ~Created(arg[t])
    /\ \A u \in Threads : arg[u] = arg[t] => u = t
    /\ pc[t] = "insert" => allocated[arg[t]] # NoIP

CallersOK ==
  \A t \in Threads :
    /\ pc[t] \in {"get_check", "heartbeat_check", "release", "reread"} =>
         arg[t] \in SessionId /\ Created(arg[t])
    /\ pc[t] \notin {"reclaim", "release"} => pending[t] = {}
    /\ pc[t] = "release" => pending[t] = {arg[t]}

HoldersOK ==
  \A s \in SessionId :
    allocated[s] # NoIP => s \in stored \/ Popped(s) \/ BeingCreated(s)

GenerationsOK ==
  \A s \in SessionId :
    /\ Generation(s) <= generation
    /\ \A r \in SessionId : Created(s) /\ Generation(s) = Generation(r) => s = r

EndedOK == \A s \in SessionId : Created(s) /\ s \notin stored => session[s].revoked

ThreadsInv == PendingOK /\ CreatorsOK /\ CallersOK /\ HoldersOK
TableInv == StoredOK /\ GenerationsOK /\ EndedOK /\ LeaseSuccession

StoreInv == TypeOK /\ PoolPartition /\ ThreadsInv /\ TableInv

-----------------------------------------------------------------------------
(* A step that keeps the pool, the table and the immutable fields of the   *)
(* sessions keeps TableInv.                                                *)
LEMMA TableUnchanged ==
  ASSUME TableInv, TypeOK,
         allocated' = allocated, stored' = stored, generation' = generation,
         \A s \in SessionId : /\ session'[s].virtual_ip = session[s].virtual_ip
                              /\ session'[s].lease_generation = session[s].lease_generation
                              /\ session'[s].revoked = session[s].revoked
  PROVE  TableInv'
<1>1. \A s \in SessionId : Created(s)' <=> Created(s)
  BY DEF Created
<1>2. stored \subseteq SessionId
  BY DEF TypeOK
<1>3. StoredOK'
  BY <1>1, <1>2 DEF TableInv, StoredOK
<1>4. GenerationsOK'
  BY <1>1 DEF TableInv, GenerationsOK, Generation
<1>5. EndedOK'
  BY <1>1 DEF TableInv, EndedOK
<1>6. LeaseSuccession'
  BY <1>1 DEF TableInv, LeaseSuccession
<1> QED
  BY <1>3, <1>4, <1>5, <1>6 DEF TableInv

(* What Pop() does to the fields the invariant speaks of.                  *)
LEMMA PopEffect ==
  ASSUME TypeOK, NEW t \in Threads, NEW S \in SUBSET stored, NEW owed \in SUBSET S,
         Pop(t, S, owed)
  PROVE  /\ stored' = stored \ S
         /\ pending' = [pending EXCEPT ![t] = owed]
         /\ session' \in [SessionId -> Session]
         /\ pending' \in [Threads -> SUBSET SessionId]
         /\ \A s \in SessionId :
              /\ session'[s].virtual_ip = session[s].virtual_ip
              /\ session'[s].lease_generation = session[s].lease_generation
              /\ s \in S => session'[s].revoked
              /\ s \notin S => session'[s] = session[s]
<1>1. \A s \in SessionId : session[s] \in Session
  BY DEF TypeOK
<1>2. session' = [s \in SessionId |->
                    IF s \in S THEN [session[s] EXCEPT !.revoked = TRUE] ELSE session[s]]
  BY DEF Pop
<1>3. \A s \in SessionId : session'[s] = IF s \in S THEN [session[s] EXCEPT !.revoked = TRUE]
                                                   ELSE session[s]
  BY <1>2
<1>4. ASSUME NEW s \in SessionId
      PROVE  /\ session'[s] \in Session
             /\ session'[s].virtual_ip = session[s].virtual_ip
             /\ session'[s].lease_generation = session[s].lease_generation
             /\ s \in S => session'[s].revoked
             /\ s \notin S => session'[s] = session[s]
  <2>1. session[s] \in Session
    BY <1>1
  <2>2. CASE s \in S
    <3>1. session'[s] = [session[s] EXCEPT !.revoked = TRUE]
      BY <1>3, <2>2
    <3> QED
      BY <2>1, <2>2, <3>1 DEF Session
  <2>3. CASE s \notin S
    <3>1. session'[s] = session[s]
      BY <1>3, <2>3
    <3> QED
      BY <2>1, <2>3, <3>1
  <2> QED
    BY <2>2, <2>3
<1>5. session' \in [SessionId -> Session]
  BY <1>2, <1>4
<1>6. /\ stored' = stored \ S
      /\ pending' = [pending EXCEPT ![t] = owed]
      /\ pending' \in [Threads -> SUBSET SessionId]
  BY DEF Pop, TypeOK
<1> QED
  BY <1>4, <1>5, <1>6

(* Popping live sessions keeps TableInv.                                   *)
LEMMA PopTable ==
  ASSUME TypeOK, TableInv, NEW t \in Threads, NEW S \in SUBSET stored, NEW owed \in SUBSET S,
         Pop(t, S, owed), allocated' = allocated, generation' = generation
  PROVE  TableInv'
<1>1. /\ stored' = stored \ S
      /\ \A s \in SessionId :
           /\ session'[s].virtual_ip = session[s].virtual_ip
           /\ session'[s].lease_generation = session[s].lease_generation
           /\ s \in S => session'[s].revoked
           /\ s \notin S => session'[s] = session[s]
  BY PopEffect
<1>2. stored \subseteq SessionId
  BY DEF TypeOK
<1>3. \A s \in SessionId : Created(s)' <=> Created(s)
  BY <1>1 DEF Created
<1>4. StoredOK'
  BY <1>1, <1>2, <1>3 DEF TableInv, StoredOK
<1>5. GenerationsOK'
  BY <1>1, <1>3 DEF TableInv, GenerationsOK, Generation
<1>6. EndedOK'
  BY <1>1, <1>3 DEF TableInv, EndedOK
<1>7. LeaseSuccession'
  BY <1>1, <1>3 DEF TableInv, LeaseSuccession
<1> QED
  BY <1>4, <1>5, <1>6, <1>7 DEF TableInv
-----------------------------------------------------------------------------
(* Steps that only move a thread on.                                       *)
(* A call that starts only sets its thread's label, id and clock reading.  *)
LEMMA BeginTypes ==
  ASSUME TypeOK, NEW t \in Threads, NEW z \in SessionId, NEW label \in Labels,
         Begin(t, z, label)
  PROVE  TypeOK'
<1>1. /\ pc' \in [Threads -> Labels]
      /\ arg' \in [Threads -> SessionId \cup {NoId}]
      /\ now' \in [Threads -> Nat]
  BY StoreAssumption DEF Begin, Goto, TypeOK
<1> QED
  BY <1>1 DEF Begin, TypeOK, PoolTypeOK, poolVars, storeVars

(* create() starts with an id nobody else uses.                            *)
LEMMA CreateBeginInv ==
  ASSUME StoreInv, NEW t \in Threads, NEW z \in SessionId, CreateBegin(t, z)
  PROVE  StoreInv'
<1> USE DEF StoreInv, CreateBegin, Begin, Goto
<1>1. TypeOK'
  BY BeginTypes, "scavenge" \in Labels DEF Labels
<1>2. PoolPartition'
  BY PoolStutterInv DEF PoolInv, poolVars, TypeOK
<1>3. TableInv'
  BY TableUnchanged DEF poolVars, storeVars
<1>4. \A s \in SessionId : Created(s)' <=> Created(s)
  BY DEF Created, storeVars
<1>5. PendingOK'
  BY <1>4 DEF ThreadsInv, PendingOK, TypeOK, poolVars, storeVars
<1>6. CreatorsOK'
  BY <1>4, StoreAssumption DEF ThreadsInv, CreatorsOK, CallersOK, Creating, TypeOK, poolVars, storeVars
<1>7. CallersOK'
  BY <1>4 DEF ThreadsInv, CallersOK, CreatorsOK, TypeOK, poolVars, storeVars
<1>8. HoldersOK'
  BY DEF ThreadsInv, HoldersOK, Popped, BeingCreated, TypeOK, poolVars, storeVars
<1> QED
  BY <1>1, <1>2, <1>3, <1>5, <1>6, <1>7, <1>8 DEF ThreadsInv

(* get_active() and heartbeat() start with the id of a session.            *)
LEMMA LookupBeginInv ==
  ASSUME StoreInv, NEW t \in Threads, NEW z \in SessionId, GetActiveBegin(t, z) \/ HeartbeatBegin(t, z)
  PROVE  StoreInv'
<1> USE DEF StoreInv, GetActiveBegin, HeartbeatBegin, Begin, Goto
<1>1. TypeOK'
  BY BeginTypes, "get_check" \in Labels, "heartbeat_check" \in Labels DEF Labels
<1>2. PoolPartition'
  BY PoolStutterInv DEF PoolInv, poolVars, TypeOK
<1>3. TableInv'
  BY TableUnchanged DEF poolVars, storeVars
<1>4. \A s \in SessionId : Created(s)' <=> Created(s)
  BY DEF Created, storeVars
<1>5. PendingOK'
  BY <1>4 DEF ThreadsInv, PendingOK, TypeOK, poolVars, storeVars
<1>6. CreatorsOK'
  BY <1>4, StoreAssumption DEF ThreadsInv, CreatorsOK, CallersOK, Creating, TypeOK, poolVars, storeVars
<1>7. CallersOK'
  BY <1>4 DEF ThreadsInv, CallersOK, CreatorsOK, TypeOK, poolVars, storeVars
<1>8. HoldersOK'
  BY DEF ThreadsInv, HoldersOK, Popped, BeingCreated, TypeOK, poolVars, storeVars
<1> QED
  BY <1>1, <1>2, <1>3, <1>5, <1>6, <1>7, <1>8 DEF ThreadsInv

(* create() has released every lease it reclaimed.                         *)
LEMMA ReadClockInv ==
  ASSUME StoreInv, NEW t \in Threads, ReadClock(t)
  PROVE  StoreInv'
<1> USE DEF StoreInv, ReadClock, Goto
<1>1. TypeOK'
  BY StoreAssumption DEF TypeOK, PoolTypeOK, Labels, poolVars, storeVars
<1>2. PoolPartition'
  BY PoolStutterInv DEF PoolInv, poolVars, TypeOK
<1>3. TableInv'
  BY TableUnchanged DEF poolVars, storeVars
<1>4. \A s \in SessionId : Created(s)' <=> Created(s)
  BY DEF Created, storeVars
<1>5. PendingOK'
  BY <1>4 DEF ThreadsInv, PendingOK, TypeOK, poolVars, storeVars
<1>6. CreatorsOK'
  BY <1>4, StoreAssumption DEF ThreadsInv, CreatorsOK, CallersOK, Creating, TypeOK, poolVars, storeVars
<1>7. CallersOK'
  BY <1>4 DEF ThreadsInv, CallersOK, CreatorsOK, TypeOK, poolVars, storeVars
<1>8. HoldersOK'
  BY DEF ThreadsInv, HoldersOK, Popped, BeingCreated, TypeOK, poolVars, storeVars
<1> QED
  BY <1>1, <1>2, <1>3, <1>5, <1>6, <1>7, <1>8 DEF ThreadsInv

(* The first critical section found nothing to end.                        *)
LEMMA CheckInv ==
  ASSUME StoreInv, NEW t \in Threads, CheckMissing(t) \/ GetCheck(t)
  PROVE  StoreInv'
<1> USE DEF StoreInv, CheckMissing, GetCheck, Goto
<1>1. TypeOK'
  BY StoreAssumption DEF TypeOK, PoolTypeOK, Labels, poolVars, storeVars
<1>2. PoolPartition'
  BY PoolStutterInv DEF PoolInv, poolVars, TypeOK
<1>3. TableInv'
  BY TableUnchanged DEF poolVars, storeVars
<1>4. \A s \in SessionId : Created(s)' <=> Created(s)
  BY DEF Created, storeVars
<1>5. PendingOK'
  BY <1>4 DEF ThreadsInv, PendingOK, TypeOK, poolVars, storeVars
<1>6. CreatorsOK'
  BY <1>4, StoreAssumption DEF ThreadsInv, CreatorsOK, CallersOK, Creating, TypeOK, poolVars, storeVars
<1>7. CallersOK'
  BY <1>4 DEF ThreadsInv, CallersOK, CreatorsOK, TypeOK, poolVars, storeVars
<1>8. HoldersOK'
  BY DEF ThreadsInv, HoldersOK, Popped, BeingCreated, TypeOK, poolVars, storeVars
<1> QED
  BY <1>1, <1>2, <1>3, <1>5, <1>6, <1>7, <1>8 DEF ThreadsInv

(* The call returns without having changed anything.                       *)
LEMMA ReturnInv ==
  ASSUME StoreInv, NEW t \in Threads, AllocateExhausted(t) \/ Reread(t)
  PROVE  StoreInv'
<1>1. /\ pc[t] \in {"allocate", "reread"} /\ Return(t)
      /\ UNCHANGED poolVars /\ UNCHANGED storeVars
  BY DEF AllocateExhausted, Reread
<1>2. /\ pc' = [pc EXCEPT ![t] = "idle"]
      /\ arg' = [arg EXCEPT ![t] = NoId]
      /\ now' = [now EXCEPT ![t] = 0]
      /\ pending' = [pending EXCEPT ![t] = {}]
  BY <1>1 DEF Return, Goto
<1>3. pending' = pending
  BY <1>1, <1>2 DEF StoreInv, ThreadsInv, CallersOK, TypeOK
<1> USE DEF StoreInv
<1>4. TypeOK'
  BY <1>1, <1>2, <1>3 DEF TypeOK, PoolTypeOK, Labels, poolVars, storeVars
<1>5. PoolPartition'
  BY <1>1, PoolStutterInv DEF PoolInv, poolVars, TypeOK
<1>6. TableInv'
  BY <1>1, TableUnchanged DEF poolVars, storeVars
<1>7. \A s \in SessionId : Created(s)' <=> Created(s)
  BY <1>1 DEF Created, storeVars
<1>8. PendingOK'
  BY <1>1, <1>3, <1>7 DEF ThreadsInv, PendingOK, TypeOK, poolVars, storeVars
<1>9. CreatorsOK'
  BY <1>1, <1>2, <1>7, StoreAssumption
  DEF ThreadsInv, CreatorsOK, Creating, TypeOK, poolVars, storeVars
<1>10. CallersOK'
  BY <1>1, <1>2, <1>7 DEF ThreadsInv, CallersOK, TypeOK, poolVars, storeVars
<1>11. HoldersOK'
  BY <1>1, <1>2, <1>3
  DEF ThreadsInv, HoldersOK, Popped, BeingCreated, TypeOK, poolVars, storeVars
<1> QED
  BY <1>4, <1>5, <1>6, <1>8, <1>9, <1>10, <1>11 DEF ThreadsInv

(* Time passes.                                                            *)
LEMMA TickInv ==
  ASSUME StoreInv, Tick \/ UNCHANGED vars
  PROVE  StoreInv'
<1>1. /\ clock' \in Nat
      /\ UNCHANGED <<poolVars, session, stored, generation, heard, lag, threadVars>>
  BY DEF Tick, vars, storeVars, StoreInv, TypeOK
<1> USE <1>1 DEF StoreInv, poolVars, threadVars
<1>2. TypeOK'
  BY DEF TypeOK, PoolTypeOK
<1>3. PoolPartition'
  BY PoolStutterInv DEF PoolInv, TypeOK
<1>4. TableInv'
  BY TableUnchanged
<1>5. ThreadsInv'
  BY DEF ThreadsInv, PendingOK, CreatorsOK, CallersOK, HoldersOK, Popped, BeingCreated, Created
<1> QED
  BY <1>2, <1>3, <1>4, <1>5

(* heartbeat() refreshes a session: only deadlines change.                 *)
LEMMA HeartbeatRefreshInv ==
  ASSUME StoreInv, NEW t \in Threads, HeartbeatRefresh(t)
  PROVE  StoreInv'
<1> DEFINE a == arg[t]
           e == Earlier(now[t] + TtlSeconds, session[a].absolute_expires_at)
<1>1. /\ pc[t] = "heartbeat_check" /\ a \in SessionId
      /\ session[a] \in Session /\ now[t] \in Nat
  BY DEF HeartbeatRefresh, StoreInv, TypeOK
<1>2. e \in Nat
  BY <1>1, StoreAssumption DEF Earlier, Session
<1>3. session' = [session EXCEPT ![a].last_seen = now[t], ![a].expires_at = e]
  BY DEF HeartbeatRefresh
<1> HIDE DEF e
<1>4. /\ session' \in [SessionId -> Session]
      /\ \A s \in SessionId : /\ session'[s].virtual_ip = session[s].virtual_ip
                             /\ session'[s].lease_generation = session[s].lease_generation
                             /\ session'[s].revoked = session[s].revoked
  BY <1>1, <1>2, <1>3 DEF StoreInv, TypeOK, Session
<1>0. /\ heard' \in [SessionId -> Nat]
      /\ lag' \in [SessionId -> Int]
  BY <1>1 DEF HeartbeatRefresh, Hear, Latest, StoreInv, TypeOK
<1>5. /\ pc' = [pc EXCEPT ![t] = "reread"]
      /\ UNCHANGED <<poolVars, clock, stored, generation, arg, now, pending>>
  BY DEF HeartbeatRefresh, Goto
<1> USE DEF StoreInv
<1>6. TypeOK'
  BY <1>0, <1>4, <1>5 DEF TypeOK, PoolTypeOK, Labels, poolVars
<1>7. PoolPartition'
  BY <1>5, PoolStutterInv DEF PoolInv, TypeOK
<1>8. TableInv'
  BY <1>4, <1>5, TableUnchanged DEF poolVars
<1>9. \A s \in SessionId : Created(s)' <=> Created(s)
  BY <1>4 DEF Created
<1>10. PendingOK'
  BY <1>5, <1>9 DEF ThreadsInv, PendingOK, TypeOK, poolVars
<1>11. CreatorsOK'
  BY <1>1, <1>5, <1>9 DEF ThreadsInv, CreatorsOK, Creating, TypeOK, poolVars
<1>12. CallersOK'
  BY <1>1, <1>5, <1>9 DEF ThreadsInv, CallersOK, TypeOK, poolVars
<1>13. HoldersOK'
  BY <1>1, <1>5 DEF ThreadsInv, HoldersOK, Popped, BeingCreated, TypeOK, poolVars
<1> QED
  BY <1>6, <1>7, <1>8, <1>10, <1>11, <1>12, <1>13 DEF ThreadsInv


-----------------------------------------------------------------------------
(* A step that pops sessions from the table makes its thread the one that  *)
(* owes their leases to the pool.                                          *)
LEMMA PopInv ==
  ASSUME StoreInv, NEW t \in Threads, NEW S \in SUBSET stored, Pop(t, S, S),
         NEW x \in SessionId, arg' = [arg EXCEPT ![t] = x],
         NEW label, Goto(t, label), pending[t] = {},
         UNCHANGED <<poolVars, clock, generation, heard, lag, now>>,
         \/ label = "reclaim" /\ pc[t] = "scavenge" /\ x = arg[t]
         \/ label = "release" /\ pc[t] \notin Creating /\ S = {x}
  PROVE  StoreInv'
<1> USE DEF StoreInv
<1>1. /\ stored' = stored \ S
      /\ pending' = [pending EXCEPT ![t] = S]
      /\ session' \in [SessionId -> Session]
      /\ pending' \in [Threads -> SUBSET SessionId]
      /\ \A s \in SessionId : session'[s].lease_generation = session[s].lease_generation
  BY PopEffect
<1>2. pc' = [pc EXCEPT ![t] = label] /\ label \in {"reclaim", "release"}
  BY DEF Goto
<1>3. TypeOK'
  BY <1>1, <1>2 DEF TypeOK, PoolTypeOK, Labels, poolVars
<1>4. PoolPartition'
  BY PoolStutterInv DEF PoolInv, TypeOK
<1>5. TableInv'
  BY PopTable DEF poolVars
<1>6. \A s \in SessionId : Created(s)' <=> Created(s)
  BY <1>1 DEF Created
<1>7. stored \subseteq SessionId /\ pending \in [Threads -> SUBSET SessionId]
  BY DEF TypeOK
<1>8. PendingOK'
  <2> SUFFICES ASSUME NEW u \in Threads, NEW s \in pending'[u]
               PROVE  /\ Created(s)' /\ s \notin stored' /\ allocated'[s] # NoIP
                      /\ \A v \in Threads : s \in pending'[v] => v = u
    BY DEF PendingOK
  <2>1. CASE u = t
    BY <2>1, <1>1, <1>6, <1>7 DEF ThreadsInv, PendingOK, TableInv, StoredOK, poolVars
  <2>2. CASE u # t
    BY <2>2, <1>1, <1>6, <1>7 DEF ThreadsInv, PendingOK, TableInv, StoredOK, poolVars
  <2> QED
    BY <2>1, <2>2
<1>9. CreatorsOK'
  <2> SUFFICES ASSUME NEW u \in Threads, pc'[u] \in Creating
               PROVE  /\ arg'[u] \in SessionId
                      /\ ~(session'[arg'[u]].lease_generation > 0)
                      /\ \A v \in Threads : arg'[v] = arg'[u] => v = u
                      /\ pc'[u] = "insert" => allocated'[arg'[u]] # NoIP
    BY DEF CreatorsOK, Created
  <2>1. pc[u] \in Creating /\ arg'[u] = arg[u] /\ (pc'[u] = "insert" => pc[u] = "insert")
    BY <1>2 DEF TypeOK, Creating
  <2>2. /\ arg[u] \in SessionId /\ ~Created(arg[u])
        /\ \A v \in Threads : arg[v] = arg[u] => v = u
        /\ pc[u] = "insert" => allocated[arg[u]] # NoIP
    BY <2>1 DEF ThreadsInv, CreatorsOK
  <2>3. ASSUME NEW v \in Threads, arg'[v] = arg'[u] PROVE v = u
    <3>1. CASE v # t
      BY <3>1, <2>1, <2>2, <2>3 DEF TypeOK
    <3>2. CASE v = t /\ label = "reclaim"
      BY <3>2, <2>1, <2>2, <2>3, <1>2 DEF TypeOK
    <3>3. CASE v = t /\ label = "release"
      <4>1. x \in stored /\ arg'[v] = x
        BY <3>3 DEF TypeOK
      <4> QED
        BY <4>1, <2>1, <2>2, <2>3 DEF TableInv, StoredOK
    <3> QED
      BY <3>1, <3>2, <3>3, <1>2
  <2> QED
    BY <2>1, <2>2, <2>3, <1>1 DEF poolVars, Created
<1>10. CallersOK'
  <2>1. ASSUME NEW u \in Threads, u # t
        PROVE  pc'[u] = pc[u] /\ arg'[u] = arg[u] /\ pending'[u] = pending[u]
    BY <2>1, <1>1, <1>2 DEF TypeOK
  <2>2. pc'[t] = label /\ arg'[t] = x /\ pending'[t] = S
    BY <1>1, <1>2, <1>7 DEF TypeOK
  <2>3. label = "release" => S = {x} /\ Created(x)
    BY DEF TableInv, StoredOK
  <2> QED
    BY <2>1, <2>2, <2>3, <1>2, <1>6 DEF ThreadsInv, CallersOK
<1>11. HoldersOK'
  <2> SUFFICES ASSUME NEW s \in SessionId, allocated[s] # NoIP
               PROVE  s \in stored' \/ Popped(s)' \/ BeingCreated(s)'
    BY DEF HoldersOK, poolVars
  <2>1. s \in stored \/ Popped(s) \/ BeingCreated(s)
    BY DEF ThreadsInv, HoldersOK
  <2>2. CASE s \in stored
    BY <2>2, <1>1, <1>7 DEF Popped
  <2>3. CASE Popped(s)
    BY <2>3, <1>1, <1>7 DEF Popped
  <2>4. CASE BeingCreated(s)
    BY <2>4, <1>2 DEF BeingCreated, Creating, TypeOK
  <2> QED
    BY <2>1, <2>2, <2>3, <2>4
<1> QED
  BY <1>3, <1>4, <1>5, <1>8, <1>9, <1>10, <1>11 DEF ThreadsInv

(* scavenge(): every session it finds is live, so all of them are owed.    *)
LEMMA ScavengeInv ==
  ASSUME StoreInv, NEW t \in Threads, Scavenge(t)
  PROVE  StoreInv'
<1> DEFINE S == {s \in stored : Expired(s, now[t])}
           owed == {s \in S : ~session[s].revoked}
<1>1. pc[t] = "scavenge" /\ arg[t] \in SessionId /\ pending[t] = {}
  BY DEF Scavenge, StoreInv, ThreadsInv, CreatorsOK, CallersOK, Creating
<1>2. Pop(t, S, owed) /\ Goto(t, "reclaim")
  BY DEF Scavenge
<1>3. owed = S
  BY DEF StoreInv, TableInv, StoredOK
<1>4. /\ arg' = [arg EXCEPT ![t] = arg[t]]
      /\ UNCHANGED <<poolVars, clock, generation, heard, lag, now>>
  BY DEF Scavenge, StoreInv, TypeOK
<1>5. S \in SUBSET stored
  OBVIOUS
<1> HIDE DEF S, owed
<1> QED
  BY <1>1, <1>2, <1>3, <1>4, <1>5, PopInv

(* get_active() or heartbeat() of an expired session.                      *)
LEMMA CheckExpiredInv ==
  ASSUME StoreInv, NEW t \in Threads, CheckExpired(t)
  PROVE  StoreInv'
<1>1. /\ arg[t] \in SessionId /\ pending[t] = {} /\ pc[t] \notin Creating
      /\ {arg[t]} \in SUBSET stored
  BY DEF CheckExpired, StoreInv, ThreadsInv, CallersOK, Creating
<1>2. /\ Pop(t, {arg[t]}, {arg[t]}) /\ Goto(t, "release")
      /\ arg' = [arg EXCEPT ![t] = arg[t]]
      /\ UNCHANGED <<poolVars, clock, generation, heard, lag, now>>
  BY DEF CheckExpired, StoreInv, TypeOK
<1> QED
  BY <1>1, <1>2, PopInv

(* revoke() of a stored session.                                           *)
LEMMA RevokeInv ==
  ASSUME StoreInv, NEW t \in Threads, NEW z \in SessionId, Revoke(t, z)
  PROVE  StoreInv'
<1>1. /\ pending[t] = {} /\ pc[t] \notin Creating
      /\ {z} \in SUBSET stored
  BY DEF Revoke, StoreInv, ThreadsInv, CallersOK, Creating
<1>2. /\ Pop(t, {z}, {z}) /\ Goto(t, "release")
      /\ arg' = [arg EXCEPT ![t] = z]
      /\ UNCHANGED <<poolVars, clock, generation, heard, lag, now>>
  BY DEF Revoke
<1> QED
  BY <1>1, <1>2, PopInv

-----------------------------------------------------------------------------
(* A popped session gives its address back to the pool.                    *)
LEMMA GiveBackInv ==
  ASSUME StoreInv, NEW t \in Threads, NEW z \in pending[t], PoolRelease(z),
         pending' = [pending EXCEPT ![t] = @ \ {z}], UNCHANGED storeVars,
         \A u \in Threads : pc[u] = "insert" => pc'[u] = "insert" /\ arg'[u] = arg[u]
  PROVE  PoolTypeOK' /\ PoolPartition' /\ PendingOK' /\ HoldersOK' /\ TableInv'
<1> USE DEF StoreInv
<1>1. /\ z \in SessionId /\ z \notin stored
      /\ pending \in [Threads -> SUBSET SessionId]
      /\ allocated \in [SessionId -> Hosts \cup {NoIP}]
      /\ stored \subseteq SessionId
      /\ \A u \in Threads : z \in pending[u] => u = t
  BY DEF TypeOK, PoolTypeOK, ThreadsInv, PendingOK
<1>2. PoolTypeOK' /\ PoolPartition'
  BY <1>1, PoolReleaseInv DEF PoolInv, TypeOK
<1>3. allocated' = [allocated EXCEPT ![z] = NoIP]
  BY DEF PoolRelease
<1>4. session' = session /\ stored' = stored /\ generation' = generation
  BY DEF storeVars
<1>5. \A s \in SessionId : Created(s)' <=> Created(s)
  BY <1>4 DEF Created
<1>6. \A u \in Threads : pending'[u] = pending[u] \ {z}
  BY <1>1
<1>7. PendingOK'
  <2> SUFFICES ASSUME NEW u \in Threads, NEW s \in pending'[u]
               PROVE  /\ Created(s)' /\ s \notin stored' /\ allocated'[s] # NoIP
                      /\ \A v \in Threads : s \in pending'[v] => v = u
    BY DEF PendingOK
  <2>1. s \in pending[u] /\ s # z /\ s \in SessionId
    BY <1>1, <1>6
  <2> QED
    BY <2>1, <1>1, <1>3, <1>4, <1>5, <1>6 DEF ThreadsInv, PendingOK
<1>8. HoldersOK'
  <2> SUFFICES ASSUME NEW s \in SessionId, allocated'[s] # NoIP
               PROVE  s \in stored' \/ Popped(s)' \/ BeingCreated(s)'
    BY DEF HoldersOK
  <2>1. s # z /\ allocated[s] # NoIP
    BY <1>1, <1>3
  <2>2. s \in stored \/ Popped(s) \/ BeingCreated(s)
    BY <2>1 DEF ThreadsInv, HoldersOK
  <2>3. CASE s \in stored
    BY <2>3, <1>4
  <2>4. CASE Popped(s)
    BY <2>4, <2>1, <1>6 DEF Popped
  <2>5. CASE BeingCreated(s)
    BY <2>5 DEF BeingCreated
  <2> QED
    BY <2>2, <2>3, <2>4, <2>5
<1>9. StoredOK'
  BY <1>1, <1>3, <1>4, <1>5 DEF TableInv, StoredOK
<1>10. GenerationsOK' /\ EndedOK' /\ LeaseSuccession'
  BY <1>4, <1>5 DEF TableInv, GenerationsOK, Generation, EndedOK, LeaseSuccession
<1> QED
  BY <1>2, <1>7, <1>8, <1>9, <1>10 DEF TableInv

(* The end of get_active(), heartbeat() and revoke() on an ended session.  *)
LEMMA ReleaseInv ==
  ASSUME StoreInv, NEW t \in Threads, Release(t)
  PROVE  StoreInv'
<1> USE DEF StoreInv
<1>1. /\ pc[t] = "release" /\ pending[t] = {arg[t]}
      /\ PoolRelease(arg[t]) /\ UNCHANGED storeVars
      /\ pc' = [pc EXCEPT ![t] = "idle"]
      /\ arg' = [arg EXCEPT ![t] = NoId]
      /\ now' = [now EXCEPT ![t] = 0]
      /\ pending' = [pending EXCEPT ![t] = {}]
  BY DEF Release, Return, Goto, ThreadsInv, CallersOK
<1>2. arg[t] \in pending[t] /\ pending' = [pending EXCEPT ![t] = @ \ {arg[t]}]
  BY <1>1 DEF TypeOK
<1>3. \A u \in Threads : pc[u] = "insert" => pc'[u] = "insert" /\ arg'[u] = arg[u]
  BY <1>1 DEF TypeOK
<1>4. PoolTypeOK' /\ PoolPartition' /\ PendingOK' /\ HoldersOK' /\ TableInv'
  BY <1>1, <1>2, <1>3, GiveBackInv
<1>5. TypeOK'
  BY <1>1, <1>4 DEF TypeOK, Labels, storeVars
<1>6. \A s \in SessionId : Created(s)' <=> Created(s)
  BY <1>1 DEF Created, storeVars
<1>7. allocated' = [allocated EXCEPT ![arg[t]] = NoIP]
  BY <1>1 DEF PoolRelease
<1>8. CreatorsOK'
  <2> SUFFICES ASSUME NEW u \in Threads, pc'[u] \in Creating
               PROVE  /\ arg'[u] \in SessionId
                      /\ ~(session'[arg'[u]].lease_generation > 0)
                      /\ \A v \in Threads : arg'[v] = arg'[u] => v = u
                      /\ pc'[u] = "insert" => allocated'[arg'[u]] # NoIP
    BY DEF CreatorsOK, Created
  <2>1. u # t /\ pc[u] \in Creating /\ arg'[u] = arg[u] /\ pc'[u] = pc[u]
    BY <1>1 DEF TypeOK, Creating
  <2>2. /\ arg[u] \in SessionId /\ ~Created(arg[u])
        /\ \A v \in Threads : arg[v] = arg[u] => v = u
        /\ pc[u] = "insert" => allocated[arg[u]] # NoIP
    BY <2>1 DEF ThreadsInv, CreatorsOK
  <2>3. \A v \in Threads : arg'[v] = arg[u] => v = u
    BY <2>2, <1>1, StoreAssumption DEF TypeOK
  <2>4. arg[t] # arg[u]
    BY <2>1, <2>2
  <2> QED
    BY <2>1, <2>2, <2>3, <2>4, <1>1, <1>7 DEF Created, storeVars, TypeOK, PoolTypeOK
<1>9. CallersOK'
  BY <1>1, <1>6 DEF ThreadsInv, CallersOK, TypeOK
<1> QED
  BY <1>4, <1>5, <1>8, <1>9 DEF ThreadsInv

(* One round of scavenge()'s loop.                                         *)
LEMMA ReclaimInv ==
  ASSUME StoreInv, NEW t \in Threads, Reclaim(t)
  PROVE  StoreInv'
<1> USE DEF StoreInv
<1>1. PICK z \in pending[t] : /\ PoolRelease(z)
                             /\ pending' = [pending EXCEPT ![t] = @ \ {z}]
  BY DEF Reclaim
<1>2. pc[t] = "reclaim" /\ UNCHANGED <<storeVars, pc, arg, now>>
  BY DEF Reclaim
<1>3. PoolTypeOK' /\ PoolPartition' /\ PendingOK' /\ HoldersOK' /\ TableInv'
  BY <1>1, <1>2, GiveBackInv
<1>4. z \in SessionId /\ Created(z)
  BY DEF TypeOK, ThreadsInv, PendingOK
<1>5. TypeOK'
  BY <1>1, <1>2, <1>3 DEF TypeOK, storeVars
<1>6. \A s \in SessionId : Created(s)' <=> Created(s)
  BY <1>2 DEF Created, storeVars
<1>7. allocated' = [allocated EXCEPT ![z] = NoIP]
  BY <1>1 DEF PoolRelease
<1>8. \A s \in SessionId : s # z => allocated'[s] = allocated[s]
  BY <1>4, <1>7 DEF TypeOK, PoolTypeOK
<1>9. CreatorsOK'
  BY <1>2, <1>4, <1>6, <1>8 DEF ThreadsInv, CreatorsOK
<1>10. CallersOK'
  BY <1>1, <1>2, <1>6 DEF ThreadsInv, CallersOK, TypeOK
<1> QED
  BY <1>3, <1>5, <1>9, <1>10 DEF ThreadsInv

-----------------------------------------------------------------------------
(* create() takes an address from the pool.                                *)
LEMMA AllocateInv ==
  ASSUME StoreInv, NEW t \in Threads, Allocate(t)
  PROVE  StoreInv'
<1> DEFINE a == arg[t]
<1> USE DEF StoreInv
<1>1. /\ pc[t] = "allocate" /\ a \in SessionId /\ ~Created(a)
      /\ PoolAllocate(a)
      /\ pc' = [pc EXCEPT ![t] = "insert"]
      /\ UNCHANGED <<storeVars, arg, now, pending>>
      /\ \A u \in Threads : arg[u] = a => u = t
  BY DEF Allocate, Goto, ThreadsInv, CreatorsOK, Creating
<1>2. PoolTypeOK' /\ PoolPartition'
  BY <1>1, PoolAllocateInv DEF PoolInv, TypeOK
<1>3. /\ allocated' \in [SessionId -> Hosts \cup {NoIP}]
      /\ allocated'[a] # NoIP
      /\ \A s \in SessionId : s # a => allocated'[s] = allocated[s]
  <2>1. Head(available) \in Hosts /\ allocated' = [allocated EXCEPT ![a] = Head(available)]
    BY <1>1 DEF PoolAllocate, TypeOK, PoolTypeOK
  <2> QED
    BY <2>1, <1>1 DEF TypeOK, PoolTypeOK, Hosts, NoIP
<1>4. TypeOK'
  BY <1>1, <1>2 DEF TypeOK, Labels, storeVars
<1>5. /\ session' = session /\ stored' = stored /\ generation' = generation
      /\ stored \subseteq SessionId
      /\ \A s \in SessionId : Created(s)' <=> Created(s)
  BY <1>1 DEF storeVars, Created, TypeOK
<1>6. StoredOK'
  BY <1>1, <1>3, <1>5 DEF TableInv, StoredOK
<1>7. GenerationsOK' /\ EndedOK' /\ LeaseSuccession'
  BY <1>5 DEF TableInv, GenerationsOK, Generation, EndedOK, LeaseSuccession
<1>8. PendingOK'
  BY <1>1, <1>3, <1>5 DEF ThreadsInv, PendingOK, TypeOK
<1>9. CreatorsOK'
  <2> SUFFICES ASSUME NEW u \in Threads, pc'[u] \in Creating
               PROVE  /\ arg[u] \in SessionId /\ ~Created(arg[u])
                      /\ \A v \in Threads : arg[v] = arg[u] => v = u
                      /\ pc'[u] = "insert" => allocated'[arg[u]] # NoIP
    BY <1>1, <1>5 DEF CreatorsOK, Created
  <2>1. CASE u = t
    BY <2>1, <1>1, <1>3
  <2>2. CASE u # t
    BY <2>2, <1>1, <1>3 DEF ThreadsInv, CreatorsOK, TypeOK
  <2> QED
    BY <2>1, <2>2
<1>10. CallersOK'
  BY <1>1, <1>5 DEF ThreadsInv, CallersOK, TypeOK
<1>11. HoldersOK'
  <2> SUFFICES ASSUME NEW s \in SessionId, allocated'[s] # NoIP
               PROVE  s \in stored' \/ Popped(s)' \/ BeingCreated(s)'
    BY DEF HoldersOK
  <2>1. CASE s = a
    BY <2>1, <1>1 DEF BeingCreated, TypeOK
  <2>2. CASE s # a
    BY <2>2, <1>1, <1>3, <1>5 DEF ThreadsInv, HoldersOK, Popped, BeingCreated, TypeOK
  <2> QED
    BY <2>1, <2>2
<1> QED
  BY <1>2, <1>4, <1>6, <1>7, <1>8, <1>9, <1>10, <1>11 DEF ThreadsInv, TableInv

(* create() inserts the session: its generation is the newest, and whoever *)
(* had its address before has ended.                                       *)
LEMMA InsertInv ==
  ASSUME StoreInv, NEW t \in Threads, Insert(t)
  PROVE  StoreInv'
<1> DEFINE a == arg[t]
           new == [virtual_ip |-> allocated[a],
                   lease_generation |-> generation + 1,
                   expires_at |-> now[t] + TtlSeconds,
                   absolute_expires_at |-> now[t] + AbsoluteTtlSeconds,
                   last_seen |-> now[t],
                   revoked |-> FALSE]
<1> USE DEF StoreInv
<1>1. /\ pc[t] = "insert" /\ a \in SessionId /\ ~Created(a) /\ allocated[a] # NoIP
      /\ \A u \in Threads : arg[u] = a => u = t
      /\ pending[t] = {}
  BY DEF Insert, ThreadsInv, CreatorsOK, CallersOK, Creating
<1>2. /\ generation' = generation + 1
      /\ session' = [session EXCEPT ![a] = new]
      /\ stored' = stored \cup {a}
      /\ pc' = [pc EXCEPT ![t] = "idle"]
      /\ arg' = [arg EXCEPT ![t] = NoId]
      /\ now' = [now EXCEPT ![t] = 0]
      /\ pending' = [pending EXCEPT ![t] = {}]
      /\ UNCHANGED poolVars /\ clock' = clock
      /\ heard' = [heard EXCEPT ![a] = now[t]] /\ lag' = lag
  BY DEF Insert, Return, Goto
<1>3. /\ new \in Session /\ new.lease_generation = generation + 1
      /\ new.virtual_ip = allocated[a] /\ ~new.revoked
  BY <1>1, StoreAssumption DEF Session, TypeOK, PoolTypeOK
<1> HIDE DEF new
<1>4. /\ session' \in [SessionId -> Session]
      /\ session'[a] = new
      /\ \A s \in SessionId : s # a => session'[s] = session[s]
      /\ stored \subseteq SessionId
      /\ generation \in Nat
      /\ allocated' = allocated
  BY <1>1, <1>2, <1>3 DEF TypeOK, poolVars
<1>5. pending' = pending
  BY <1>1, <1>2 DEF TypeOK
<1>6. TypeOK'
  BY <1>1, <1>2, <1>4, <1>5 DEF TypeOK, PoolTypeOK, Labels, poolVars
<1>7. PoolPartition'
  BY <1>2, PoolStutterInv DEF PoolInv, TypeOK
<1>8. \A s \in SessionId : Created(s)' <=> Created(s) \/ s = a
  BY <1>3, <1>4 DEF Created
<1>9. a \notin stored
  BY <1>1 DEF TableInv, StoredOK
<1>10. StoredOK'
  BY <1>1, <1>2, <1>3, <1>4, <1>8 DEF TableInv, StoredOK
<1>11. \A s \in SessionId : Generation(s) \in Nat /\ Generation(s) <= generation
  BY DEF TypeOK, Session, TableInv, GenerationsOK, Generation
<1>12. \A s \in SessionId : Generation(s)' = IF s = a THEN generation + 1 ELSE Generation(s)
  BY <1>3, <1>4 DEF Generation
<1>13. GenerationsOK'
  BY <1>2, <1>4, <1>8, <1>11, <1>12 DEF TableInv, GenerationsOK
<1>14. EndedOK'
  BY <1>2, <1>4, <1>8 DEF TableInv, EndedOK
<1>15. LeaseSuccession'
  <2> SUFFICES ASSUME NEW s \in SessionId, NEW r \in SessionId,
                      Created(s)', Created(r)', s # r,
                      session'[s].virtual_ip = session'[r].virtual_ip,
                      Generation(s)' <= Generation(r)'
               PROVE  /\ Generation(s)' < Generation(r)'
                      /\ session'[s].revoked
                      /\ s \notin stored'
    BY DEF LeaseSuccession, Generation
  <2>1. CASE s # a /\ r # a
    BY <2>1, <1>2, <1>4, <1>8 DEF TableInv, LeaseSuccession, Generation
  <2>2. CASE r = a
    <3>1. s # a /\ Created(s) /\ session[s].virtual_ip = allocated[a]
      BY <2>2, <1>3, <1>4, <1>8
    <3>2. s \notin stored
      BY <3>1, <1>1 DEF TableInv, StoredOK, PoolPartition, NoDoubleLease
    <3>3. session[s].revoked
      BY <3>1, <3>2 DEF TableInv, EndedOK
    <3>4. Generation(s)' < Generation(r)'
      BY <2>2, <3>1, <1>4, <1>11, <1>12
    <3> QED
      BY <3>1, <3>2, <3>3, <3>4, <1>2, <1>4
  <2>3. CASE s = a
    BY <2>3, <1>4, <1>11, <1>12
  <2> QED
    BY <2>1, <2>2, <2>3
<1>16. PendingOK'
  <2>1. \A u \in Threads : \A s \in pending[u] : s # a /\ s \in SessionId
    BY <1>1 DEF ThreadsInv, PendingOK, TypeOK
  <2> QED
    BY <2>1, <1>2, <1>4, <1>5, <1>8 DEF ThreadsInv, PendingOK
<1>17. CreatorsOK'
  <2> SUFFICES ASSUME NEW u \in Threads, pc'[u] \in Creating
               PROVE  /\ arg'[u] \in SessionId
                      /\ ~(session'[arg'[u]].lease_generation > 0)
                      /\ \A v \in Threads : arg'[v] = arg'[u] => v = u
                      /\ pc'[u] = "insert" => allocated'[arg'[u]] # NoIP
    BY DEF CreatorsOK, Created
  <2>1. u # t /\ pc[u] \in Creating /\ arg'[u] = arg[u] /\ pc'[u] = pc[u]
    BY <1>2 DEF TypeOK, Creating
  <2>2. /\ arg[u] \in SessionId /\ ~Created(arg[u])
        /\ \A v \in Threads : arg[v] = arg[u] => v = u
        /\ pc[u] = "insert" => allocated[arg[u]] # NoIP
    BY <2>1 DEF ThreadsInv, CreatorsOK
  <2>3. \A v \in Threads : arg'[v] = arg[u] => v = u
    BY <2>2, <1>2, StoreAssumption DEF TypeOK
  <2>4. arg[u] # a
    BY <2>1, <1>1
  <2> QED
    BY <2>1, <2>2, <2>3, <2>4, <1>4 DEF Created
<1>18. CallersOK'
  BY <1>2, <1>5, <1>8 DEF ThreadsInv, CallersOK, TypeOK
<1>19. HoldersOK'
  BY <1>1, <1>2, <1>4, <1>5 DEF ThreadsInv, HoldersOK, Popped, BeingCreated, TypeOK
<1> QED
  BY <1>6, <1>7, <1>10, <1>13, <1>14, <1>15, <1>16, <1>17, <1>18, <1>19
  DEF ThreadsInv, TableInv

-----------------------------------------------------------------------------
LEMMA StoreInitInv == Init => StoreInv
<1> SUFFICES ASSUME Init PROVE StoreInv
  OBVIOUS
<1>1. PoolTypeOK /\ PoolPartition
  BY PoolInitInv DEF Init, PoolInv
<1>2. NoSession \in Session
  BY DEF NoSession, Session
<1>3. TypeOK
  BY <1>1, <1>2 DEF Init, TypeOK, Labels
<1>4. \A s \in SessionId : ~Created(s) /\ Generation(s) = 0 /\ allocated[s] = NoIP
  <2>1. \A s \in SessionId : session[s].lease_generation = 0 /\ allocated[s] = NoIP
    BY DEF Init, PoolInit, NoSession
  <2>2. ~(0 > 0)
    OBVIOUS
  <2>3. \A s \in SessionId : ~(session[s].lease_generation > 0)
    BY <2>1, <2>2, Zenon
  <2> QED
    BY <2>1, <2>3, Zenon DEF Created, Generation
<1>5. TableInv
  BY <1>4 DEF Init, TableInv, StoredOK, GenerationsOK, EndedOK, LeaseSuccession
<1>6. ThreadsInv
  BY <1>4 DEF Init, ThreadsInv, PendingOK, CreatorsOK, CallersOK, HoldersOK, Creating
<1> QED
  BY <1>1, <1>3, <1>5, <1>6 DEF StoreInv

LEMMA StoreNextInv == StoreInv /\ [Next]_vars => StoreInv'
<1> SUFFICES ASSUME StoreInv, [Next]_vars PROVE StoreInv'
  OBVIOUS
<1>1. ASSUME NEW t \in Threads, Step(t) PROVE StoreInv'
  BY <1>1, ScavengeInv, ReclaimInv, ReadClockInv, AllocateInv, ReturnInv, InsertInv,
     CheckExpiredInv, CheckInv, HeartbeatRefreshInv, ReleaseInv DEF Step
<1>2. ASSUME NEW t \in Threads, NEW s \in SessionId, Call(t, s) PROVE StoreInv'
  BY <1>2, CreateBeginInv, LookupBeginInv, RevokeInv DEF Call
<1>3. ASSUME Tick \/ UNCHANGED vars PROVE StoreInv'
  BY <1>3, TickInv
<1> QED
  BY <1>1, <1>2, <1>3 DEF Next

LEMMA StoreInvSuffices == StoreInv => TypeOK /\ LeaseAccounting /\ LeaseSuccession
<1> SUFFICES ASSUME StoreInv, NEW s \in SessionId
             PROVE  /\ allocated[s] # NoIP <=> s \in stored \/ Popped(s) \/ BeingCreated(s)
                    /\ s \in stored => ~Popped(s) /\ ~BeingCreated(s)
                    /\ Popped(s) => ~BeingCreated(s)
                    /\ s \in stored => allocated[s] = session[s].virtual_ip
  BY DEF StoreInv, TableInv, LeaseAccounting
<1>1. s \in stored => Created(s) /\ allocated[s] # NoIP /\ allocated[s] = session[s].virtual_ip
  BY DEF StoreInv, TableInv, StoredOK
<1>2. Popped(s) => Created(s) /\ s \notin stored /\ allocated[s] # NoIP
  BY DEF StoreInv, ThreadsInv, PendingOK, Popped
<1>3. BeingCreated(s) => ~Created(s) /\ allocated[s] # NoIP
  BY DEF StoreInv, ThreadsInv, CreatorsOK, BeingCreated, Creating
<1>4. allocated[s] # NoIP => s \in stored \/ Popped(s) \/ BeingCreated(s)
  BY DEF StoreInv, ThreadsInv, HoldersOK
<1> QED
  BY <1>1, <1>2, <1>3, <1>4

(* For any number of threads, sessions and addresses, and however create,  *)
(* get_active, heartbeat, revoke and scavenge interleave: no address is    *)
(* leaked or held by two sessions, and of two sessions that ever had the   *)
(* same address the older has ended and has the smaller generation.        *)
THEOREM StoreCorrect == Spec => [](TypeOK /\ LeaseAccounting /\ LeaseSuccession)
  BY StoreInitInv, StoreNextInv, StoreInvSuffices, PTL DEF Spec

(* The clause on reuse of an address, on its own: whoever holds an address *)
(* with the smaller generation is revoked and out of the table.            *)
THEOREM LeasesSucceed == Spec => []LeaseSuccession
  BY StoreCorrect, PTL

-----------------------------------------------------------------------------
(* What one step can do to one session: nothing, end it, refresh it or     *)
(* create it.                                                              *)
Kept(s) ==
  /\ session'[s] = session[s] /\ (s \in stored' <=> s \in stored)
  /\ heard'[s] = heard[s] /\ lag'[s] = lag[s]

Ended(s) ==
  /\ s \in stored /\ s \notin stored'
  /\ heard'[s] = heard[s] /\ lag'[s] = lag[s]
  /\ session'[s] = [session[s] EXCEPT !.revoked = TRUE]
  /\ \E t \in Threads : Expired(s, now[t]) \/ Revoke(t, s)

Refreshed(s) ==
  /\ s \in stored /\ s \in stored'
  /\ clock' = clock
  /\ \E t \in Threads :
       /\ heard'[s] = Latest(heard[s], now[t])
       /\ lag'[s] = Latest(lag[s], clock - now[t])
       /\ session'[s] = [session[s] EXCEPT !.last_seen = now[t],
                           !.expires_at = Earlier(now[t] + TtlSeconds, session[s].absolute_expires_at)]

Inserted(s) ==
  /\ ~Created(s) /\ s \notin stored /\ s \in stored'
  /\ clock' = clock
  /\ lag'[s] = lag[s]
  /\ \E t \in Threads :
       /\ heard'[s] = now[t]
       /\ session'[s] = [virtual_ip |-> allocated[s],
                      lease_generation |-> generation + 1,
                      expires_at |-> now[t] + TtlSeconds,
                      absolute_expires_at |-> now[t] + AbsoluteTtlSeconds,
                      last_seen |-> now[t],
                      revoked |-> FALSE]

(* Pop() ends the sessions of S and keeps the others.                      *)
LEMMA PopEnds ==
  ASSUME TypeOK, NEW t \in Threads, NEW S \in SUBSET stored, NEW owed, Pop(t, S, owed),
         NEW s \in SessionId, heard' = heard, lag' = lag,
         s \in S => \E u \in Threads : Expired(s, now[u]) \/ Revoke(u, s)
  PROVE  Kept(s) \/ Ended(s)
<1>1. session'[s] = IF s \in S THEN [session[s] EXCEPT !.revoked = TRUE] ELSE session[s]
  BY DEF Pop
<1>2. stored' = stored \ S
  BY DEF Pop
<1> QED
  BY <1>1, <1>2 DEF Kept, Ended

LEMMA SessionStep ==
  ASSUME StoreInv, [Next]_vars, NEW s \in SessionId
  PROVE  Kept(s) \/ Ended(s) \/ Refreshed(s) \/ Inserted(s)
<1>1. CASE session' = session /\ stored' = stored /\ heard' = heard /\ lag' = lag
  BY <1>1 DEF Kept
<1>2. ASSUME NEW t \in Threads, Scavenge(t) PROVE Kept(s) \/ Ended(s)
  <2> DEFINE S == {r \in stored : Expired(r, now[t])}
  <2>1. Pop(t, S, {r \in S : ~session[r].revoked}) /\ heard' = heard /\ lag' = lag
    BY <1>2 DEF Scavenge
  <2>2. S \in SUBSET stored /\ (s \in S => Expired(s, now[t]))
    OBVIOUS
  <2> HIDE DEF S
  <2> QED
    BY <2>1, <2>2, PopEnds DEF StoreInv
<1>3. ASSUME NEW t \in Threads, CheckExpired(t) PROVE Kept(s) \/ Ended(s)
  BY <1>3, PopEnds DEF CheckExpired, StoreInv
<1>4. ASSUME NEW t \in Threads, NEW r \in SessionId, Revoke(t, r) PROVE Kept(s) \/ Ended(s)
  <2>1. Pop(t, {r}, {r}) /\ {r} \in SUBSET stored /\ heard' = heard /\ lag' = lag
    BY <1>4 DEF Revoke
  <2>2. s \in {r} => Revoke(t, s)
    BY <1>4
  <2> QED
    BY <2>1, <2>2, PopEnds DEF StoreInv
<1>5. ASSUME NEW t \in Threads, HeartbeatRefresh(t) PROVE Kept(s) \/ Refreshed(s)
  <2> DEFINE e == Earlier(now[t] + TtlSeconds, session[arg[t]].absolute_expires_at)
  <2>1. /\ arg[t] \in stored /\ stored' = stored /\ stored \subseteq SessionId
        /\ clock' = clock
        /\ session \in [SessionId -> Session]
        /\ session' = [session EXCEPT ![arg[t]].last_seen = now[t], ![arg[t]].expires_at = e]
        /\ heard \in [SessionId -> Nat] /\ lag \in [SessionId -> Int]
        /\ heard' = [heard EXCEPT ![arg[t]] = Latest(heard[arg[t]], now[t])]
        /\ lag' = [lag EXCEPT ![arg[t]] = Latest(lag[arg[t]], clock - now[t])]
    BY <1>5 DEF HeartbeatRefresh, Hear, StoreInv, TypeOK
  <2>2. CASE s = arg[t]
    <3>1. session'[s] = [session[s] EXCEPT !.last_seen = now[t], !.expires_at = e]
      BY <2>1, <2>2 DEF Session
    <3>2. heard'[s] = Latest(heard[s], now[t]) /\ lag'[s] = Latest(lag[s], clock - now[t])
      BY <2>1, <2>2
    <3> QED
      BY <2>1, <2>2, <3>1, <3>2 DEF Refreshed
  <2>3. CASE s # arg[t]
    BY <2>1, <2>3 DEF Kept
  <2> QED
    BY <2>2, <2>3
<1>6. ASSUME NEW t \in Threads, Insert(t) PROVE Kept(s) \/ Inserted(s)
  <2>1. /\ arg[t] \in SessionId /\ ~Created(arg[t]) /\ arg[t] \notin stored
        /\ session \in [SessionId -> Session]
        /\ heard \in [SessionId -> Nat]
        /\ heard' = [heard EXCEPT ![arg[t]] = now[t]] /\ lag' = lag
    BY <1>6 DEF Insert, StoreInv, ThreadsInv, CreatorsOK, Creating, TableInv, StoredOK, TypeOK
  <2>2. CASE s = arg[t]
    BY <1>6, <2>1, <2>2 DEF Insert, Inserted
  <2>3. CASE s # arg[t]
    BY <1>6, <2>1, <2>3 DEF Insert, Kept
  <2> QED
    BY <2>2, <2>3
<1>7. ASSUME NEW t \in Threads, NEW r \in SessionId,
             \/ Reclaim(t) \/ ReadClock(t) \/ Allocate(t) \/ AllocateExhausted(t)
             \/ CheckMissing(t) \/ GetCheck(t) \/ Release(t) \/ Reread(t)
             \/ CreateBegin(t, r) \/ GetActiveBegin(t, r) \/ HeartbeatBegin(t, r)
      PROVE  session' = session /\ stored' = stored /\ heard' = heard /\ lag' = lag
  BY <1>7 DEF Reclaim, ReadClock, Allocate, AllocateExhausted, CheckMissing, GetCheck,
              Release, Reread, CreateBegin, GetActiveBegin, HeartbeatBegin, Begin, storeVars
<1>8. CASE Tick \/ UNCHANGED vars
  BY <1>8, <1>1 DEF Tick, vars, storeVars
<1> QED
  BY <1>1, <1>2, <1>3, <1>4, <1>5, <1>6, <1>7, <1>8 DEF Next, Step, Call

-----------------------------------------------------------------------------
(* The deadlines are consistent because no thread's reading is ahead of    *)
(* the clock; a session that was never created is not revoked.             *)
ReadingsOK == \A t \in Threads : now[t] <= clock
FreshOK == \A s \in SessionId : ~Created(s) => ~session[s].revoked

(* A reading that was written is at most as far ahead of last_seen as the  *)
(* slowest heartbeat was late.                                             *)
HeardBy(h, l, last, n) == h <= n /\ 0 <= l /\ h <= last + l
HeardOK == \A s \in SessionId : HeardBy(heard[s], lag[s], session[s].last_seen, clock)

TimeInv == ReadingsOK /\ FreshOK /\ DeadlinesHonoured /\ HeardOK

LEMMA Later == \A a, b, c \in Nat : a <= b /\ b <= c => a <= c
  OBVIOUS

LEMMA ClockStep ==
  ASSUME StoreInv, [Next]_vars
  PROVE  clock' = clock \/ clock' = clock + 1
<1>1. ASSUME NEW t \in Threads, Step(t) PROVE clock' = clock
  BY <1>1 DEF Step, Scavenge, Reclaim, ReadClock, Allocate, AllocateExhausted, Insert,
              CheckExpired, CheckMissing, GetCheck, HeartbeatRefresh, Release, Reread, storeVars
<1>2. ASSUME NEW t \in Threads, NEW s \in SessionId, Call(t, s) PROVE clock' = clock
  BY <1>2 DEF Call, CreateBegin, GetActiveBegin, HeartbeatBegin, Begin, Revoke, storeVars
<1> QED
  BY <1>1, <1>2 DEF Next, Tick, vars, storeVars

LEMMA ReadingsStep ==
  ASSUME StoreInv, ReadingsOK, [Next]_vars
  PROVE  ReadingsOK'
<1>1. now \in [Threads -> Nat] /\ clock \in Nat /\ clock' \in Nat /\ clock <= clock'
  BY ClockStep DEF StoreInv, TypeOK
<1>2. ASSUME NEW u \in Threads
      PROVE  now'[u] \in {now[u], clock, 0}
  <2>1. ASSUME NEW t \in Threads, Step(t) PROVE now'[u] \in {now[u], clock, 0}
    BY <2>1, <1>1 DEF Step, Scavenge, Reclaim, ReadClock, Allocate, AllocateExhausted, Insert,
                CheckExpired, CheckMissing, GetCheck, HeartbeatRefresh, Release, Reread, Return
  <2>2. ASSUME NEW t \in Threads, NEW s \in SessionId, Call(t, s)
        PROVE  now'[u] \in {now[u], clock, 0}
    BY <2>2, <1>1 DEF Call, CreateBegin, GetActiveBegin, HeartbeatBegin, Begin, Revoke
  <2> QED
    BY <2>1, <2>2 DEF Next, Tick, vars, threadVars
<1>3. ASSUME NEW u \in Threads PROVE now'[u] <= clock'
  <2>1. now[u] \in Nat /\ now[u] <= clock /\ 0 <= clock /\ clock <= clock
    BY <1>1 DEF ReadingsOK
  <2>2. now'[u] \in Nat /\ now'[u] <= clock
    BY <1>2, <2>1, <1>1
  <2> QED
    BY <2>2, <1>1, Later
<1> QED
  BY <1>3 DEF ReadingsOK

(* A session keeps its window: heartbeat() and create() set last_seen and  *)
(* expires_at together, from one reading.                                  *)
LEMMA WindowStep ==
  ASSUME StoreInv, TimeInv, [Next]_vars
  PROVE  SlidingWindow' /\ FreshOK'
<1>1. clock \in Nat /\ clock' \in Nat /\ clock <= clock'
  BY ClockStep DEF StoreInv, TypeOK
<1> SUFFICES ASSUME NEW s \in SessionId
             PROVE  /\ Created(s)' =>
                         /\ session'[s].expires_at =
                              Earlier(session'[s].last_seen + TtlSeconds,
                                      session'[s].absolute_expires_at)
                         /\ session'[s].last_seen <= clock'
                    /\ ~Created(s)' => ~session'[s].revoked
  BY DEF SlidingWindow, FreshOK
<1>2. /\ session[s] \in Session
      /\ Created(s) => /\ session[s].expires_at = Earlier(session[s].last_seen + TtlSeconds,
                                                         session[s].absolute_expires_at)
                       /\ session[s].last_seen <= clock
      /\ ~Created(s) => ~session[s].revoked
      /\ s \in stored => Created(s)
  BY DEF StoreInv, TypeOK, TimeInv, DeadlinesHonoured, SlidingWindow, FreshOK, TableInv, StoredOK
<1>3. session[s].last_seen \in Nat
  BY <1>2 DEF Session
<1>4. CASE Kept(s)
  BY <1>1, <1>2, <1>3, <1>4, Later DEF Kept, Created
<1>5. CASE Ended(s)
  <2>1. /\ session'[s].expires_at = session[s].expires_at
        /\ session'[s].absolute_expires_at = session[s].absolute_expires_at
        /\ session'[s].last_seen = session[s].last_seen
        /\ session'[s].lease_generation = session[s].lease_generation
    BY <1>2, <1>5 DEF Ended, Session
  <2>2. Created(s) /\ (Created(s)' <=> Created(s))
    BY <1>2, <1>5, <2>1 DEF Created, Ended
  <2> QED
    BY <1>1, <1>2, <1>3, <2>1, <2>2, Later
<1>6. CASE Refreshed(s)
  <2>1. PICK t \in Threads :
          session'[s] = [session[s] EXCEPT !.last_seen = now[t],
                           !.expires_at = Earlier(now[t] + TtlSeconds, session[s].absolute_expires_at)]
    BY <1>6 DEF Refreshed
  <2>2. /\ session'[s].expires_at = Earlier(now[t] + TtlSeconds, session[s].absolute_expires_at)
        /\ session'[s].absolute_expires_at = session[s].absolute_expires_at
        /\ session'[s].last_seen = now[t]
        /\ session'[s].lease_generation = session[s].lease_generation
    BY <1>2, <2>1 DEF Session
  <2>3. now[t] <= clock /\ clock' = clock /\ Created(s)
    BY <1>2, <1>6 DEF TimeInv, ReadingsOK, Refreshed
  <2>4. Created(s)'
    BY <2>2, <2>3 DEF Created
  <2> QED
    BY <2>2, <2>3, <2>4
<1>7. CASE Inserted(s)
  <2>1. PICK t \in Threads :
          /\ session'[s].expires_at = now[t] + TtlSeconds
          /\ session'[s].absolute_expires_at = now[t] + AbsoluteTtlSeconds
          /\ session'[s].last_seen = now[t]
          /\ session'[s].lease_generation = generation + 1
    BY <1>7 DEF Inserted
  <2>2. now[t] \in Nat /\ now[t] <= clock /\ clock' = clock /\ generation \in Nat
    BY <1>7 DEF StoreInv, TypeOK, TimeInv, ReadingsOK, Inserted
  <2>3. now[t] + TtlSeconds = Earlier(now[t] + TtlSeconds, now[t] + AbsoluteTtlSeconds)
    BY <2>2, StoreAssumption DEF Earlier
  <2>4. Created(s)'
    BY <2>1, <2>2 DEF Created
  <2> QED
    BY <2>1, <2>2, <2>3, <2>4
<1> QED
  BY <1>4, <1>5, <1>6, <1>7, SessionStep

(* What was written last, and how late.                                    *)
LEMMA HeardWritten ==
  ASSUME NEW h \in Nat, NEW l \in Int, NEW last \in Nat, NEW c \in Nat, NEW n \in Nat,
         HeardBy(h, l, last, c), n <= c
  PROVE  HeardBy(Latest(h, n), Latest(l, c - n), n, c)
BY DEF HeardBy, Latest

LEMMA HeardStep ==
  ASSUME StoreInv, TimeInv, [Next]_vars
  PROVE  HeardOK'
<1> SUFFICES ASSUME NEW s \in SessionId
             PROVE  HeardBy(heard'[s], lag'[s], session'[s].last_seen, clock')
  BY DEF HeardOK
<1>1. /\ clock \in Nat /\ clock' \in Nat /\ clock <= clock'
      /\ session[s] \in Session /\ session[s].last_seen \in Nat
      /\ heard[s] \in Nat /\ lag[s] \in Int
      /\ HeardBy(heard[s], lag[s], session[s].last_seen, clock)
  BY ClockStep DEF StoreInv, TypeOK, Session, TimeInv, HeardOK
<1>2. CASE Kept(s)
  BY <1>1, <1>2 DEF Kept, HeardBy
<1>3. CASE Ended(s)
  <2>1. session'[s].last_seen = session[s].last_seen
    BY <1>1, <1>3 DEF Ended, Session
  <2> QED
    BY <1>1, <1>3, <2>1 DEF Ended, HeardBy
<1>4. CASE Refreshed(s)
  <2>1. PICK t \in Threads :
          /\ heard'[s] = Latest(heard[s], now[t])
          /\ lag'[s] = Latest(lag[s], clock - now[t])
          /\ session'[s] = [session[s] EXCEPT !.last_seen = now[t],
                           !.expires_at = Earlier(now[t] + TtlSeconds, session[s].absolute_expires_at)]
    BY <1>4 DEF Refreshed
  <2>2. session'[s].last_seen = now[t] /\ clock' = clock
    BY <1>1, <1>4, <2>1 DEF Session, Refreshed
  <2>3. now[t] \in Nat /\ now[t] <= clock
    BY DEF StoreInv, TypeOK, TimeInv, ReadingsOK
  <2> QED
    BY <1>1, <2>1, <2>2, <2>3, HeardWritten
<1>5. CASE Inserted(s)
  <2>1. PICK t \in Threads : heard'[s] = now[t] /\ session'[s].last_seen = now[t]
    BY <1>5 DEF Inserted
  <2>2. now[t] \in Nat /\ now[t] <= clock /\ clock' = clock /\ lag'[s] = lag[s]
    BY <1>5 DEF StoreInv, TypeOK, TimeInv, ReadingsOK, Inserted
  <2> QED
    BY <1>1, <2>1, <2>2 DEF HeardBy
<1> QED
  BY <1>2, <1>3, <1>4, <1>5, SessionStep

(* A call that goes on to its second critical section found its session    *)
(* missing, or within its absolute deadline, which never moves.            *)
LEMMA RereadStep ==
  ASSUME StoreInv, TimeInv, [Next]_vars
  PROVE  AbsoluteDeadlineHonoured'
<1> SUFFICES ASSUME NEW u \in Threads, pc'[u] = "reread", arg'[u] \in stored'
             PROVE  now'[u] <= session'[arg'[u]].absolute_expires_at
  BY DEF AbsoluteDeadlineHonoured
<1>1. /\ pc \in [Threads -> Labels] /\ arg \in [Threads -> SessionId \cup {NoId}]
      /\ now \in [Threads -> Nat] /\ session \in [SessionId -> Session]
      /\ stored \subseteq SessionId
  BY DEF StoreInv, TypeOK
<1> DEFINE Proceeds == /\ arg'[u] = arg[u] /\ now'[u] = now[u]
                       /\ \/ pc[u] = "reread"
                          \/ /\ pc[u] \in {"get_check", "heartbeat_check"}
                             /\ arg[u] \in stored => ~Expired(arg[u], now[u])
<1>2. Proceeds
  <2>1. ASSUME NEW t \in Threads, Step(t) PROVE Proceeds
    <3>1. CASE CheckMissing(t) \/ GetCheck(t) \/ HeartbeatRefresh(t)
      BY <3>1, <1>1 DEF CheckMissing, GetCheck, HeartbeatRefresh, Goto
    <3>2. CASE Scavenge(t) \/ Reclaim(t) \/ ReadClock(t) \/ Allocate(t) \/ CheckExpired(t)
      BY <3>2, <1>1 DEF Scavenge, Reclaim, ReadClock, Allocate, CheckExpired, Goto
    <3>3. CASE AllocateExhausted(t) \/ Insert(t) \/ Release(t) \/ Reread(t)
      BY <3>3, <1>1 DEF AllocateExhausted, Insert, Release, Reread, Return, Goto
    <3> QED
      BY <2>1, <3>1, <3>2, <3>3 DEF Step
  <2>2. ASSUME NEW t \in Threads, NEW s \in SessionId, Call(t, s) PROVE Proceeds
    BY <2>2, <1>1 DEF Call, CreateBegin, GetActiveBegin, HeartbeatBegin, Begin, Revoke, Goto
  <2>3. CASE Tick \/ UNCHANGED vars
    BY <2>3 DEF Tick, vars, threadVars
  <2> QED
    BY <2>1, <2>2, <2>3 DEF Next
<1>3. arg[u] \in SessionId /\ Created(arg[u]) /\ now[u] \in Nat
  BY <1>1, <1>2 DEF StoreInv, ThreadsInv, CallersOK
<1>4. /\ arg[u] \in stored
      /\ session'[arg[u]].absolute_expires_at = session[arg[u]].absolute_expires_at
  <2>1. session[arg[u]] \in Session
    BY <1>1, <1>3
  <2>2. ~Inserted(arg[u]) /\ ~Ended(arg[u])
    BY <1>2, <1>3 DEF Inserted, Ended
  <2>3. CASE Kept(arg[u])
    BY <2>3, <1>2 DEF Kept
  <2>4. CASE Refreshed(arg[u])
    BY <2>1, <2>4 DEF Refreshed, Session
  <2> QED
    BY <2>2, <2>3, <2>4, <1>3, SessionStep
<1>5. now[u] <= session[arg[u]].absolute_expires_at
  <2>1. CASE pc[u] = "reread"
    BY <2>1, <1>4 DEF TimeInv, DeadlinesHonoured, AbsoluteDeadlineHonoured
  <2>2. CASE ~Expired(arg[u], now[u])
    <3>1. session[arg[u]].absolute_expires_at \in Nat
      BY <1>1, <1>3 DEF Session
    <3> QED
      BY <2>2, <3>1, <1>3 DEF Expired
  <2> QED
    BY <2>1, <2>2, <1>2, <1>4
<1> QED
  BY <1>2, <1>4, <1>5

LEMMA TimeInitInv == Init => TimeInv
<1> SUFFICES ASSUME Init PROVE TimeInv
  OBVIOUS
<1>1. \A s \in SessionId : session[s].lease_generation = 0 /\ ~session[s].revoked
  BY DEF Init, NoSession
<1>2. ReadingsOK
  BY DEF Init, ReadingsOK
<1>5. HeardOK
  <2>1. ASSUME NEW s \in SessionId PROVE heard[s] = 0 /\ lag[s] = 0 /\ session[s].last_seen = 0
    BY DEF Init, NoSession
  <2>2. clock = 0
    BY DEF Init
  <2>3. HeardBy(0, 0, 0, 0)
    BY DEF HeardBy
  <2> QED
    BY <2>1, <2>2, <2>3, Zenon DEF HeardOK
<1>3. AbsoluteDeadlineHonoured
  BY DEF Init, AbsoluteDeadlineHonoured
<1>4. \A s \in SessionId : ~Created(s)
  <2>1. ~(0 > 0)
    OBVIOUS
  <2> QED
    BY <1>1, <2>1, Zenon DEF Created
<1> QED
  BY <1>1, <1>2, <1>3, <1>4, <1>5 DEF TimeInv, FreshOK, DeadlinesHonoured, SlidingWindow

LEMMA StoreAndTimeInv == Spec => [](StoreInv /\ TimeInv)
<1>1. Init => StoreInv /\ TimeInv
  BY StoreInitInv, TimeInitInv
<1>2. StoreInv /\ TimeInv /\ [Next]_vars => StoreInv' /\ TimeInv'
  <2> SUFFICES ASSUME StoreInv, TimeInv, [Next]_vars PROVE StoreInv' /\ TimeInv'
    OBVIOUS
  <2>1. ReadingsOK'
    BY ReadingsStep DEF TimeInv
  <2>2. SlidingWindow' /\ FreshOK' /\ AbsoluteDeadlineHonoured'
    BY WindowStep, RereadStep
  <2> QED
    BY <2>1, <2>2, StoreNextInv, HeardStep DEF TimeInv, DeadlinesHonoured
<1> QED
  BY <1>1, <1>2, PTL DEF Spec

(* For any timeouts that the constructor accepts and any interleaving of   *)
(* calls whose clock readings have different ages: the sliding deadline of *)
(* a session is ttl after last_seen, capped by the absolute one, and a     *)
(* call that is about to return a session read the clock within its        *)
(* absolute deadline.                                                      *)
THEOREM DeadlinesHold == Spec => []DeadlinesHonoured
<1>1. TimeInv => DeadlinesHonoured
  BY DEF TimeInv
<1> QED
  BY <1>1, StoreAndTimeInv, PTL

(* An ended session stays out of the table and revoked, whichever calls    *)
(* had looked it up before.                                                *)
THEOREM EndedStaysEnded == Spec => NoResurrection
<1>1. StoreInv /\ TimeInv /\ [Next]_vars =>
        [\A s \in SessionId :
           /\ Created(s) /\ s \notin stored => s \notin stored'
           /\ session[s].revoked => session'[s].revoked]_vars
  <2> SUFFICES ASSUME StoreInv, TimeInv, [Next]_vars, NEW s \in SessionId
               PROVE  /\ Created(s) /\ s \notin stored => s \notin stored'
                      /\ session[s].revoked => session'[s].revoked
    OBVIOUS
  <2>1. CASE Kept(s)
    BY <2>1 DEF Kept
  <2>2. session[s] \in Session
    BY DEF StoreInv, TypeOK
  <2>3. CASE Ended(s)
    BY <2>2, <2>3 DEF Ended, Session
  <2>4. CASE Refreshed(s)
    BY <2>2, <2>4 DEF Refreshed, Session
  <2>5. CASE Inserted(s)
    BY <2>5 DEF Inserted, TimeInv, FreshOK
  <2> QED
    BY <2>1, <2>3, <2>4, <2>5, SessionStep
<1> QED
  BY <1>1, StoreAndTimeInv, PTL DEF Spec, NoResurrection

(* How early a session can be ended.  One that leaves the table other than *)
(* through revoke() is past its absolute deadline by the clock of that     *)
(* moment, or nobody was heard from for idle_seconds less the longest time *)
(* one of its heartbeats took from its reading to its write: the ending    *)
(* thread's reading is not ahead of the clock, the sliding deadline never  *)
(* comes before the idle one, and last_seen is behind the newest reading   *)
(* by at most that time (HeardOK).                                         *)
THEOREM EndsOnlyWhenDue == Spec => EndedOnlyWhenDue
<1>1. StoreInv /\ TimeInv /\ [Next]_vars =>
        [\A s \in stored \ stored' :
           \/ heard[s] + IdleSeconds < clock + lag[s]
           \/ session[s].absolute_expires_at < clock
           \/ RevokedNow(s)]_vars
  <2> SUFFICES ASSUME StoreInv, TimeInv, [Next]_vars, NEW s \in stored \ stored'
               PROVE  \/ heard[s] + IdleSeconds < clock + lag[s]
                      \/ session[s].absolute_expires_at < clock
                      \/ RevokedNow(s)
    OBVIOUS
  <2>1. s \in SessionId /\ session[s] \in Session /\ clock \in Nat
    BY DEF StoreInv, TypeOK
  <2>2. Ended(s)
    BY <2>1, SessionStep DEF Kept, Refreshed, Inserted
  <2>3. PICK t \in Threads : Expired(s, now[t]) \/ Revoke(t, s)
    BY <2>2 DEF Ended
  <2>4. CASE Revoke(t, s)
    BY <2>4 DEF Revoke, RevokedNow, Goto, StoreInv, TypeOK
  <2>5. CASE Expired(s, now[t])
    <3>1. /\ Created(s) /\ ~session[s].revoked
          /\ now[t] \in Nat /\ now[t] <= clock
      BY DEF StoreInv, TypeOK, TableInv, StoredOK, TimeInv, ReadingsOK
    <3>2. /\ session[s].last_seen \in Nat /\ session[s].absolute_expires_at \in Nat
          /\ session[s].expires_at \in Nat
      BY <2>1 DEF Session
    <3>3. session[s].expires_at = Earlier(session[s].last_seen + TtlSeconds,
                                          session[s].absolute_expires_at)
      BY <2>1, <3>1 DEF TimeInv, DeadlinesHonoured, SlidingWindow
    <3>4. /\ heard[s] \in Nat /\ lag[s] \in Int /\ 0 <= lag[s]
          /\ heard[s] <= session[s].last_seen + lag[s]
      BY <2>1 DEF StoreInv, TypeOK, TimeInv, HeardOK, HeardBy
    <3>5. session[s].last_seen + IdleSeconds < now[t] \/ session[s].absolute_expires_at < now[t]
      BY <2>1, <2>5, <3>1, <3>2, <3>3, StoreAssumption DEF Expired, Earlier
    <3>6. \A h, l, last, n, c, i \in Int :
            h <= last + l /\ last + i < n /\ n <= c => h + i < c + l
      OBVIOUS
    <3> QED
      BY <2>1, <3>1, <3>2, <3>4, <3>5, <3>6, StoreAssumption
  <2> QED
    BY <2>3, <2>4, <2>5
<1> QED
  BY <1>1, StoreAndTimeInv, PTL DEF Spec, EndedOnlyWhenDue

-----------------------------------------------------------------------------
(* The store implements LeaseLedger.  HolderOf and Stamps are the values   *)
(* that the refinement mapping gives to holder and stamp.                  *)
HolderOf(leases) ==
  [h \in Hosts |-> IF \E s \in SessionId : leases[s] = h
                   THEN CHOOSE s \in SessionId : leases[s] = h
                   ELSE NoId]

Stamps == [s \in SessionId |-> session[s].lease_generation]

OneHolder(leases) ==
  /\ leases \in [SessionId -> Hosts \cup {NoIP}]
  /\ \A s, r \in SessionId : leases[s] # NoIP /\ leases[s] = leases[r] => s = r

(* With one holder per address the choice is the holder.                   *)
LEMMA HolderAt ==
  ASSUME NEW leases, OneHolder(leases), NEW h \in Hosts, NEW r \in SessionId
  PROVE  HolderOf(leases)[h] = r <=> leases[r] = h
<1>1. h # NoIP /\ NoId \notin SessionId
  BY StoreAssumption DEF Hosts, NoIP
<1>2. CASE \E s \in SessionId : leases[s] = h
  <2> DEFINE c == CHOOSE s \in SessionId : leases[s] = h
  <2>1. c \in SessionId /\ leases[c] = h
    BY <1>2
  <2>2. HolderOf(leases)[h] = c
    BY <1>2 DEF HolderOf
  <2> HIDE DEF c
  <2> QED
    BY <1>1, <2>1, <2>2 DEF OneHolder
<1>3. CASE ~ \E s \in SessionId : leases[s] = h
  BY <1>1, <1>3 DEF HolderOf
<1> QED
  BY <1>2, <1>3

LEMMA HolderRange ==
  ASSUME NEW leases, NEW h \in Hosts
  PROVE  HolderOf(leases)[h] \in SessionId \cup {NoId}
<1>1. CASE \E s \in SessionId : leases[s] = h
  <2> DEFINE c == CHOOSE s \in SessionId : leases[s] = h
  <2>1. c \in SessionId
    BY <1>1
  <2>2. HolderOf(leases)[h] = c
    BY <1>1 DEF HolderOf
  <2> QED
    BY <2>1, <2>2
<1>2. CASE ~ \E s \in SessionId : leases[s] = h
  BY <1>2 DEF HolderOf
<1> QED
  BY <1>1, <1>2

(* Leasing a free address, and giving one back, update one entry.          *)
LEMMA HolderUpdate ==
  ASSUME NEW leases, OneHolder(leases), NEW leased, OneHolder(leased),
         NEW h \in Hosts, NEW a \in SessionId, leases[a] = NoIP, leased[a] = h,
         \A s \in SessionId : s # a => leased[s] = leases[s]
  PROVE  /\ HolderOf(leased) = [HolderOf(leases) EXCEPT ![h] = a]
         /\ HolderOf(leases) = [HolderOf(leased) EXCEPT ![h] = NoId]
         /\ HolderOf(leases)[h] = NoId
         /\ HolderOf(leased)[h] = a
<1>1. h # NoIP
  BY DEF Hosts, NoIP
<1>2. \A s \in SessionId : leases[s] # h
  BY <1>1 DEF OneHolder
<1>3. HolderOf(leased)[h] = a /\ HolderOf(leases)[h] = NoId
  <2>1. HolderOf(leased)[h] = a
    BY HolderAt
  <2>2. ASSUME NEW s \in SessionId PROVE HolderOf(leases)[h] # s
    <3>1. HolderOf(leases)[h] = s <=> leases[s] = h
      BY ONLY OneHolder(leases), h \in Hosts, s \in SessionId, HolderAt
    <3> QED
      BY <1>2, <3>1
  <2>3. HolderOf(leases)[h] \in SessionId \cup {NoId}
    BY HolderRange
  <2> QED
    BY <2>1, <2>2, <2>3
<1>4. ASSUME NEW g \in Hosts, g # h PROVE HolderOf(leased)[g] = HolderOf(leases)[g]
  <2>0. g # NoIP
    BY DEF Hosts, NoIP
  <2>1. \A s \in SessionId : HolderOf(leased)[g] = s <=> HolderOf(leases)[g] = s
    <3>1. \A s \in SessionId : leased[s] = g <=> leases[s] = g
      BY <1>4, <2>0
    <3>2. ASSUME NEW s \in SessionId PROVE HolderOf(leased)[g] = s <=> leased[s] = g
      BY ONLY OneHolder(leased), g \in Hosts, s \in SessionId, HolderAt
    <3>3. ASSUME NEW s \in SessionId PROVE HolderOf(leases)[g] = s <=> leases[s] = g
      BY ONLY OneHolder(leases), g \in Hosts, s \in SessionId, HolderAt
    <3> QED
      BY <3>1, <3>2, <3>3
  <2>2. /\ HolderOf(leased)[g] \in SessionId \cup {NoId}
        /\ HolderOf(leases)[g] \in SessionId \cup {NoId}
    BY HolderRange
  <2> QED
    BY <2>1, <2>2
<1>5. /\ HolderOf(leased) = [g \in Hosts |-> HolderOf(leased)[g]]
      /\ HolderOf(leases) = [g \in Hosts |-> HolderOf(leases)[g]]
  BY DEF HolderOf
<1>6. HolderOf(leased) = [HolderOf(leases) EXCEPT ![h] = a]
  BY <1>3, <1>4, <1>5
<1>7. HolderOf(leases) = [HolderOf(leased) EXCEPT ![h] = NoId]
  BY <1>3, <1>4, <1>5
<1> QED
  BY <1>3, <1>6, <1>7

(* The mapped state, as the ledger's definitions see it.                   *)
LEMMA LedgerVarsAre ==
  /\ Ledger!ledgerVars = <<HolderOf(allocated), stored, Stamps>>
  /\ Ledger!ledgerVars' = <<HolderOf(allocated'), stored', Stamps'>>
  BY DEF Ledger!ledgerVars, HolderOf, Stamps, IsLeased

LEMMA LedgerInitIs == Init => Ledger!LedgerInit
<1> SUFFICES ASSUME Init PROVE Ledger!LedgerInit
  OBVIOUS
<1>1. \A s \in SessionId : allocated[s] = NoIP /\ session[s].lease_generation = 0
  BY DEF Init, PoolInit, NoSession
<1>2. \A h \in Hosts : h # NoIP
  BY DEF Hosts, NoIP
<1>3. \A h \in Hosts : ~IsLeased(h)
  BY <1>1, <1>2 DEF IsLeased
<1> QED
  BY <1>1, <1>3 DEF Ledger!LedgerInit, Init, Hosts

(* The ledger's actions in terms of the mapped values.                     *)
LEMMA ReserveIs ==
  ASSUME NEW h \in Hosts, NEW a \in SessionId,
         HolderOf(allocated)[h] = NoId, Stamps[a] = 0,
         \A g \in Hosts : HolderOf(allocated)[g] # a,
         HolderOf(allocated') = [HolderOf(allocated) EXCEPT ![h] = a],
         stored' = stored, Stamps' = Stamps
  PROVE  Ledger!LedgerNext
<1>1. Ledger!Reserve(h, a)
  BY Zenon DEF Ledger!Reserve, Ledger!Holds, HolderOf, Stamps, IsLeased, Hosts
<1> QED
  BY <1>1 DEF Ledger!LedgerNext, Hosts

LEMMA ActivateIs ==
  ASSUME NEW a \in SessionId, Stamps[a] = 0,
         \E g \in Hosts : HolderOf(allocated)[g] = a,
         HolderOf(allocated') = HolderOf(allocated),
         stored' = stored \cup {a}, Stamps'[a] > 0,
         \A r \in SessionId \ {a} : Stamps'[r] = Stamps[r] /\ Stamps[r] < Stamps'[a]
  PROVE  Ledger!LedgerNext
<1>1. Ledger!Activate(a)
  BY Zenon DEF Ledger!Activate, Ledger!Holds, HolderOf, Stamps, IsLeased, Hosts
<1> QED
  BY <1>1 DEF Ledger!LedgerNext

LEMMA EndIs ==
  ASSUME NEW S \in SUBSET stored, S # {}, stored' = stored \ S,
         HolderOf(allocated') = HolderOf(allocated), Stamps' = Stamps
  PROVE  Ledger!LedgerNext
<1>1. Ledger!End(S)
  BY Zenon DEF Ledger!End, HolderOf, Stamps, IsLeased, Hosts
<1> QED
  BY <1>1 DEF Ledger!LedgerNext

LEMMA GiveBackIs ==
  ASSUME NEW h \in Hosts, NEW a \in SessionId,
         HolderOf(allocated)[h] = a, Stamps[a] > 0, a \notin stored,
         HolderOf(allocated') = [HolderOf(allocated) EXCEPT ![h] = NoId],
         stored' = stored, Stamps' = Stamps
  PROVE  Ledger!LedgerNext
<1>1. a # NoId
  BY StoreAssumption
<1>2. Ledger!GiveBack(h)
  BY <1>1, Zenon DEF Ledger!GiveBack, HolderOf, Stamps, IsLeased, Hosts
<1> QED
  BY <1>2 DEF Ledger!LedgerNext, Hosts

(* A popped session's lease: the address goes back to nobody.              *)
LEMMA ReleaseRefines ==
  ASSUME StoreInv, StoreInv', NEW t \in Threads, NEW z \in pending[t],
         PoolRelease(z), UNCHANGED storeVars
  PROVE  Ledger!LedgerNext
<1>1. /\ z \in SessionId /\ Created(z) /\ z \notin stored /\ allocated[z] # NoIP
      /\ allocated \in [SessionId -> Hosts \cup {NoIP}]
      /\ OneHolder(allocated) /\ OneHolder(allocated')
  BY DEF StoreInv, TypeOK, PoolTypeOK, ThreadsInv, PendingOK, PoolPartition, NoDoubleLease,
         OneHolder
<1>2. PICK h \in Hosts : h = allocated[z]
  BY <1>1
<1>3. allocated' = [allocated EXCEPT ![z] = NoIP]
  BY DEF PoolRelease
<1>4. allocated'[z] = NoIP /\ \A s \in SessionId : s # z => allocated[s] = allocated'[s]
  BY <1>1, <1>3
<1>5. /\ HolderOf(allocated') = [HolderOf(allocated) EXCEPT ![h] = NoId]
      /\ HolderOf(allocated)[h] = z
  BY <1>1, <1>2, <1>4, HolderUpdate
<1>6. stored' = stored /\ Stamps' = Stamps /\ Stamps[z] > 0
  BY <1>1 DEF storeVars, Stamps, Created
<1> QED
  BY <1>1, <1>5, <1>6, GiveBackIs

LEMMA AllocateRefines ==
  ASSUME StoreInv, StoreInv', NEW t \in Threads, Allocate(t)
  PROVE  Ledger!LedgerNext
<1>1. PICK a \in SessionId : a = arg[t]
  BY DEF Allocate, StoreInv, ThreadsInv, CreatorsOK, Creating
<1>2. /\ ~Created(a) /\ allocated[a] = NoIP /\ available # <<>>
      /\ allocated \in [SessionId -> Hosts \cup {NoIP}]
      /\ available \in Seq(Hosts)
      /\ allocated' = [allocated EXCEPT ![a] = Head(available)]
      /\ OneHolder(allocated) /\ OneHolder(allocated')
      /\ UNCHANGED storeVars
  BY <1>1 DEF Allocate, PoolAllocate, StoreInv, TypeOK, PoolTypeOK, ThreadsInv, CreatorsOK,
              Creating, PoolPartition, NoDoubleLease, OneHolder
<1>3. PICK h \in Hosts : h = Head(available)
  BY <1>2
<1>4. allocated'[a] = h /\ \A s \in SessionId : s # a => allocated'[s] = allocated[s]
  BY <1>2, <1>3
<1>5. /\ HolderOf(allocated') = [HolderOf(allocated) EXCEPT ![h] = a]
      /\ HolderOf(allocated)[h] = NoId
  <2>1. OneHolder(allocated) /\ OneHolder(allocated') /\ allocated[a] = NoIP
    BY <1>2
  <2> QED
    BY <1>4, <2>1, HolderUpdate
<1>6. ASSUME NEW g \in Hosts PROVE HolderOf(allocated)[g] # a
  <2>1. HolderOf(allocated)[g] = a <=> allocated[a] = g
    BY ONLY <1>2, g \in Hosts, a \in SessionId, HolderAt
  <2>2. g # NoIP
    BY DEF Hosts, NoIP
  <2> QED
    BY <1>2, <2>1, <2>2
<1>7. stored' = stored /\ Stamps' = Stamps /\ Stamps[a] = 0
  <2>1. session[a].lease_generation \in Nat
    BY DEF StoreInv, TypeOK, Session
  <2> QED
    BY <1>2, <2>1 DEF storeVars, Stamps, Created
<1> QED
  BY <1>5, <1>6, <1>7, ReserveIs

LEMMA InsertRefines ==
  ASSUME StoreInv, NEW t \in Threads, Insert(t)
  PROVE  Ledger!LedgerNext
<1>1. PICK a \in SessionId : a = arg[t]
  BY DEF Insert, StoreInv, ThreadsInv, CreatorsOK, Creating
<1>2. /\ ~Created(a) /\ allocated[a] # NoIP
      /\ allocated \in [SessionId -> Hosts \cup {NoIP}]
      /\ OneHolder(allocated) /\ allocated' = allocated
      /\ stored' = stored \cup {a}
      /\ session \in [SessionId -> Session] /\ generation \in Nat
  BY <1>1 DEF Insert, StoreInv, TypeOK, PoolTypeOK, ThreadsInv, CreatorsOK,
              Creating, PoolPartition, NoDoubleLease, OneHolder, poolVars
<1>3. PICK h \in Hosts : h = allocated[a]
  BY <1>2
<1>4. HolderOf(allocated)[h] = a
  <2>1. HolderOf(allocated)[h] = a <=> allocated[a] = h
    BY ONLY <1>2, h \in Hosts, a \in SessionId, HolderAt
  <2> QED
    BY <1>3, <2>1
<1>5. \A s \in SessionId : Stamps[s] \in Nat /\ Stamps[s] <= generation
  BY DEF StoreInv, TypeOK, Session, Stamps, TableInv, GenerationsOK, Generation
<1>6. Stamps[a] = 0
  BY <1>2, <1>5 DEF Stamps, Created
<1>7. \A s \in SessionId : Stamps'[s] = IF s = a THEN generation + 1 ELSE Stamps[s]
  <2>1. \A s \in SessionId : session'[s].lease_generation =
                               IF s = a THEN generation + 1 ELSE session[s].lease_generation
    BY <1>1, <1>2 DEF Insert
  <2> QED
    BY <2>1 DEF Stamps
<1>8. /\ Stamps'[a] > 0
      /\ \A r \in SessionId \ {a} : Stamps'[r] = Stamps[r] /\ Stamps[r] < Stamps'[a]
  BY <1>2, <1>5, <1>7
<1> QED
  BY <1>2, <1>4, <1>6, <1>8, ActivateIs

(* Sessions that one step takes out of the table end together.             *)
LEMMA PopRefines ==
  ASSUME StoreInv, NEW t \in Threads, NEW S \in SUBSET stored, NEW owed \in SUBSET S,
         Pop(t, S, owed), UNCHANGED poolVars
  PROVE  [Ledger!LedgerNext]_(Ledger!ledgerVars)
<1>1. /\ stored' = stored \ S
      /\ \A s \in SessionId : session'[s].lease_generation = session[s].lease_generation
  BY PopEffect DEF StoreInv
<1>2. Stamps' = Stamps /\ allocated' = allocated
  BY <1>1 DEF Stamps, poolVars
<1>3. CASE S = {}
  <2>1. stored' = stored
    BY <1>1, <1>3
  <2> QED
    BY <1>2, <2>1, LedgerVarsAre
<1>4. CASE S # {}
  BY <1>1, <1>2, <1>4, EndIs
<1> QED
  BY <1>3, <1>4

LEMMA LedgerStep ==
  ASSUME StoreInv, StoreInv', [Next]_vars
  PROVE  [Ledger!LedgerNext]_(Ledger!ledgerVars)
<1>1. ASSUME allocated' = allocated, stored' = stored,
             \A s \in SessionId : session'[s].lease_generation = session[s].lease_generation
      PROVE  UNCHANGED Ledger!ledgerVars
  <2>1. Stamps' = Stamps
    BY <1>1 DEF Stamps
  <2> QED
    BY <1>1, <2>1, LedgerVarsAre
<1>2. ASSUME NEW t \in Threads, Scavenge(t) PROVE [Ledger!LedgerNext]_(Ledger!ledgerVars)
  <2> DEFINE S == {r \in stored : Expired(r, now[t])}
             owed == {r \in S : ~session[r].revoked}
  <2>1. Pop(t, S, owed) /\ UNCHANGED poolVars
    BY <1>2 DEF Scavenge
  <2>2. S \in SUBSET stored /\ owed \in SUBSET S
    OBVIOUS
  <2> HIDE DEF S, owed
  <2> QED
    BY <2>1, <2>2, PopRefines
<1>3. ASSUME NEW t \in Threads, CheckExpired(t) \/ \E r \in SessionId : Revoke(t, r)
      PROVE  [Ledger!LedgerNext]_(Ledger!ledgerVars)
  <2>1. PICK S \in SUBSET stored : Pop(t, S, S) /\ UNCHANGED poolVars
    BY <1>3 DEF CheckExpired, Revoke
  <2>2. S \in SUBSET S
    OBVIOUS
  <2> QED
    BY <2>1, <2>2, PopRefines
<1>4. ASSUME NEW t \in Threads, HeartbeatRefresh(t) PROVE UNCHANGED Ledger!ledgerVars
  <2>1. \A s \in SessionId : session'[s].lease_generation = session[s].lease_generation
    BY <1>4 DEF HeartbeatRefresh, StoreInv, TypeOK, Session
  <2> QED
    BY <1>1, <1>4, <2>1 DEF HeartbeatRefresh, poolVars
<1>5. ASSUME NEW t \in Threads, Reclaim(t) \/ Release(t) PROVE Ledger!LedgerNext
  <2>1. PICK z \in pending[t] : PoolRelease(z) /\ UNCHANGED storeVars
    BY <1>5 DEF Reclaim, Release, StoreInv, ThreadsInv, CallersOK
  <2> QED
    BY <2>1, ReleaseRefines
<1>6. ASSUME NEW t \in Threads,
             \/ ReadClock(t) \/ AllocateExhausted(t) \/ CheckMissing(t) \/ GetCheck(t) \/ Reread(t)
             \/ \E r \in SessionId :
                  CreateBegin(t, r) \/ GetActiveBegin(t, r) \/ HeartbeatBegin(t, r)
      PROVE  UNCHANGED Ledger!ledgerVars
  <2>1. allocated' = allocated /\ session' = session /\ stored' = stored
    BY <1>6 DEF ReadClock, AllocateExhausted, CheckMissing, GetCheck, Reread, CreateBegin,
                GetActiveBegin, HeartbeatBegin, Begin, storeVars, poolVars
  <2> QED
    BY <1>1, <2>1
<1>7. CASE Tick \/ UNCHANGED vars
  <2>1. allocated' = allocated /\ session' = session /\ stored' = stored
    BY <1>7 DEF Tick, vars, storeVars, poolVars
  <2> QED
    BY <1>1, <2>1
<1>8. ASSUME NEW t \in Threads, Step(t) PROVE [Ledger!LedgerNext]_(Ledger!ledgerVars)
  BY <1>2, <1>3, <1>4, <1>5, <1>6, <1>8, AllocateRefines, InsertRefines DEF Step
<1>9. ASSUME NEW t \in Threads, NEW r \in SessionId, Call(t, r)
      PROVE  [Ledger!LedgerNext]_(Ledger!ledgerVars)
  BY <1>3, <1>6, <1>9 DEF Call
<1> QED
  BY <1>7, <1>8, <1>9 DEF Next

(* The session store implements the ledger: behind all threads, locks and  *)
(* the queue of free addresses, an address has one holder at a time, it is *)
(* given back only after its session ended, and each activation is newer   *)
(* than every earlier one.                                                 *)
THEOREM StoreImplementsLedger == Spec => ImplementsLedger
<1>1. Init => Ledger!LedgerInit
  BY LedgerInitIs
<1>2. StoreInv /\ StoreInv' /\ [Next]_vars => [Ledger!LedgerNext]_(Ledger!ledgerVars)
  BY LedgerStep
<1> QED
  BY <1>1, <1>2, StoreInitInv, StoreNextInv, PTL DEF Spec, ImplementsLedger, Ledger!LedgerSpec
=============================================================================
