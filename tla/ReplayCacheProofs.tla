--------------------------- MODULE ReplayCacheProofs ---------------------------
(***************************************************************************)
(* CacheCoherent and DuplicateDistance for every cache size, every number  *)
(* of handlers and every history of duplicated requests.                   *)
(***************************************************************************)
EXTENDS ReplayCache, TLAPS

(* Element by element: the list is the end of the history.                 *)
Mirrors ==
  LET n == Len(accepted)
      m == Len(order)
  IN  /\ m <= n
      /\ m < MaxReplayIds => m = n
      /\ \A i \in 1..m : order[i] = accepted[n - m + i]

ReplayInv == ReplayTypeOK /\ CacheCoherent /\ Mirrors /\ DuplicateDistance

(* consume_request_id() of a new id, with the loop that trims the list.    *)
LEMMA ConsumeInv ==
  ASSUME ReplayInv, NEW h \in Handlers, Consume(h)
  PROVE  ReplayInv'
<1> DEFINE key == checked[h]
           n == Len(accepted)
           m == Len(order)
           longer == Append(order, key)
           excess == IF Len(longer) > MaxReplayIds THEN Len(longer) - MaxReplayIds ELSE 0
<1>1. /\ key \in RequestId /\ key \notin ids
      /\ order \in Seq(RequestId) /\ accepted \in Seq(RequestId)
      /\ ids \in SUBSET RequestId
      /\ n \in Nat /\ m \in Nat /\ m <= MaxReplayIds
      /\ MaxReplayIds \in Nat /\ MaxReplayIds >= 1
  BY WindowAssumption DEF ReplayInv, ReplayTypeOK, CacheCoherent, Consume
<1>2. /\ longer \in Seq(RequestId) /\ Len(longer) = m + 1
      /\ \A i \in 1..m : longer[i] = order[i]
      /\ longer[m + 1] = key
  BY <1>1
<1>3. /\ excess \in {0, 1}
      /\ m < MaxReplayIds => excess = 0
      /\ m = MaxReplayIds => excess = 1
  BY <1>1, <1>2
<1>4. /\ order' = SubSeq(longer, excess + 1, m + 1)
      /\ ids' = (ids \cup {key}) \ {longer[i] : i \in 1..excess}
      /\ accepted' = Append(accepted, key)
      /\ checked' = [checked EXCEPT ![h] = NoRequest]
      /\ clock' = clock /\ signed' = signed
  BY <1>2 DEF Consume, Remember, Popped, Excess
<1> HIDE DEF longer, excess
<1>5. /\ order' \in Seq(RequestId)
      /\ Len(order') = m + 1 - excess
      /\ \A i \in 1..(m + 1 - excess) : order'[i] = longer[i + excess]
  BY <1>1, <1>2, <1>3, <1>4
<1>6. /\ accepted' \in Seq(RequestId) /\ Len(accepted') = n + 1
      /\ \A i \in 1..n : accepted'[i] = accepted[i]
      /\ accepted'[n + 1] = key
  BY <1>1, <1>4
<1>7. /\ \A i \in 1..m : order[i] # key
      /\ \A i, j \in 1..m : order[i] = order[j] => i = j
      /\ \A r : r \in ids <=> \E i \in 1..m : order[i] = r
  BY <1>1 DEF ReplayInv, CacheCoherent, Seen
<1>8. \A i, j \in 1..(m + 1) : longer[i] = longer[j] => i = j
  BY <1>1, <1>2, <1>7
<1>9. ReplayTypeOK'
  BY <1>1, <1>4, <1>5, <1>6 DEF ReplayInv, ReplayTypeOK
<1>10. CacheCoherent'
  <2>1. \A i, j \in 1..Len(order') : order'[i] = order'[j] => i = j
    <3> SUFFICES ASSUME NEW i \in 1..(m + 1 - excess), NEW j \in 1..(m + 1 - excess),
                        order'[i] = order'[j]
                 PROVE  i = j
      BY <1>5
    <3>1. i + excess \in 1..(m + 1) /\ j + excess \in 1..(m + 1)
      BY <1>1, <1>3
    <3> QED
      BY <3>1, <1>1, <1>3, <1>5, <1>8
  <2>2. Len(order') <= MaxReplayIds
    BY <1>1, <1>3, <1>5
  <2>3. \A r : r \in ids \cup {key} <=> \E i \in 1..(m + 1) : longer[i] = r
    BY <1>1, <1>2, <1>7
  <2>4. ASSUME NEW r, r \in ids' PROVE \E i \in 1..Len(order') : order'[i] = r
    <3>1. PICK i \in 1..(m + 1) : longer[i] = r
      BY <2>3, <2>4, <1>4
    <3>2. i \notin 1..excess
      BY <2>4, <3>1, <1>4
    <3>3. i - excess \in 1..(m + 1 - excess)
      BY <3>1, <3>2, <1>1, <1>3
    <3>4. order'[i - excess] = r
      BY <3>1, <3>3, <1>1, <1>3, <1>5
    <3> QED
      BY <3>3, <3>4, <1>5
  <2>5. ASSUME NEW i \in 1..Len(order') PROVE order'[i] \in ids'
    <3>1. i \in 1..(m + 1 - excess) /\ i + excess \in 1..(m + 1) /\ i + excess \notin 1..excess
      BY <1>1, <1>3, <1>5
    <3>2. order'[i] = longer[i + excess]
      BY <3>1, <1>5
    <3>3. \A j \in 1..excess : j \in 1..(m + 1) /\ longer[j] # longer[i + excess]
      BY <3>1, <1>1, <1>3, <1>8
    <3> QED
      BY <2>3, <3>1, <3>2, <3>3, <1>4
  <2>6. ids' = {order'[i] : i \in 1..Len(order')}
    BY <2>4, <2>5
  <2> QED
    BY <2>1, <2>2, <2>6 DEF CacheCoherent, Seen
<1>11. /\ m <= n
       /\ m < MaxReplayIds => m = n
       /\ \A i \in 1..m : order[i] = accepted[n - m + i]
  BY DEF ReplayInv, Mirrors
<1>12. Mirrors'
  <2>1. Len(order') <= Len(accepted') /\ (Len(order') < MaxReplayIds => Len(order') = Len(accepted'))
    BY <1>1, <1>3, <1>5, <1>6, <1>11
  <2>2. ASSUME NEW i \in 1..Len(order')
        PROVE  order'[i] = accepted'[Len(accepted') - Len(order') + i]
    <3>1. /\ i + excess \in 1..(m + 1) /\ order'[i] = longer[i + excess]
          /\ Len(accepted') - Len(order') + i = n - m + (i + excess)
      BY <1>1, <1>3, <1>5, <1>6
    <3>2. CASE i + excess \in 1..m
      <4>1. n - m + (i + excess) \in 1..n
        BY <3>2, <1>1, <1>3, <1>11
      <4> QED
        BY <3>1, <3>2, <4>1, <1>2, <1>6, <1>11
    <3>3. CASE i + excess = m + 1
      <4>1. n - m + (i + excess) = n + 1
        BY <3>3, <1>1
      <4> QED
        BY <3>1, <3>3, <4>1, <1>2, <1>6
    <3>4. i + excess \in 1..m \/ i + excess = m + 1
      BY <3>1, <1>1
    <3> QED
      BY <3>2, <3>3, <3>4
  <2> QED
    BY <2>1, <2>2 DEF Mirrors
<1>13. DuplicateDistance'
  <2> SUFFICES ASSUME NEW i \in 1..(n + 1), NEW j \in 1..(n + 1),
                      i < j, accepted'[i] = accepted'[j]
               PROVE  j - i > MaxReplayIds
    BY <1>6 DEF DuplicateDistance
  <2>1. i \in 1..n
    BY <1>1
  <2>2. CASE j \in 1..n
    BY <2>1, <2>2, <1>6 DEF ReplayInv, DuplicateDistance
  <2>3. CASE j = n + 1
    <3>1. accepted[i] = key
      BY <2>1, <2>3, <1>6
    <3>2. i <= n - m
      <4> SUFFICES ASSUME i > n - m PROVE FALSE
        BY <2>1, <1>1
      <4>1. i - (n - m) \in 1..m /\ n - m + (i - (n - m)) = i
        BY <2>1, <1>1, <1>11
      <4>2. order[i - (n - m)] = key
        BY <3>1, <4>1, <1>11
      <4> QED
        BY <4>1, <4>2, <1>7
    <3> QED
      BY <2>1, <2>3, <3>2, <1>1, <1>11
  <2> QED
    BY <2>2, <2>3, <1>1
<1> QED
  BY <1>9, <1>10, <1>12, <1>13 DEF ReplayInv

LEMMA ReplayInvariant == Spec => []ReplayInv
<1>1. Init => ReplayInv
  BY ReplayAssumption, WindowAssumption
  DEF Init, ReplayInv, ReplayTypeOK, CacheCoherent, Seen, Mirrors, DuplicateDistance
<1>2. ReplayInv /\ [Next]_vars => ReplayInv'
  <2> SUFFICES ASSUME ReplayInv, [Next]_vars PROVE ReplayInv'
    OBVIOUS
  <2>1. ASSUME UNCHANGED cacheVars, ReplayTypeOK' PROVE ReplayInv'
    BY <2>1 DEF cacheVars, ReplayInv, CacheCoherent, Mirrors, DuplicateDistance
  <2>2. ASSUME NEW r \in RequestId, Sign(r) PROVE ReplayInv'
    BY <2>1, <2>2 DEF Sign, ReplayInv, ReplayTypeOK, cacheVars
  <2>3. ASSUME NEW h \in Handlers, NEW r \in RequestId, CheckFresh(h, r) PROVE ReplayInv'
    BY <2>1, <2>3 DEF CheckFresh, ReplayInv, ReplayTypeOK, cacheVars
  <2>4. ASSUME NEW h \in Handlers, RefuseReplay(h) PROVE ReplayInv'
    BY <2>1, <2>4 DEF RefuseReplay, ReplayInv, ReplayTypeOK, cacheVars
  <2>5. ASSUME NEW h \in Handlers, Consume(h) PROVE ReplayInv'
    BY <2>5, ConsumeInv
  <2>6. CASE Tick
    BY <2>1, <2>6 DEF Tick, ReplayInv, ReplayTypeOK, cacheVars
  <2>7. CASE UNCHANGED vars
    BY <2>1, <2>7 DEF vars, ReplayInv, ReplayTypeOK, cacheVars
  <2> QED
    BY <2>2, <2>3, <2>4, <2>5, <2>6, <2>7 DEF Next
<1> QED
  BY <1>1, <1>2, PTL DEF Spec

(* For every cache size and every interleaving of handlers: the set that   *)
(* answers membership and the list that orders eviction name the same ids, *)
(* each once, and never more than MAX_REPLAY_IDS.                          *)
THEOREM CacheStaysCoherent == Spec => []CacheCoherent
<1>1. ReplayInv => CacheCoherent
  BY DEF ReplayInv
<1> QED
  BY <1>1, ReplayInvariant, PTL

(* For every cache size and every interleaving: the set and the list agree *)
(* and an id is accepted again only after MAX_REPLAY_IDS others.           *)
THEOREM ReplayProtection == Spec => [](CacheCoherent /\ DuplicateDistance)
<1>1. ReplayInv => CacheCoherent /\ DuplicateDistance
  BY DEF ReplayInv
<1> QED
  BY <1>1, ReplayInvariant, PTL
=============================================================================
