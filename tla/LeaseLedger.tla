------------------------------ MODULE LeaseLedger ------------------------------
(***************************************************************************)
(* What SessionStore promises its callers, without locks, threads, clocks  *)
(* or a queue of addresses.  An address is reserved for an id, the id is   *)
(* activated with a stamp newer than every earlier one, it ends once, and  *)
(* its address then comes back.                                            *)
(***************************************************************************)
EXTENDS Naturals

CONSTANTS SessionId, NoId, PoolSize

VARIABLES holder,   \* address -> the id it is leased to, or NoId
          active,   \* the ids that get_active() may answer with
          stamp     \* lease generation of an id, 0 before it is activated

ledgerVars == <<holder, active, stamp>>

LedgerInit ==
  /\ holder = [h \in 1..PoolSize |-> NoId]
  /\ active = {}
  /\ stamp = [s \in SessionId |-> 0]

Holds(s) == \E h \in 1..PoolSize : holder[h] = s

Reserve(h, s) ==
  /\ holder[h] = NoId
  /\ stamp[s] = 0
  /\ ~Holds(s)
  /\ holder' = [holder EXCEPT ![h] = s]
  /\ UNCHANGED <<active, stamp>>

Activate(s) ==
  /\ stamp[s] = 0
  /\ Holds(s)
  /\ active' = active \cup {s}
  /\ stamp'[s] > 0
  /\ \A r \in SessionId \ {s} : stamp'[r] = stamp[r] /\ stamp[r] < stamp'[s]
  /\ UNCHANGED holder

End(S) ==
  /\ S # {}
  /\ S \subseteq active
  /\ active' = active \ S
  /\ UNCHANGED <<holder, stamp>>

GiveBack(h) ==
  /\ holder[h] # NoId
  /\ stamp[holder[h]] > 0
  /\ holder[h] \notin active
  /\ holder' = [holder EXCEPT ![h] = NoId]
  /\ UNCHANGED <<active, stamp>>

LedgerNext ==
  \/ \E h \in 1..PoolSize, s \in SessionId : Reserve(h, s)
  \/ \E s \in SessionId : Activate(s)
  \/ \E S \in SUBSET active : End(S)
  \/ \E h \in 1..PoolSize : GiveBack(h)

LedgerSpec == LedgerInit /\ [][LedgerNext]_ledgerVars
=============================================================================
