------------------------------ MODULE ReplayCache ------------------------------
(***************************************************************************)
(* Gateway.consume_request_id and ControlPlane.consume_control_request_id, *)
(* the same code twice: a set and a list of the request ids seen, the      *)
(* oldest forgotten beyond MAX_REPLAY_IDS.  The device signs a request id  *)
(* with a timestamp; the network may deliver the request again.  A handler *)
(* first tests that the timestamp is fresh and later, under the lock,      *)
(* consumes the id.  A request id stands for the pair (session, id).       *)
(***************************************************************************)
EXTENDS Integers, ReplayWindow

CONSTANTS RequestId, NoRequest, Handlers,
          MaxProofSkew,  \* 30 s in both planes
          MaxTime,       \* bound on the clock
          MaxAccepted    \* bound on the requests that are accepted

ASSUME ReplayAssumption ==
  /\ NoRequest \notin RequestId
  /\ MaxProofSkew \in Nat
  /\ MaxTime \in Nat
  /\ MaxAccepted \in Nat

VARIABLES clock,      \* time.time(), in units of the skew test
          signed,     \* timestamp the device put in a request, -1 before that
          checked,    \* the request a handler found fresh and has not consumed
          ids,        \* _replay_ids
          order,      \* _replay_order
          accepted    \* history: the ids consumed, in order

cacheVars == <<ids, order, accepted>>
vars == <<clock, signed, checked, cacheVars>>

ReplayTypeOK ==
  /\ clock \in Nat
  /\ signed \in [RequestId -> Int]
  /\ checked \in [Handlers -> RequestId \cup {NoRequest}]
  /\ ids \in SUBSET RequestId
  /\ order \in Seq(RequestId)
  /\ accepted \in Seq(RequestId)

Init ==
  /\ clock = 0
  /\ signed = [r \in RequestId |-> -1]
  /\ checked = [h \in Handlers |-> NoRequest]
  /\ ids = {}
  /\ order = <<>>
  /\ accepted = <<>>

(* The client draws a fresh id (uuid4) and signs it with the current time; *)
(* its clock may be ahead of the server's, also by more than is accepted.  *)
Sign(r) ==
  /\ signed[r] = -1
  /\ \E ts \in clock..(clock + MaxProofSkew + 1) : signed' = [signed EXCEPT ![r] = ts]
  /\ UNCHANGED <<clock, checked, cacheVars>>

(* A copy of a signed request reaches a handler, which finds it fresh; a   *)
(* stale one is refused and changes nothing.                               *)
CheckFresh(h, r) ==
  /\ checked[h] = NoRequest
  /\ signed[r] # -1
  /\ clock - signed[r] <= MaxProofSkew
  /\ signed[r] - clock <= MaxProofSkew
  /\ checked' = [checked EXCEPT ![h] = r]
  /\ UNCHANGED <<clock, signed, cacheVars>>

(* A known id: consume_request_id returns False.                           *)
RefuseReplay(h) ==
  /\ checked[h] \in ids
  /\ checked' = [checked EXCEPT ![h] = NoRequest]
  /\ UNCHANGED <<clock, signed, cacheVars>>

(* Mutant: the forgotten entry stays in the set.                           *)
ConsumeKeepsOld(h) ==
  LET key == checked[h]
  IN  /\ key # NoRequest
      /\ key \notin ids
      /\ Len(accepted) < MaxAccepted
      /\ order' = Remember(order, key)
      /\ ids' = ids \cup {key}
      /\ accepted' = Append(accepted, key)
      /\ checked' = [checked EXCEPT ![h] = NoRequest]
      /\ UNCHANGED <<clock, signed>>

(* Mutant: the list is trimmed when it is full, not when it is over-full.  *)
ConsumeTrimsEarly(h) ==
  LET key == checked[h]
      longer == Append(order, key)
      excess == IF Len(longer) >= MaxReplayIds THEN Len(longer) - MaxReplayIds + 1 ELSE 0
  IN  /\ key # NoRequest
      /\ key \notin ids
      /\ Len(accepted) < MaxAccepted
      /\ order' = SubSeq(longer, excess + 1, Len(longer))
      /\ ids' = (ids \cup {key}) \ {longer[i] : i \in 1..excess}
      /\ accepted' = Append(accepted, key)
      /\ checked' = [checked EXCEPT ![h] = NoRequest]
      /\ UNCHANGED <<clock, signed>>

(* A new id is added; the loop pops from the front until the list fits.    *)
Consume(h) ==
  LET key == checked[h]
  IN  /\ key # NoRequest
      /\ key \notin ids
      /\ Len(accepted) < MaxAccepted
      /\ order' = Remember(order, key)
      /\ ids' = (ids \cup {key}) \ Popped(Append(order, key))
      /\ accepted' = Append(accepted, key)
      /\ checked' = [checked EXCEPT ![h] = NoRequest]
      /\ UNCHANGED <<clock, signed>>

Tick ==
  /\ clock < MaxTime
  /\ clock' = clock + 1
  /\ UNCHANGED <<signed, checked, cacheVars>>

Next ==
  \/ \E r \in RequestId : Sign(r)
  \/ \E h \in Handlers, r \in RequestId : CheckFresh(h, r)
  \/ \E h \in Handlers : RefuseReplay(h) \/ Consume(h)
  \/ Tick

Spec == Init /\ [][Next]_vars

-----------------------------------------------------------------------------
(* The set and the list, updated by separate statements, always hold the   *)
(* same ids, each once, and never more than MAX_REPLAY_IDS of them.        *)
CacheCoherent ==
  /\ ids = Seen(order)
  /\ \A i, j \in 1..Len(order) : order[i] = order[j] => i = j
  /\ Len(order) <= MaxReplayIds

(* Between two acceptances of one id at least MAX_REPLAY_IDS others were   *)
(* accepted, whatever the duplicates and their order: the bound of the     *)
(* protection consume_request_id gives, with no off-by-one at the limit.   *)
DuplicateDistance ==
  \A i, j \in 1..Len(accepted) :
    i < j /\ accepted[i] = accepted[j] => j - i > MaxReplayIds

(* DESIGN.md:47 and README.md:30: a repeated request id is refused.        *)
AcceptedOnce ==
  \A i, j \in 1..Len(accepted) : accepted[i] = accepted[j] => i = j
=============================================================================
