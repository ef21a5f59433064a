----------------------------- MODULE ReplayWindow -----------------------------
(***************************************************************************)
(* The bounded memory both planes keep of the request ids they have seen:  *)
(* a list in order of arrival (_replay_order, _control_replay_order), from *)
(* whose front the oldest ids are popped once there are more than          *)
(* MAX_REPLAY_IDS.                                                         *)
(***************************************************************************)
EXTENDS Naturals, Sequences

CONSTANT MaxReplayIds   \* MAX_REPLAY_IDS, MAX_CONTROL_REPLAY_IDS: 4096

ASSUME WindowAssumption == MaxReplayIds \in Nat \ {0}

Seen(order) == {order[i] : i \in 1..Len(order)}

(* How many ids the loop pops from a list with a new id at its end.        *)
Excess(order) == IF Len(order) > MaxReplayIds THEN Len(order) - MaxReplayIds ELSE 0
Popped(order) == {order[i] : i \in 1..Excess(order)}

Remember(order, key) ==
  LET longer == Append(order, key)
  IN  SubSeq(longer, Excess(longer) + 1, Len(longer))
=============================================================================
