------------------------------ MODULE StackProofs ------------------------------
(***************************************************************************)
(* The gateway's connections, for any number of connections, sessions and  *)
(* request ids and any limits, that of the replay cache too, alone (Spec)  *)
(* and inside the stack that starts and stops it (StackSpec).  None of the *)
(* gateway's invariants is inductive: each rests on what a handler knows   *)
(* at its place.                                                           *)
(***************************************************************************)
EXTENDS Stack, FiniteSetTheorems, TLAPS

Arriving == {"new", "backlog", "tls", "hello"}
Deciding == {"verify", "lookup", "prove", "consume"}
Serving == {"tcp", "upstream", "l3", "relay_check", "relay_recv"}

Ended(s) == s \in opened /\ s \notin active

(* What a connection's place says about it.                                *)
ConnOK(c) ==
  /\ pc[c] \in Deciding => hello[c] \in Hello /\ hello[c].grant.sid \in opened
  /\ pc[c] \in Serving => sid[c] \in opened
  /\ pc[c] \in Arriving \cup Deciding => \A k \in Sid \X RequestId : c \notin admitted[k]
  /\ pc[c] \in Arriving \cup {"prove", "consume"} => c \notin late
  /\ pc[c] \in {"verify", "lookup"} /\ c \in late => Ended(hello[c].grant.sid)
  /\ pc[c] = "relay_recv" => left[c] > 0
  /\ pc[c] = "relay_check" /\ overrun[c] # 0 => Ended(sid[c])
  /\ pc[c] \in Arriving \cup Deciding \cup (Serving \ {"relay_check"}) => overrun[c] = 0
  /\ overrun[c] <= 1

ConnsOK == \A c \in Conn : ConnOK(c)

GrantsOK == \A g \in grants : g.sid \in opened

(* Whatever admitted a connection is in the list or was forgotten by it.   *)
AdmissionsOK ==
  /\ \A k \in Sid \X RequestId : admitted[k] # {} => k \in Seen(replayOrder) \cup forgotten
  /\ \A k \in (Sid \X RequestId) \ forgotten : \A c, d \in admitted[k] : c = d
  /\ Len(replayOrder) <= MaxReplayIds
  /\ forgotten # {} => Len(replayOrder) = MaxReplayIds
  /\ NoAdmissionAfterEnd

Handlers == {c \in Conn : pc[c] \in Holding}
SlotsOK == IsFiniteSet(Handlers) /\ SlotAccounting

GatewayInv == GatewayTypeOK /\ ConnsOK /\ GrantsOK /\ AdmissionsOK /\ SlotsOK

-----------------------------------------------------------------------------
(* What Remember does to a list within its bounds: the new id is in, old   *)
(* ones go only when the list was full, and a full list stays full.        *)
LEMMA RememberFacts ==
  ASSUME NEW K, NEW order \in Seq(K), NEW key \in K, Len(order) <= MaxReplayIds
  PROVE  /\ Remember(order, key) \in Seq(K)
         /\ Len(Remember(order, key)) <= MaxReplayIds
         /\ key \in Seen(Remember(order, key))
         /\ Seen(Remember(order, key)) \subseteq Seen(order) \cup {key}
         /\ Len(order) = MaxReplayIds => Len(Remember(order, key)) = MaxReplayIds
         /\ Len(order) < MaxReplayIds => Seen(order) \subseteq Seen(Remember(order, key))
<1> DEFINE longer == Append(order, key)
           n == Len(order)
           x == Excess(longer)
           kept == Remember(order, key)
<1>1. /\ n \in Nat /\ MaxReplayIds \in Nat /\ MaxReplayIds >= 1
      /\ longer \in Seq(K) /\ Len(longer) = n + 1
      /\ \A i \in 1..n : longer[i] = order[i]
      /\ longer[n + 1] = key
  BY WindowAssumption
<1>2. x = IF n = MaxReplayIds THEN 1 ELSE 0
  BY <1>1 DEF Excess
<1>3. /\ kept \in Seq(K) /\ Len(kept) = n + 1 - x
      /\ \A i \in 1..(n + 1 - x) : kept[i] = longer[i + x]
  <2> HIDE DEF longer
  <2>1. kept = SubSeq(longer, x + 1, n + 1)
    BY <1>1 DEF Remember, longer
  <2>2. x \in {0, 1} /\ longer \in Seq(K) /\ Len(longer) = n + 1
    BY <1>1, <1>2
  <2> HIDE DEF x, kept
  <2>3. x + 1 \in 1..(n + 2) /\ n + 1 \in 1..Len(longer) /\ n + 1 - x \in Nat
    BY <1>1, <2>2
  <2>4. kept \in Seq(K) /\ Len(kept) = n + 1 - x
    BY <1>1, <2>1, <2>2, <2>3
  <2>5. ASSUME NEW i \in 1..(n + 1 - x) PROVE kept[i] = longer[i + x]
    BY <1>1, <2>1, <2>2, <2>3
  <2> QED
    BY <2>4, <2>5
<1> HIDE DEF longer, x, kept
<1>4. n + 1 - x \in 1..(n + 1 - x) /\ kept[n + 1 - x] = key
  BY <1>1, <1>2, <1>3
<1>5. key \in Seen(kept)
  BY <1>3, <1>4 DEF Seen
<1>6. \A i \in 1..(n + 1 - x) : kept[i] = key \/ \E j \in 1..n : kept[i] = order[j]
  <2> SUFFICES ASSUME NEW i \in 1..(n + 1 - x), kept[i] # key
               PROVE  \E j \in 1..n : kept[i] = order[j]
    OBVIOUS
  <2>1. i + x \in 1..n
    BY <1>1, <1>2, <1>3
  <2> QED
    BY <2>1, <1>1, <1>3
<1>7. Seen(kept) \subseteq Seen(order) \cup {key}
  BY <1>3, <1>6 DEF Seen
<1>8. n < MaxReplayIds => \A j \in 1..n : j \in 1..(n + 1 - x) /\ kept[j] = order[j]
  BY <1>1, <1>2, <1>3
<1>9. n < MaxReplayIds => Seen(order) \subseteq Seen(kept)
  BY <1>3, <1>8 DEF Seen
<1> QED
  BY <1>1, <1>2, <1>3, <1>5, <1>7, <1>9 DEF kept

-----------------------------------------------------------------------------
(* What one connection does leaves what the others know alone, as long as  *)
(* sessions only open anew and end.                                        *)
LEMMA OtherConns ==
  ASSUME ConnsOK, NEW c \in Conn, ConnOK(c)',
         opened \subseteq opened',
         \A s \in opened : s \in active' => s \in active,
         \A d \in Conn \ {c} :
           /\ pc'[d] = pc[d] /\ hello'[d] = hello[d] /\ sid'[d] = sid[d]
           /\ left'[d] = left[d] /\ overrun'[d] = overrun[d]
           /\ d \in late' <=> d \in late
           /\ \A k \in Sid \X RequestId : d \in admitted'[k] <=> d \in admitted[k]
  PROVE  ConnsOK'
<1> SUFFICES ASSUME NEW d \in Conn, d # c PROVE ConnOK(d)'
  BY DEF ConnsOK
<1>1. ConnOK(d)
  BY DEF ConnsOK
<1> QED
  BY <1>1 DEF ConnOK, Ended

(* A step from one place with a slot to another, or from one without.      *)
LEMMA SameHandlers ==
  ASSUME SlotsOK, pc \in [Conn -> Places], NEW c \in Conn, NEW place,
         pc' = [pc EXCEPT ![c] = place], slots' = slots,
         pc[c] \in Holding <=> place \in Holding
  PROVE  SlotsOK'
<1>1. Handlers' = Handlers
  BY DEF Handlers
<1> QED
  BY <1>1 DEF SlotsOK, SlotAccounting, Handlers

(* The steps that touch nothing but the connection's own place, message,   *)
(* timer and deliveries.                                                   *)
LEMMA OwnStep ==
  ASSUME GatewayInv, NEW c \in Conn, NEW place \in Places,
         pc' = [pc EXCEPT ![c] = place],
         pc[c] \in Holding <=> place \in Holding,
         hello' = hello \/ hello' = [hello EXCEPT ![c] = NoHello],
         NEW n \in 0..RelayRounds, left' = [left EXCEPT ![c] = n],
         NEW m \in 0..MaxRelay, relayed' = [relayed EXCEPT ![c] = m],
         NEW o \in {0, 1}, overrun' = [overrun EXCEPT ![c] = o],
         UNCHANGED <<accessVars, slots, sid, replayOrder, forgotten, admitted, late>>,
         ConnOK(c)'
  PROVE  GatewayInv'
<1>1. GatewayTypeOK'
  <2>1. /\ AccessTypeOK' /\ slots' \in 0..MaxConnections
        /\ replayOrder' \in Seq(Sid \X RequestId) /\ forgotten' \in SUBSET (Sid \X RequestId)
        /\ admitted' \in [Sid \X RequestId -> SUBSET Conn] /\ late' \in SUBSET Conn
        /\ sid' \in [Conn -> Sid \cup {NoSid}]
    BY DEF GatewayInv, GatewayTypeOK, AccessTypeOK, accessVars
  <2>2. /\ pc' \in [Conn -> Places] /\ hello' \in [Conn -> Hello \cup {NoHello}]
        /\ left' \in [Conn -> 0..RelayRounds] /\ relayed' \in [Conn -> 0..MaxRelay]
    BY DEF GatewayInv, GatewayTypeOK
  <2>3. overrun' \in [Conn -> 0..(MaxRelay + 1)]
    <3>1. o \in 0..(MaxRelay + 1)
      BY GatewayAssumption
    <3> QED
      BY <3>1 DEF GatewayInv, GatewayTypeOK
  <2> QED
    BY <2>1, <2>2, <2>3 DEF GatewayTypeOK
<1>2. \A d \in Conn \ {c} :
        /\ pc'[d] = pc[d] /\ hello'[d] = hello[d]
        /\ left'[d] = left[d] /\ overrun'[d] = overrun[d]
  BY DEF GatewayInv, GatewayTypeOK
<1>3. ConnsOK'
  BY <1>2, OtherConns DEF GatewayInv, accessVars
<1>4. GrantsOK' /\ AdmissionsOK'
  BY DEF GatewayInv, GrantsOK, AdmissionsOK, NoAdmissionAfterEnd, accessVars
<1>5. SlotsOK'
  BY SameHandlers DEF GatewayInv, GatewayTypeOK
<1> QED
  BY <1>1, <1>3, <1>4, <1>5 DEF GatewayInv

(* A move to a place that asks for no more than the old one gave.          *)
LEMMA MoveInv ==
  ASSUME GatewayInv, NEW c \in Conn, NEW from \in Places, NEW to \in Places,
         Move(c, from, to), from \in Holding <=> to \in Holding,
         ConnOK(c) => ConnOK(c)'
  PROVE  GatewayInv'
<1>1. /\ pc[c] = from /\ pc' = [pc EXCEPT ![c] = to]
      /\ UNCHANGED <<accessVars, slots, hello, sid, left, relayed, replayOrder, forgotten, admitted, late, overrun>>
  BY DEF Move, Goto
<1>2. ConnOK(c)
  BY DEF GatewayInv, ConnsOK
<1>3. /\ left' = [left EXCEPT ![c] = left[c]] /\ left[c] \in 0..RelayRounds
      /\ relayed' = [relayed EXCEPT ![c] = relayed[c]] /\ relayed[c] \in 0..MaxRelay
      /\ overrun' = [overrun EXCEPT ![c] = overrun[c]] /\ overrun[c] \in {0, 1}
  BY <1>1, <1>2, GatewayAssumption DEF GatewayInv, GatewayTypeOK, ConnOK
<1> QED
  BY <1>1, <1>2, <1>3, OwnStep

(* Places whose promises follow from those of the place before.            *)
LEMMA PlainMoves ==
  ASSUME GatewayInv, NEW c \in Conn, NEW from, NEW to, Move(c, from, to),
         \/ from = "new" /\ to = "backlog"
         \/ from = "backlog" /\ to = "tls"
         \/ from = "tls" /\ to = "closed"
         \/ from = "hello" /\ to = "closing"
         \/ from = "verify" /\ to = "lookup"
         \/ from = "prove" /\ to = "consume"
         \/ from = "tcp" /\ to \in {"upstream", "closing"}
         \/ from \in {"upstream", "relay_check", "relay_recv", "l3"} /\ to = "closing"
  PROVE  GatewayInv'
<1>1. from \in Places /\ to \in Places /\ (from \in Holding <=> to \in Holding)
  BY DEF Places, Holding
<1>2. pc[c] = from /\ pc'[c] = to
  BY DEF Move, Goto, GatewayInv, GatewayTypeOK
<1>3. ConnOK(c) => ConnOK(c)'
  BY <1>2 DEF Move, accessVars, ConnOK, Ended, Arriving, Deciding, Serving
<1> QED
  BY <1>1, <1>3, MoveInv

(* The session was looked up and is active: the connection is not late.    *)
LEMMA LookupSessionInv ==
  ASSUME GatewayInv, NEW c \in Conn, LookupSession(c)
  PROVE  GatewayInv'
<1>1. hello[c].grant.sid \in active /\ Move(c, "lookup", "prove")
  BY DEF LookupSession
<1>2. pc[c] = "lookup" /\ pc'[c] = "prove"
  BY <1>1 DEF Move, Goto, GatewayInv, GatewayTypeOK
<1>3. ConnOK(c) => ConnOK(c)'
  BY <1>1, <1>2 DEF Move, accessVars, ConnOK, Ended, Arriving, Deciding, Serving
<1> QED
  BY <1>1, <1>3, MoveInv DEF Places, Holding

(* The relay goes on: the session is active, so nothing was delivered late.*)
LEMMA RelayCheckInv ==
  ASSUME GatewayInv, NEW c \in Conn, RelayCheck(c)
  PROVE  GatewayInv'
<1>1. sid[c] \in active /\ left[c] > 0 /\ Move(c, "relay_check", "relay_recv")
  BY DEF RelayCheck
<1>2. pc[c] = "relay_check" /\ pc'[c] = "relay_recv"
  BY <1>1 DEF Move, Goto, GatewayInv, GatewayTypeOK
<1>3. ConnOK(c) => ConnOK(c)'
  BY <1>1, <1>2 DEF Move, accessVars, ConnOK, Ended, Arriving, Deciding, Serving
<1> QED
  BY <1>1, <1>3, MoveInv DEF Places, Holding

LEMMA RefuseInv ==
  ASSUME GatewayInv, NEW c \in Conn, pc[c] \in Deciding, Refuse(c)
  PROVE  GatewayInv'
<1>1. /\ pc' = [pc EXCEPT ![c] = "closing"] /\ hello' = [hello EXCEPT ![c] = NoHello]
      /\ UNCHANGED <<accessVars, slots, sid, left, relayed, replayOrder, forgotten, admitted, late, overrun>>
  BY DEF Refuse, Goto
<1>2. ConnOK(c) /\ pc'[c] = "closing"
  BY <1>1 DEF GatewayInv, GatewayTypeOK, ConnsOK
<1>3. /\ left' = [left EXCEPT ![c] = left[c]] /\ left[c] \in 0..RelayRounds
      /\ relayed' = [relayed EXCEPT ![c] = relayed[c]] /\ relayed[c] \in 0..MaxRelay
      /\ overrun' = [overrun EXCEPT ![c] = overrun[c]] /\ overrun[c] \in {0, 1}
  BY <1>1, <1>2 DEF GatewayInv, GatewayTypeOK, ConnOK
<1>4. ConnOK(c)'
  BY <1>1, <1>2 DEF ConnOK, Arriving, Deciding, Serving
<1> QED
  BY <1>1, <1>3, <1>4, OwnStep DEF Deciding, Places, Holding

(* A delivery, from a place before which there was none too late.          *)
LEMMA DeliverInv ==
  ASSUME GatewayInv, NEW c \in Conn, NEW to \in {"relay_check", "closing"},
         pc[c] \in {"upstream", "relay_recv", "l3"},
         pc' = [pc EXCEPT ![c] = to], Deliver(c),
         NEW n \in 0..RelayRounds, left' = [left EXCEPT ![c] = n],
         NEW m \in 0..MaxRelay, relayed' = [relayed EXCEPT ![c] = m],
         UNCHANGED <<accessVars, slots, hello, sid, replayOrder, forgotten, admitted, late>>
  PROVE  GatewayInv'
<1>1. ConnOK(c) /\ pc'[c] = to /\ left'[c] = n
  BY DEF GatewayInv, GatewayTypeOK, ConnsOK
<1>2. overrun[c] = 0 /\ sid[c] \in opened
  BY <1>1 DEF ConnOK, Serving
<1> DEFINE o == IF sid[c] \in active THEN 0 ELSE 1
<1>3. overrun' = [overrun EXCEPT ![c] = o] /\ o \in {0, 1} /\ overrun'[c] = o
  <2>1. overrun \in [Conn -> 0..(MaxRelay + 1)]
    BY DEF GatewayInv, GatewayTypeOK
  <2>2. CASE sid[c] \in active
    BY <1>2, <2>1, <2>2 DEF Deliver
  <2>3. CASE sid[c] \notin active
    BY <1>2, <2>1, <2>3 DEF Deliver
  <2> QED
    BY <2>2, <2>3
<1>4. ConnOK(c)'
  BY <1>1, <1>2, <1>3 DEF ConnOK, Ended, Arriving, Deciding, Serving, accessVars
<1> HIDE DEF o
<1> QED
  BY <1>3, <1>4, OwnStep DEF Places, Holding

LEMMA RelayTimeoutInv ==
  ASSUME GatewayInv, NEW c \in Conn, RelayTimeout(c)
  PROVE  GatewayInv'
<1>1. /\ pc[c] = "relay_recv" /\ pc' = [pc EXCEPT ![c] = "relay_check"]
      /\ left' = [left EXCEPT ![c] = left[c] - 1]
      /\ UNCHANGED <<accessVars, slots, hello, sid, relayed, replayOrder, forgotten, admitted, late, overrun>>
  BY DEF RelayTimeout, Goto
<1>2. ConnOK(c) /\ pc'[c] = "relay_check"
  BY <1>1 DEF GatewayInv, GatewayTypeOK, ConnsOK
<1>3. /\ left[c] - 1 \in 0..RelayRounds
      /\ relayed' = [relayed EXCEPT ![c] = relayed[c]] /\ relayed[c] \in 0..MaxRelay
      /\ overrun' = [overrun EXCEPT ![c] = overrun[c]] /\ overrun[c] = 0
  BY <1>1, <1>2, GatewayAssumption DEF GatewayInv, GatewayTypeOK, ConnOK, Serving
<1>4. ConnOK(c)'
  BY <1>1, <1>2, <1>3 DEF ConnOK, Ended, Arriving, Deciding, Serving, accessVars
<1> QED
  BY <1>1, <1>3, <1>4, OwnStep DEF Places, Holding

LEMMA RelayChunkInv ==
  ASSUME GatewayInv, NEW c \in Conn, RelayChunk(c)
  PROVE  GatewayInv'
<1>1. PICK delay \in {0, 1} : left' = [left EXCEPT ![c] = left[c] - delay]
  BY DEF RelayChunk
<1>2. ConnOK(c)
  BY DEF GatewayInv, ConnsOK
<1>3. left[c] - delay \in 0..RelayRounds /\ relayed[c] + 1 \in 0..MaxRelay
  BY <1>2, GatewayAssumption DEF RelayChunk, GatewayInv, GatewayTypeOK, ConnOK
<1> QED
  BY <1>1, <1>3, DeliverInv DEF RelayChunk, Goto

LEMMA DialUpstreamInv ==
  ASSUME GatewayInv, NEW c \in Conn, DialUpstream(c)
  PROVE  GatewayInv'
<1>1. /\ RelayRounds \in 0..RelayRounds
      /\ relayed' = [relayed EXCEPT ![c] = relayed[c]] /\ relayed[c] \in 0..MaxRelay
  BY GatewayAssumption DEF DialUpstream, GatewayInv, GatewayTypeOK
<1> QED
  BY <1>1, DeliverInv DEF DialUpstream, Goto

LEMMA AcknowledgePacketInv ==
  ASSUME GatewayInv, NEW c \in Conn, AcknowledgePacket(c)
  PROVE  GatewayInv'
<1>1. /\ left' = [left EXCEPT ![c] = left[c]] /\ left[c] \in 0..RelayRounds
      /\ relayed' = [relayed EXCEPT ![c] = relayed[c]] /\ relayed[c] \in 0..MaxRelay
  BY DEF AcknowledgePacket, GatewayInv, GatewayTypeOK
<1> QED
  BY <1>1, DeliverInv DEF AcknowledgePacket, Goto

-----------------------------------------------------------------------------
(* A slot is taken by a connection that had none.                          *)
LEMMA TakeSlotInv ==
  ASSUME GatewayInv, NEW c \in Conn, TakeSlot(c)
  PROVE  GatewayInv'
<1>1. /\ pc[c] = "tls" /\ pc' = [pc EXCEPT ![c] = "hello"]
      /\ slots > 0 /\ slots' = slots - 1
      /\ UNCHANGED <<accessVars, hello, sid, left, relayed, replayOrder, forgotten, admitted, late, overrun>>
  BY DEF TakeSlot, Goto
<1>2. ConnOK(c) /\ pc \in [Conn -> Places] /\ pc'[c] = "hello"
  BY <1>1 DEF GatewayInv, GatewayTypeOK, ConnsOK
<1>3. GatewayTypeOK'
  BY <1>1, GatewayAssumption DEF GatewayInv, GatewayTypeOK, AccessTypeOK, accessVars, Places, Holding
<1>4. ConnOK(c)'
  BY <1>1, <1>2 DEF ConnOK, Ended, Arriving, Deciding, Serving, accessVars
<1>5. ConnsOK'
  BY <1>1, <1>2, <1>4, OtherConns DEF GatewayInv, accessVars
<1>6. GrantsOK' /\ AdmissionsOK'
  BY <1>1 DEF GatewayInv, GrantsOK, AdmissionsOK, NoAdmissionAfterEnd, accessVars
<1>7. SlotsOK'
  <2>1. Handlers' = Handlers \cup {c} /\ c \notin Handlers
    BY <1>1, <1>2 DEF Handlers, Holding
  <2>2. IsFiniteSet(Handlers') /\ Cardinality(Handlers') = Cardinality(Handlers) + 1
    BY <2>1, FS_AddElement DEF GatewayInv, SlotsOK
  <2>3. Cardinality(Handlers) \in Nat
    BY FS_CardinalityType DEF GatewayInv, SlotsOK
  <2> QED
    BY <1>1, <2>2, <2>3, GatewayAssumption
    DEF GatewayInv, GatewayTypeOK, SlotsOK, SlotAccounting, Handlers
<1> QED
  BY <1>3, <1>5, <1>6, <1>7 DEF GatewayInv

(* The finally clause gives back the slot of the one connection that is    *)
(* closing.                                                                *)
LEMMA ReleaseSlotInv ==
  ASSUME GatewayInv, NEW c \in Conn, ReleaseSlot(c)
  PROVE  GatewayInv'
<1>1. /\ pc[c] = "closing" /\ pc' = [pc EXCEPT ![c] = "closed"]
      /\ slots' = slots + 1 /\ sid' = [sid EXCEPT ![c] = NoSid]
      /\ left' = [left EXCEPT ![c] = 0] /\ relayed' = [relayed EXCEPT ![c] = 0]
      /\ UNCHANGED <<accessVars, hello, replayOrder, forgotten, admitted, late, overrun>>
  BY DEF ReleaseSlot, ForgetLocals, Goto
<1>2. /\ ConnOK(c) /\ pc \in [Conn -> Places] /\ sid \in [Conn -> Sid \cup {NoSid}]
      /\ left \in [Conn -> 0..RelayRounds] /\ pc'[c] = "closed"
  BY <1>1 DEF GatewayInv, GatewayTypeOK, ConnsOK
<1>3. ConnOK(c)'
  BY <1>1, <1>2 DEF ConnOK, Arriving, Deciding, Serving, accessVars
<1>4. ConnsOK'
  BY <1>1, <1>2, <1>3, OtherConns DEF GatewayInv, accessVars
<1>5. GrantsOK' /\ AdmissionsOK'
  BY <1>1 DEF GatewayInv, GrantsOK, AdmissionsOK, NoAdmissionAfterEnd, accessVars
<1>6. SlotsOK' /\ slots' \in 0..MaxConnections
  <2>1. Handlers' = Handlers \ {c} /\ c \in Handlers
    BY <1>1, <1>2 DEF Handlers, Holding
  <2>2. IsFiniteSet(Handlers') /\ Cardinality(Handlers') = Cardinality(Handlers) - 1
    BY <2>1, FS_RemoveElement DEF GatewayInv, SlotsOK
  <2>3. Cardinality(Handlers) \in Nat /\ Cardinality(Handlers') \in Nat
    BY <2>2, FS_CardinalityType DEF GatewayInv, SlotsOK
  <2> QED
    BY <1>1, <2>2, <2>3, GatewayAssumption
    DEF GatewayInv, GatewayTypeOK, SlotsOK, SlotAccounting, Handlers
<1>7. GatewayTypeOK'
  BY <1>1, <1>6, GatewayAssumption DEF GatewayInv, GatewayTypeOK, AccessTypeOK, accessVars, Places, Holding
<1> QED
  BY <1>4, <1>5, <1>6, <1>7 DEF GatewayInv

(* A handshake arrives: if its session is not active it has ended, because *)
(* grants are signed for sessions that were opened.                        *)
LEMMA ReadHelloInv ==
  ASSUME GatewayInv, NEW c \in Conn, NEW h \in Hello, ReadHello(c, h)
  PROVE  GatewayInv'
<1>1. /\ pc[c] = "hello" /\ pc' = [pc EXCEPT ![c] = "verify"]
      /\ h.grant \in grants
      /\ hello' = [hello EXCEPT ![c] = h]
      /\ late' = IF h.grant.sid \in active THEN late ELSE late \cup {c}
      /\ UNCHANGED <<accessVars, slots, sid, left, relayed, replayOrder, forgotten, admitted, overrun>>
  BY DEF ReadHello, Goto
<1>2. ConnOK(c) /\ h.grant.sid \in opened
  BY <1>1 DEF GatewayInv, ConnsOK, GrantsOK
<1>3. GatewayTypeOK'
  BY <1>1 DEF GatewayInv, GatewayTypeOK, AccessTypeOK, accessVars, Places, Holding
<1>4. \A d \in Conn : /\ pc'[d] = IF d = c THEN "verify" ELSE pc[d]
                      /\ hello'[d] = IF d = c THEN h ELSE hello[d]
  BY <1>1 DEF GatewayInv, GatewayTypeOK
<1>5. ConnOK(c)'
  BY <1>1, <1>2, <1>4 DEF ConnOK, Ended, Arriving, Deciding, Serving, accessVars
<1>6. ConnsOK'
  BY <1>1, <1>4, <1>5, OtherConns DEF GatewayInv, accessVars
<1>7. GrantsOK'
  BY <1>1 DEF GatewayInv, GrantsOK, accessVars
<1>8. AdmissionsOK'
  BY <1>1, <1>2 DEF GatewayInv, AdmissionsOK, NoAdmissionAfterEnd, ConnOK, Arriving
<1>9. SlotsOK'
  BY <1>1, SameHandlers DEF GatewayInv, GatewayTypeOK, Holding
<1> QED
  BY <1>3, <1>6, <1>7, <1>8, <1>9 DEF GatewayInv

(* The lock of consume_request_id: a new id that is not forgotten admitted *)
(* nothing before, and only a full list forgets.                           *)
LEMMA ConsumeFacts ==
  ASSUME GatewayInv, NEW c \in Conn, Consume(c), Key(c) \in Sid \X RequestId
  PROVE  /\ replayOrder' \in Seq(Sid \X RequestId)
         /\ forgotten' \in SUBSET (Sid \X RequestId)
         /\ Len(replayOrder') <= MaxReplayIds
         /\ forgotten' # {} => Len(replayOrder') = MaxReplayIds
         /\ forgotten \subseteq forgotten'
         /\ Key(c) \in Seen(replayOrder')
         /\ Seen(replayOrder) \cup forgotten \subseteq Seen(replayOrder') \cup forgotten'
         /\ Key(c) \notin forgotten => admitted[Key(c)] = {}
<1> DEFINE key == Key(c)
<1>1. /\ key \notin Seen(replayOrder)
      /\ replayOrder' = Remember(replayOrder, key)
      /\ forgotten' = forgotten \cup (Seen(replayOrder) \ Seen(replayOrder'))
      /\ replayOrder \in Seq(Sid \X RequestId) /\ forgotten \in SUBSET (Sid \X RequestId)
      /\ Len(replayOrder) <= MaxReplayIds
      /\ forgotten # {} => Len(replayOrder) = MaxReplayIds
      /\ admitted[key] # {} => key \in Seen(replayOrder) \cup forgotten
  BY DEF Consume, GatewayInv, GatewayTypeOK, AdmissionsOK
<1> HIDE DEF key
<1>2. /\ replayOrder' \in Seq(Sid \X RequestId)
      /\ Len(replayOrder') <= MaxReplayIds
      /\ key \in Seen(replayOrder')
      /\ Len(replayOrder) = MaxReplayIds => Len(replayOrder') = MaxReplayIds
      /\ Len(replayOrder) < MaxReplayIds => Seen(replayOrder) \subseteq Seen(replayOrder')
  BY <1>1, RememberFacts DEF key
<1>3. Seen(replayOrder) \subseteq Sid \X RequestId
  BY <1>1 DEF Seen
<1>4. Len(replayOrder) = MaxReplayIds \/ Len(replayOrder) < MaxReplayIds
  BY <1>1, WindowAssumption
<1> QED
  BY <1>1, <1>2, <1>3, <1>4 DEF key

(* The policy's refusal: the id is consumed and admits nothing.            *)
LEMMA RefusePolicyInv ==
  ASSUME GatewayInv, NEW c \in Conn, RefusePolicy(c)
  PROVE  GatewayInv'
<1>1. /\ pc[c] = "consume" /\ pc' = [pc EXCEPT ![c] = "closing"]
      /\ hello' = [hello EXCEPT ![c] = NoHello]
      /\ Consume(c)
      /\ UNCHANGED <<accessVars, slots, sid, left, relayed, admitted, late, overrun>>
  BY DEF RefusePolicy, Goto
<1>2. ConnOK(c)
  BY DEF GatewayInv, ConnsOK
<1>3. Key(c) \in Sid \X RequestId
  BY <1>1, <1>2 DEF ConnOK, Deciding, Hello, Grant, Key
<1>4. GatewayTypeOK'
  BY <1>1, <1>3, ConsumeFacts DEF GatewayInv, GatewayTypeOK, AccessTypeOK, accessVars, Places, Holding
<1>5. \A d \in Conn : /\ pc'[d] = IF d = c THEN "closing" ELSE pc[d]
                      /\ d # c => hello'[d] = hello[d]
  BY <1>1 DEF GatewayInv, GatewayTypeOK
<1>6. ConnOK(c)'
  BY <1>1, <1>2, <1>5 DEF ConnOK, Arriving, Deciding, Serving
<1>7. ConnsOK'
  BY <1>1, <1>5, <1>6, OtherConns DEF GatewayInv, accessVars
<1>8. GrantsOK' /\ AdmissionsOK'
  BY <1>1, <1>3, ConsumeFacts DEF GatewayInv, GrantsOK, AdmissionsOK, NoAdmissionAfterEnd, accessVars
<1>9. SlotsOK'
  BY <1>1, SameHandlers DEF GatewayInv, GatewayTypeOK, Holding
<1> QED
  BY <1>4, <1>7, <1>8, <1>9 DEF GatewayInv

(* Whoever passes consume_request_id has an id the cache knows to himself. *)
LEMMA AdmitInv ==
  ASSUME GatewayInv, NEW c \in Conn, Admit(c)
  PROVE  GatewayInv'
<1> DEFINE key == Key(c)
           mode == hello[c].mode
           session == hello[c].grant.sid
<1>1. /\ pc[c] = "consume" /\ pc' = [pc EXCEPT ![c] = mode]
      /\ Consume(c)
      /\ admitted' = [admitted EXCEPT ![key] = @ \cup {c}]
      /\ sid' = [sid EXCEPT ![c] = session]
      /\ hello' = [hello EXCEPT ![c] = NoHello]
      /\ UNCHANGED <<accessVars, slots, left, relayed, late, overrun>>
  BY DEF Admit, Goto
<1>2. ConnOK(c)
  BY DEF GatewayInv, ConnsOK
<1>3. /\ key \in Sid \X RequestId /\ mode \in {"tcp", "l3"}
      /\ session \in Sid /\ session \in opened
  BY <1>1, <1>2 DEF ConnOK, Deciding, Hello, Grant, Key
<1>4. /\ replayOrder' \in Seq(Sid \X RequestId)
      /\ forgotten' \in SUBSET (Sid \X RequestId)
      /\ Len(replayOrder') <= MaxReplayIds
      /\ forgotten' # {} => Len(replayOrder') = MaxReplayIds
      /\ forgotten \subseteq forgotten'
      /\ key \in Seen(replayOrder')
      /\ Seen(replayOrder) \cup forgotten \subseteq Seen(replayOrder') \cup forgotten'
      /\ key \notin forgotten => admitted[key] = {}
  BY <1>1, <1>3, ConsumeFacts
<1> HIDE DEF key, mode, session
<1>5. GatewayTypeOK'
  BY <1>1, <1>3, <1>4 DEF GatewayInv, GatewayTypeOK, AccessTypeOK, accessVars, Places, Holding
<1>6. \A d \in Conn : /\ pc'[d] = IF d = c THEN mode ELSE pc[d]
                      /\ sid'[d] = IF d = c THEN session ELSE sid[d]
                      /\ d # c => hello'[d] = hello[d]
  BY <1>1 DEF GatewayInv, GatewayTypeOK
<1>7. \A k \in Sid \X RequestId :
        admitted'[k] = IF k = key THEN admitted[key] \cup {c} ELSE admitted[k]
  BY <1>1, <1>3 DEF GatewayInv, GatewayTypeOK
<1>8. ConnOK(c)'
  BY <1>1, <1>2, <1>3, <1>6 DEF ConnOK, Ended, Arriving, Deciding, Serving, accessVars
<1>9. \A d \in Conn \ {c}, k \in Sid \X RequestId : d \in admitted'[k] <=> d \in admitted[k]
  BY <1>1, <1>3, <1>7 DEF GatewayInv, AdmissionsOK
<1>10. ConnsOK'
  BY <1>1, <1>6, <1>8, <1>9, OtherConns DEF GatewayInv, accessVars
<1>11. GrantsOK'
  BY <1>1 DEF GatewayInv, GrantsOK, accessVars
<1>12. AdmissionsOK'
  <2>1. c \notin late
    BY <1>1, <1>2 DEF ConnOK
  <2>2. /\ \A k \in Sid \X RequestId : admitted'[k] # {} => k \in Seen(replayOrder') \cup forgotten'
        /\ \A k \in (Sid \X RequestId) \ forgotten' : \A d, e \in admitted'[k] : d = e
    BY <1>7, <1>4 DEF GatewayInv, AdmissionsOK
  <2>3. NoAdmissionAfterEnd'
    BY <1>1, <1>7, <2>1 DEF GatewayInv, AdmissionsOK, NoAdmissionAfterEnd
  <2> QED
    BY <1>4, <2>2, <2>3 DEF AdmissionsOK
<1>13. SlotsOK'
  BY <1>1, <1>3, SameHandlers DEF GatewayInv, GatewayTypeOK, Holding
<1> QED
  BY <1>5, <1>10, <1>11, <1>12, <1>13 DEF GatewayInv

-----------------------------------------------------------------------------
(* What the control plane does under the handlers' feet: sessions open     *)
(* anew and end, grants are signed for sessions that were opened.          *)
LEMMA AccessInv ==
  ASSUME GatewayInv, [AccessNext]_accessVars, UNCHANGED gatewayVars
  PROVE  GatewayInv'
<1> DEFINE Kept == /\ AccessTypeOK' /\ opened \subseteq opened'
                   /\ \A s \in opened : s \in active' => s \in active
                   /\ GrantsOK'
<1>1. Kept
  <2>1. AccessTypeOK /\ GrantsOK
    BY DEF GatewayInv, GatewayTypeOK
  <2>2. CASE Advance
    BY <2>1, <2>2 DEF Advance, AccessTypeOK, GrantsOK
  <2>3. ASSUME NEW s \in Sid, Open(s) PROVE Kept
    BY <2>1, <2>3 DEF Open, AccessTypeOK, GrantsOK
  <2>4. ASSUME NEW s \in Sid, End(s) PROVE Kept
    BY <2>1, <2>4 DEF End, AccessTypeOK, GrantsOK
  <2>5. ASSUME NEW s \in Sid, Issue(s) PROVE Kept
    <3>1. [sid |-> s, exp |-> clock + GrantTtl] \in Grant
      BY <2>1, AccessAssumption DEF AccessTypeOK, Grant
    <3> QED
      BY <2>1, <2>5, <3>1 DEF Issue, AccessTypeOK, GrantsOK
  <2>6. CASE UNCHANGED accessVars
    BY <2>1, <2>6 DEF accessVars, AccessTypeOK, GrantsOK
  <2> QED
    BY <2>2, <2>3, <2>4, <2>5, <2>6 DEF AccessNext
<1>2. GatewayTypeOK'
  BY <1>1 DEF GatewayInv, GatewayTypeOK, gatewayVars
<1>3. ConnsOK'
  BY <1>1 DEF GatewayInv, ConnsOK, ConnOK, Ended, gatewayVars
<1>4. AdmissionsOK' /\ SlotsOK'
  BY DEF GatewayInv, AdmissionsOK, NoAdmissionAfterEnd, SlotsOK, SlotAccounting, Handlers, gatewayVars
<1> QED
  BY <1>1, <1>2, <1>3, <1>4 DEF GatewayInv

LEMMA ConnectionInv ==
  ASSUME GatewayInv, NEW c \in Conn, Connect(c) \/ Accept(c) \/ Handle(c)
  PROVE  GatewayInv'
<1>1. CASE Connect(c) \/ AcceptRaw(c) \/ TlsFailed(c) \/ NoSlot(c) \/ SpawnFailed(c)
  BY <1>1, PlainMoves DEF Connect, AcceptRaw, TlsFailed, NoSlot, SpawnFailed
<1>2. CASE HelloFailed(c) \/ VerifyToken(c) \/ VerifyProof(c)
  BY <1>2, PlainMoves DEF HelloFailed, VerifyToken, VerifyProof
<1>3. CASE CollectRequest(c) \/ CollectFailed(c) \/ DialFailed(c) \/ RefusePacket(c)
  BY <1>3, PlainMoves DEF CollectRequest, CollectFailed, DialFailed, RefusePacket
<1>4. CASE RelayDeadline(c) \/ RelayEnded(c) \/ RelayOverLimit(c) \/ RelayFinished(c)
  BY <1>4, PlainMoves DEF RelayDeadline, RelayEnded, RelayOverLimit, RelayFinished
<1>5. CASE RefuseToken(c) \/ RefuseSession(c) \/ RefuseProof(c) \/ RefuseReplay(c)
  BY <1>5, RefuseInv DEF RefuseToken, RefuseSession, RefuseProof, RefuseReplay, Deciding
<1>6. CASE LookupSession(c) \/ RefusePolicy(c) \/ Admit(c)
  BY <1>6, LookupSessionInv, RefusePolicyInv, AdmitInv
<1>7. CASE DialUpstream(c) \/ RelayCheck(c) \/ RelayTimeout(c) \/ RelayChunk(c) \/ AcknowledgePacket(c)
  BY <1>7, DialUpstreamInv, RelayCheckInv, RelayTimeoutInv, RelayChunkInv, AcknowledgePacketInv
<1>8. CASE TakeSlot(c) \/ ReleaseSlot(c)
  BY <1>8, TakeSlotInv, ReleaseSlotInv
<1> QED
  BY <1>1, <1>2, <1>3, <1>4, <1>5, <1>6, <1>7, <1>8 DEF Accept, Handle

(* A message the environment can send is a handshake.                      *)
LEMMA HelloInv ==
  ASSUME GatewayInv, NEW c \in Conn, NEW g \in grants, NEW r \in RequestId,
         NEW ts \in Timestamps, NEW m \in {"tcp", "l3"}, NEW f \in Flaws,
         ReadHello(c, [grant |-> g, rid |-> r, timestamp |-> ts, mode |-> m, flaw |-> f])
  PROVE  GatewayInv'
<1>1. g \in Grant /\ ts \in Nat
  BY GatewayAssumption DEF Timestamps, GatewayInv, GatewayTypeOK, AccessTypeOK
<1>2. [grant |-> g, rid |-> r, timestamp |-> ts, mode |-> m, flaw |-> f] \in Hello
  BY <1>1 DEF Hello
<1> QED
  BY <1>2, ReadHelloInv

LEMMA GatewayInitInv == Init => GatewayInv
<1> SUFFICES ASSUME Init PROVE GatewayInv
  OBVIOUS
<1>1. GatewayTypeOK
  BY GatewayAssumption DEF Init, AccessInit, GatewayTypeOK, AccessTypeOK, Places
<1>2. ConnsOK /\ GrantsOK /\ AdmissionsOK
  <2>1. ConnsOK /\ GrantsOK
    BY DEF Init, AccessInit, ConnsOK, ConnOK, GrantsOK, Arriving, Deciding, Serving
  <2>2. Len(replayOrder) = 0 /\ forgotten = {} /\ \A k \in Sid \X RequestId : admitted[k] = {}
    BY DEF Init
  <2>3. AdmissionsOK
    BY <2>2, WindowAssumption DEF AdmissionsOK, NoAdmissionAfterEnd
  <2> QED
    BY <2>1, <2>3
<1>3. Handlers = {}
  BY DEF Init, Handlers, Holding
<1>4. SlotsOK
  <2>1. IsFiniteSet(Handlers) /\ Cardinality(Handlers) = 0
    BY <1>3, FS_EmptySet
  <2>2. slots = MaxConnections /\ MaxConnections \in Nat
    BY GatewayAssumption DEF Init
  <2> QED
    BY <2>1, <2>2 DEF SlotsOK, SlotAccounting, Handlers
<1> QED
  BY <1>1, <1>2, <1>4 DEF GatewayInv

LEMMA GatewayNextInv == GatewayInv /\ [Next]_vars => GatewayInv'
<1> SUFFICES ASSUME GatewayInv, [Next]_vars PROVE GatewayInv'
  OBVIOUS
<1>1. CASE AccessNext /\ UNCHANGED gatewayVars
  BY <1>1, AccessInv
<1>2. CASE UNCHANGED vars
  BY <1>2, AccessInv DEF vars
<1> QED
  BY <1>1, <1>2, ConnectionInv, HelloInv DEF Next

LEMMA GatewayInvariant == Spec => []GatewayInv
  BY GatewayInitInv, GatewayNextInv, PTL DEF Spec

(* A set without two different elements counts one at most.                *)
LEMMA AtMostOne ==
  ASSUME NEW S, \A x, y \in S : x = y
  PROVE  Cardinality(S) <= 1
<1>1. CASE S = {}
  BY <1>1, FS_EmptySet
<1>2. ASSUME NEW x \in S PROVE Cardinality(S) <= 1
  <2>1. S = {x}
    OBVIOUS
  <2> QED
    BY <2>1, FS_Singleton
<1> QED
  BY <1>1, <1>2

(* The gateway's promises, in one place: what follows holds of the gateway *)
(* alone and of the gateway in the stack.                                  *)
LEMMA GatewayPromises ==
  GatewayInv => SlotAccounting /\ AdmittedOnce /\ NoAdmissionAfterEnd /\ OneDeliveryAfterEnd
<1> SUFFICES ASSUME GatewayInv
             PROVE  SlotAccounting /\ AdmittedOnce /\ NoAdmissionAfterEnd /\ OneDeliveryAfterEnd
  OBVIOUS
<1>1. SlotAccounting /\ NoAdmissionAfterEnd
  BY DEF GatewayInv, SlotsOK, AdmissionsOK
<1>2. AdmittedOnce
  BY AtMostOne DEF GatewayInv, AdmissionsOK, AdmittedOnce
<1>3. OneDeliveryAfterEnd
  BY DEF GatewayInv, ConnsOK, ConnOK, OneDeliveryAfterEnd
<1> QED
  BY <1>1, <1>2, <1>3

(* process_request(), a failed thread start and the finally clause of the  *)
(* handler thread account for every slot of the semaphore.                 *)
THEOREM SlotsAccountedFor == Spec => []SlotAccounting
  BY GatewayPromises, GatewayInvariant, PTL

(* consume_request_id() admits one connection per request id of a session  *)
(* until it forgets the id, and forgets none before it is full.            *)
THEOREM RequestsAdmittedOnce == Spec => []AdmittedOnce
  BY GatewayPromises, GatewayInvariant, PTL

(* A handshake read after its session ended never passes get_active().     *)
THEOREM EndedSessionsStayOut == Spec => []NoAdmissionAfterEnd
  BY GatewayPromises, GatewayInvariant, PTL

(* The check at the head of the relay loop: one delivery at most is made   *)
(* for a session after it has ended.                                       *)
THEOREM RelayStopsAfterEnd == Spec => []OneDeliveryAfterEnd
  BY GatewayPromises, GatewayInvariant, PTL

-----------------------------------------------------------------------------
(* How far start() or stop() is, and what the servers are then: the        *)
(* gateway's accept loop, and no other thread, is inside a handshake, and  *)
(* stop() goes past a server when there is none or it is closed.           *)
Gone == {"absent", "closed"}
LifeOK ==
  /\ main \in {"resource", "registry", "gateway"} => server["gateway"] = "absent"
  /\ server["gateway"] # "orphan" /\ server["resource"] # "orphan"
  /\ main \in {"stop_gateway", "stop_resource", "cleanup", "stopped"} =>
       server["control"] \in Gone \cup {"orphan"}
  /\ main \in {"stop_resource", "cleanup", "stopped"} => server["gateway"] \in Gone
  /\ main \in {"cleanup", "stopped"} => server["resource"] \in Gone
  /\ server["gateway"] \notin {"serving", "stopping"} => \A c \in Conn : pc[c] # "tls"
  /\ server["gateway"] \in Gone => \A c \in Conn : pc[c] # "backlog"

LifeTypeOK ==
  /\ main \in StartSteps \cup {"running"} \cup StopSteps \cup {"stopped"}
  /\ server \in [Server -> ServerStates]
  /\ door \in {"idle", "client", "silent"}

StackInv == GatewayInv /\ LifeTypeOK /\ LifeOK

LEMMA GatewayUntouched ==
  ASSUME GatewayInv, UNCHANGED vars
  PROVE  GatewayInv'
BY AccessInv DEF vars

(* The steps of the calling thread and of the loops that leave the         *)
(* gateway's connections alone.                                            *)
LEMMA StartInv ==
  ASSUME StackInv, Start
  PROVE  StackInv'
<1>1. UNCHANGED vars /\ pc' = pc
  BY DEF Start, StartResource, MakeRegistry, MakeGateway, StartGateway, MakeControl, StartControl,
         StartFails, StartStep, vars, gatewayVars
<1>2. GatewayInv'
  BY <1>1, GatewayUntouched DEF StackInv
<1>3. CASE StartFails
  <2>1. LifeTypeOK'
    BY <1>3 DEF StackInv, StartFails, LifeTypeOK, StopSteps, ServerStates, Server
  <2>2. LifeOK'
    BY <1>1, <1>3 DEF StackInv, StartFails, StartSteps, LifeTypeOK, LifeOK, Gone, Server
  <2> QED
    BY <1>2, <2>1, <2>2 DEF StackInv
<1>4. CASE ~StartFails
  <2>1. LifeTypeOK'
    BY <1>4 DEF StackInv, Start, StartResource, MakeRegistry, MakeGateway, StartGateway,
       MakeControl, StartControl, StartStep, LifeTypeOK, StartSteps, ServerStates, Server
  <2>2. LifeOK'
    BY <1>1, <1>4 DEF StackInv, Start, StartResource, MakeRegistry, MakeGateway, StartGateway,
       MakeControl, StartControl, StartStep, LifeTypeOK, LifeOK, Gone, Server
  <2> QED
    BY <1>2, <2>1, <2>2 DEF StackInv
<1> QED
  BY <1>3, <1>4

(* The caller drops the exception of start().                              *)
LEMMA CollectOrphanInv ==
  ASSUME StackInv, CollectOrphan
  PROVE  StackInv'
<1>1. UNCHANGED <<vars, main, door>> /\ pc' = pc
  BY DEF CollectOrphan, vars, gatewayVars
<1>2. GatewayInv'
  BY <1>1, GatewayUntouched DEF StackInv
<1>3. LifeTypeOK'
  BY <1>1 DEF CollectOrphan, StackInv, LifeTypeOK, ServerStates, Server
<1>4. LifeOK'
  BY <1>1 DEF CollectOrphan, StackInv, LifeTypeOK, LifeOK, Gone, Server
<1> QED
  BY <1>2, <1>3, <1>4 DEF StackInv

(* Closing the gateway's socket resets its backlog, and with the loop gone *)
(* no handshake is under way.                                              *)
LEMMA CloseInv ==
  ASSUME GatewayInv, NEW s \in Server, Close(s)
  PROVE  GatewayInv'
<1>1. /\ \A c \in Conn : pc'[c] = IF s = "gateway" /\ pc[c] = "backlog" THEN "closed" ELSE pc[c]
      /\ pc' \in [Conn -> Places]
      /\ UNCHANGED <<accessVars, slots, hello, sid, left, relayed, replayOrder, forgotten, admitted, late, overrun>>
  BY DEF Close, GatewayInv, GatewayTypeOK, Places
<1>2. GatewayTypeOK'
  BY <1>1 DEF GatewayInv, GatewayTypeOK, AccessTypeOK, accessVars
<1>3. ConnsOK'
  <2> SUFFICES ASSUME NEW c \in Conn PROVE ConnOK(c)'
    BY DEF ConnsOK
  <2>1. ConnOK(c)
    BY DEF GatewayInv, ConnsOK
  <2>2. CASE pc'[c] = pc[c]
    BY <1>1, <2>1, <2>2 DEF ConnOK, Ended, accessVars
  <2>3. CASE pc'[c] = "closed"
    BY <1>1, <2>1, <2>3 DEF ConnOK, Arriving, Deciding, Serving, accessVars
  <2> QED
    BY <1>1, <2>2, <2>3
<1>4. GrantsOK' /\ AdmissionsOK'
  BY <1>1 DEF GatewayInv, GrantsOK, AdmissionsOK, NoAdmissionAfterEnd, accessVars
<1>5. Handlers' = Handlers
  BY <1>1 DEF Handlers, Holding
<1>6. SlotsOK'
  BY <1>1, <1>5 DEF GatewayInv, SlotsOK, SlotAccounting, Handlers
<1> QED
  BY <1>2, <1>3, <1>4, <1>6 DEF GatewayInv

LEMMA StopServerInv ==
  ASSUME StackInv, NEW s, NEW from, NEW to, StopServer(s, from, to),
         \/ s = "control" /\ from = "stop_control" /\ to = "stop_gateway"
         \/ s = "gateway" /\ from = "stop_gateway" /\ to = "stop_resource"
         \/ s = "resource" /\ from = "stop_resource" /\ to = "cleanup"
  PROVE  StackInv'
<1>1. s \in Server /\ main = from /\ door' = door
  BY DEF Server, StopServer
<1>2. CASE server[s] = "serving" /\ server' = [server EXCEPT ![s] = "stopping"] /\ UNCHANGED <<vars, main>>
  <2>1. GatewayInv' /\ pc' = pc
    BY <1>2, GatewayUntouched DEF StackInv, vars, gatewayVars
  <2>2. LifeTypeOK'
    BY <1>1, <1>2 DEF StackInv, LifeTypeOK, ServerStates
  <2>3. LifeOK'
    BY <1>1, <1>2, <2>1 DEF StackInv, LifeTypeOK, LifeOK, Gone, Server
  <2> QED
    BY <2>1, <2>2, <2>3 DEF StackInv
<1>3. CASE server[s] \in {"listening", "ended"} /\ Close(s) /\ main' = to
  <2>1. GatewayInv'
    BY <1>1, <1>3, CloseInv DEF StackInv
  <2>2. LifeTypeOK'
    BY <1>1, <1>3 DEF StackInv, LifeTypeOK, ServerStates, Close, StopSteps
  <2>3. /\ server' = [server EXCEPT ![s] = "closed"]
        /\ \A c \in Conn : pc'[c] = IF s = "gateway" /\ pc[c] = "backlog" THEN "closed" ELSE pc[c]
    BY <1>3 DEF Close
  <2>4. LifeOK'
    BY <1>1, <1>3, <2>3 DEF StackInv, LifeTypeOK, LifeOK, Gone, Server
  <2> QED
    BY <2>1, <2>2, <2>4 DEF StackInv
<1>4. CASE server[s] \in Unowned /\ main' = to /\ UNCHANGED <<vars, server>>
  <2>1. GatewayInv' /\ pc' = pc
    BY <1>4, GatewayUntouched DEF StackInv, vars, gatewayVars
  <2>2. LifeTypeOK'
    BY <1>1, <1>4 DEF StackInv, LifeTypeOK, StopSteps
  <2>3. LifeOK'
    BY <1>1, <1>4, <2>1 DEF StackInv, LifeTypeOK, LifeOK, Gone, Unowned, Server
  <2> QED
    BY <2>1, <2>2, <2>3 DEF StackInv
<1> QED
  BY <1>2, <1>3, <1>4 DEF StopServer

LEMMA QuietLifeInv ==
  ASSUME StackInv,
         \/ CallStop \/ Cleanup \/ ControlAccepts \/ HandshakeEnds \/ SilentLeaves
         \/ UNCHANGED allVars
  PROVE  StackInv'
<1>1. UNCHANGED <<vars, server>> /\ pc' = pc
  BY DEF CallStop, Cleanup, ControlAccepts, HandshakeEnds, SilentLeaves, allVars, stackVars,
         vars, gatewayVars
<1>2. GatewayInv'
  BY <1>1, GatewayUntouched DEF StackInv
<1>3. LifeTypeOK'
  BY <1>1 DEF StackInv, LifeTypeOK, StopSteps, CallStop, Cleanup, ControlAccepts, HandshakeEnds,
              SilentLeaves, allVars, stackVars
<1>4. LifeOK'
  BY <1>1 DEF StackInv, LifeOK, CallStop, Cleanup, ControlAccepts, HandshakeEnds, SilentLeaves,
              allVars, stackVars
<1> QED
  BY <1>2, <1>3, <1>4 DEF StackInv

(* A loop that ends is in no handshake.                                    *)
LEMMA LoopEndsInv ==
  ASSUME StackInv, NEW s \in Server, LoopEnds(s)
  PROVE  StackInv'
<1>1. /\ server[s] = "stopping" /\ server' = [server EXCEPT ![s] = "ended"]
      /\ UNCHANGED <<vars, main, door>> /\ pc' = pc
      /\ s = "gateway" => \A c \in Conn : pc[c] # "tls"
  BY DEF LoopEnds, InAccept, vars, gatewayVars
<1>2. GatewayInv'
  BY <1>1, GatewayUntouched DEF StackInv
<1>3. LifeTypeOK'
  BY <1>1 DEF StackInv, LifeTypeOK, ServerStates
<1>4. LifeOK'
  BY <1>1 DEF StackInv, LifeTypeOK, LifeOK, Gone, Server
<1> QED
  BY <1>2, <1>3, <1>4 DEF StackInv

(* A connection enters the backlog of a socket that listens, and the       *)
(* handshake of a loop that runs; nothing else brings it there.            *)
LEMMA ConnectionStackInv ==
  ASSUME StackInv, NEW c \in Conn, ClientConnects(c) \/ GatewayStep(c) \/ ReadsHello(c)
  PROVE  StackInv'
<1>1. GatewayInv'
  BY ConnectionInv, HelloInv
  DEF StackInv, ClientConnects, GatewayStep, GatewayAccepts, AcceptGoesOn, HandlerGoesOn,
      ReadsHello, Accept
<1>2. UNCHANGED stackVars
  BY DEF ClientConnects, GatewayStep, ReadsHello
<1>3. PICK place : /\ pc' = [pc EXCEPT ![c] = place]
                   /\ place = "backlog" => server["gateway"] \notin Gone
                   /\ place = "tls" => server["gateway"] = "serving"
  <2>1. CASE ClientConnects(c)
    <3> WITNESS "backlog"
    <3> QED
      BY <2>1 DEF ClientConnects, Connect, Move, Goto, Gone
  <2>2. CASE GatewayAccepts(c)
    BY <2>2 DEF GatewayAccepts, AcceptRaw, Move, Goto
  <2>3. CASE AcceptGoesOn(c)
    BY <2>3 DEF AcceptGoesOn, TlsFailed, TakeSlot, NoSlot, SpawnFailed, Move, Goto
  <2>4. CASE ReadsHello(c)
    <3>1. pc' = [pc EXCEPT ![c] = "verify"]
      BY <2>4 DEF ReadsHello, ReadHello, Goto
    <3> WITNESS "verify"
    <3> QED
      BY <3>1
  <2>5. CASE Admit(c)
    <3>1. hello[c].mode \in {"tcp", "l3"}
      BY <2>5 DEF Admit, StackInv, GatewayInv, ConnsOK, ConnOK, Deciding, Hello
    <3> QED
      BY <2>5, <3>1 DEF Admit, Goto
  <2>6. CASE Handle(c) /\ ~Admit(c)
    BY <2>6 DEF Handle, HelloFailed, VerifyToken, RefuseToken, LookupSession, RefuseSession,
       VerifyProof, RefuseProof, RefuseReplay, RefusePolicy, CollectRequest, CollectFailed,
       DialUpstream, DialFailed, RelayDeadline, RelayCheck, RelayEnded, RelayTimeout, RelayChunk,
       RelayOverLimit, RelayFinished, AcknowledgePacket, RefusePacket, ReleaseSlot,
       Refuse, Move, Goto
  <2> QED
    BY <2>1, <2>2, <2>3, <2>4, <2>5, <2>6 DEF GatewayStep, HandlerGoesOn
<1>4. \A d \in Conn : pc'[d] = IF d = c THEN place ELSE pc[d]
  BY <1>3 DEF StackInv, GatewayInv, GatewayTypeOK
<1>5. LifeTypeOK'
  BY <1>2 DEF StackInv, LifeTypeOK, stackVars
<1>6. LifeOK'
  BY <1>2, <1>3, <1>4 DEF StackInv, LifeOK, stackVars
<1> QED
  BY <1>1, <1>5, <1>6 DEF StackInv

LEMMA StackInitInv == StackInit => StackInv
<1> SUFFICES ASSUME StackInit PROVE StackInv
  OBVIOUS
<1>1. GatewayInv
  BY GatewayInitInv DEF StackInit
<1>2. LifeTypeOK
  BY DEF StackInit, LifeTypeOK, StartSteps, ServerStates
<1>3. LifeOK
  BY DEF StackInit, Init, LifeOK, Server
<1> QED
  BY <1>1, <1>2, <1>3 DEF StackInv

LEMMA StackNextInv == StackInv /\ [StackNext]_allVars => StackInv'
<1> SUFFICES ASSUME StackInv, [StackNext]_allVars PROVE StackInv'
  OBVIOUS
<1>1. CASE AccessNext /\ UNCHANGED <<gatewayVars, stackVars>>
  <2>1. GatewayInv'
    BY <1>1, AccessInv DEF StackInv
  <2>2. LifeTypeOK' /\ LifeOK'
    BY <1>1 DEF StackInv, LifeTypeOK, LifeOK, stackVars, gatewayVars
  <2> QED
    BY <2>1, <2>2 DEF StackInv
<1> QED
  BY <1>1, StartInv, StopServerInv, CollectOrphanInv, QuietLifeInv, LoopEndsInv, ConnectionStackInv
  DEF StackNext, Stop, StopControl, StopGateway, StopResource

LEMMA StackInvariant == StackSpec => []StackInv
  BY StackInitInv, StackNextInv, PTL DEF StackSpec

(* The stack's and its gateway's state keeps its form.                     *)
THEOREM StackTyped == StackSpec => []StackTypeOK
<1>1. StackInv => StackTypeOK
  BY DEF StackInv, GatewayInv, LifeTypeOK, StackTypeOK
<1> QED
  BY <1>1, StackInvariant, PTL

(* Wherever start() had got to, stop() leaves nothing open or running that *)
(* the stack came to own; a socket of a ControlPlane whose TLS set-up      *)
(* failed is the one that may still listen.                                *)
THEOREM StopCloses == StackSpec => []StoppedIsClosed
<1>1. StackInv => StoppedIsClosed
  BY DEF StackInv, LifeOK, Gone, Server, StoppedIsClosed
<1> QED
  BY <1>1, StackInvariant, PTL

(* The gateway keeps its promises while the stack around it starts, stops  *)
(* and closes its socket under the connections.                            *)
THEOREM GatewayInStack ==
  StackSpec => [](SlotAccounting /\ AdmittedOnce /\ NoAdmissionAfterEnd /\ OneDeliveryAfterEnd)
<1>1. StackInv => SlotAccounting /\ AdmittedOnce /\ NoAdmissionAfterEnd /\ OneDeliveryAfterEnd
  BY GatewayPromises DEF StackInv
<1> QED
  BY <1>1, StackInvariant, PTL
=============================================================================
