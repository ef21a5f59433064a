-------------------------- MODULE ControlPlaneProofs --------------------------
(***************************************************************************)
(* The control plane's handlers, for any number of threads, sessions,      *)
(* request ids and codes and any size of the replay cache: each request    *)
(* has its effect once and each code opens one session while the memory of *)
(* it lasts, a logout is final, and the sessions and grants the gateway    *)
(* sees are those of Access.  EffectOnce and LoginOncePerOtp are not       *)
(* inductive: they rest on which handlers still owe their effect.          *)
(***************************************************************************)
EXTENDS ControlPlane, TLAPS

Gated == {"verify", "lookup", "prove", "consume", "operate"}
Found == {"prove", "consume", "operate"}
LoggingIn == {"credentials", "policy", "create"}
OtpSpent == {"policy", "create"}

LoggedOut(w) == pc[w] = "done" /\ answer[w] = "200" /\ request[w].path = "logout"

(* What a handler holds at each stage.                                     *)
HandlerOK(w) ==
  /\ pc[w] \in Gated => request[w] \in Call
  /\ pc[w] \in Found => sid[w] = request[w].grant.sid /\ sid[w] \in opened
  /\ pc[w] \in LoggingIn => request[w] \in LoginCall
  /\ pc[w] = "issue" => sid[w] \in opened /\ request[w].path # "logout"
  /\ LoggedOut(w) => sid[w] \in opened /\ sid[w] \notin active

HandlersOK == \A w \in Threads : HandlerOK(w)

(* A consumed id is owed to one handler, until it has had its effect or is *)
(* forgotten.                                                              *)
EffectsOK ==
  /\ \A k \in Sid \X RequestId : effects[k] # 0 => k \in Seen(replayOrder) \cup forgotten
  /\ \A w \in Threads : pc[w] = "operate" => Key(w) \in Seen(replayOrder) \cup forgotten
  /\ \A w \in Threads : pc[w] = "operate" /\ Key(w) \notin forgotten =>
       /\ effects[Key(w)] = 0
       /\ \A v \in Threads : pc[v] = "operate" /\ Key(v) = Key(w) => v = w
  /\ \A k \in (Sid \X RequestId) \ forgotten : effects[k] <= 1
  /\ Len(replayOrder) <= MaxReplayIds
  /\ forgotten # {} => Len(replayOrder) = MaxReplayIds

(* A used code is owed to one login, until it has opened its session or is *)
(* pruned.                                                                 *)
LoginsOK ==
  /\ \A o \in Otp : sessionsOf[o] # 0 => o \in usedOtp \cup prunedOtp
  /\ \A w \in Threads : pc[w] \in OtpSpent => request[w].otp \in usedOtp \cup prunedOtp
  /\ \A w \in Threads : pc[w] \in OtpSpent /\ request[w].otp \notin prunedOtp =>
       /\ sessionsOf[request[w].otp] = 0
       /\ \A v \in Threads : pc[v] \in OtpSpent /\ request[v].otp = request[w].otp => v = w
  /\ \A o \in Otp \ prunedOtp : sessionsOf[o] <= 1

ControlInv == ControlTypeOK /\ HandlersOK /\ EffectsOK /\ LoginsOK

-----------------------------------------------------------------------------
(* What Remember does to a list within its bounds: the new id is in, old   *)
(* ones go only when the list was full, and a full list stays full.        *)
LEMMA RememberFacts ==
  ASSUME NEW K, NEW order \in Seq(K), NEW key \in K, Len(order) <= MaxReplayIds
  PROVE  /\ Remember(order, key) \in Seq(K)
         /\ Len(Remember(order, key)) <= MaxReplayIds
         /\ key \in Seen(Remember(order, key))
         /\ Seen(Remember(order, key)) \subseteq Seen(order) \cup {key}
         /\ Len(order) = MaxReplayIds => Len(Remember(order, key)) = MaxReplayIds
         /\ Len(order) < MaxReplayIds => Seen(order) \subseteq Seen(Remember(order, key))
<1> DEFINE longer == Append(order, key)
           n == Len(order)
           x == Excess(longer)
           kept == Remember(order, key)
<1>1. /\ n \in Nat /\ MaxReplayIds \in Nat /\ MaxReplayIds >= 1
      /\ longer \in Seq(K) /\ Len(longer) = n + 1
      /\ \A i \in 1..n : longer[i] = order[i]
      /\ longer[n + 1] = key
  BY WindowAssumption
<1>2. x = IF n = MaxReplayIds THEN 1 ELSE 0
  BY <1>1 DEF Excess
<1>3. /\ kept \in Seq(K) /\ Len(kept) = n + 1 - x
      /\ \A i \in 1..(n + 1 - x) : kept[i] = longer[i + x]
  <2> HIDE DEF longer
  <2>1. kept = SubSeq(longer, x + 1, n + 1)
    BY <1>1 DEF Remember, longer
  <2>2. x \in {0, 1} /\ longer \in Seq(K) /\ Len(longer) = n + 1
    BY <1>1, <1>2
  <2> HIDE DEF x, kept
  <2>3. x + 1 \in 1..(n + 2) /\ n + 1 \in 1..Len(longer) /\ n + 1 - x \in Nat
    BY <1>1, <2>2
  <2>4. kept \in Seq(K) /\ Len(kept) = n + 1 - x
    BY <1>1, <2>1, <2>2, <2>3
  <2>5. ASSUME NEW i \in 1..(n + 1 - x) PROVE kept[i] = longer[i + x]
    BY <1>1, <2>1, <2>2, <2>3
  <2> QED
    BY <2>4, <2>5
<1> HIDE DEF longer, x, kept
<1>4. n + 1 - x \in 1..(n + 1 - x) /\ kept[n + 1 - x] = key
  BY <1>1, <1>2, <1>3
<1>5. key \in Seen(kept)
  BY <1>3, <1>4 DEF Seen
<1>6. \A i \in 1..(n + 1 - x) : kept[i] = key \/ \E j \in 1..n : kept[i] = order[j]
  <2> SUFFICES ASSUME NEW i \in 1..(n + 1 - x), kept[i] # key
               PROVE  \E j \in 1..n : kept[i] = order[j]
    OBVIOUS
  <2>1. i + x \in 1..n
    BY <1>1, <1>2, <1>3
  <2> QED
    BY <2>1, <1>1, <1>3
<1>7. Seen(kept) \subseteq Seen(order) \cup {key}
  BY <1>3, <1>6 DEF Seen
<1>8. n < MaxReplayIds => \A j \in 1..n : j \in 1..(n + 1 - x) /\ kept[j] = order[j]
  BY <1>1, <1>2, <1>3
<1>9. n < MaxReplayIds => Seen(order) \subseteq Seen(kept)
  BY <1>3, <1>8 DEF Seen
<1> QED
  BY <1>1, <1>2, <1>3, <1>5, <1>7, <1>9 DEF kept

-----------------------------------------------------------------------------
(* What one handler does leaves the others' promises alone, as long as     *)
(* sessions only open anew and end.                                        *)
LEMMA OtherHandlers ==
  ASSUME HandlersOK, NEW w \in Threads,
         opened \subseteq opened',
         \A s \in opened : s \in active' => s \in active,
         \A v \in Threads \ {w} : /\ pc'[v] = pc[v] /\ request'[v] = request[v]
                                  /\ sid'[v] = sid[v] /\ answer'[v] = answer[v],
         HandlerOK(w)'
  PROVE  HandlersOK'
<1> SUFFICES ASSUME NEW v \in Threads, v # w PROVE HandlerOK(v)'
  BY DEF HandlersOK
<1>1. HandlerOK(v)
  BY DEF HandlersOK
<1> QED
  BY <1>1 DEF HandlerOK, LoggedOut

(* No new handler owes an effect.                                          *)
LEMMA EffectsFrame ==
  ASSUME EffectsOK, UNCHANGED <<effects, replayOrder, forgotten>>,
         \A v \in Threads : pc'[v] = "operate" => pc[v] = "operate" /\ request'[v] = request[v]
  PROVE  EffectsOK'
BY DEF EffectsOK, Key

(* No new login owes a session.                                            *)
LEMMA LoginsFrame ==
  ASSUME LoginsOK, UNCHANGED <<sessionsOf, usedOtp, prunedOtp>>,
         \A v \in Threads : pc'[v] \in OtpSpent => pc[v] \in OtpSpent /\ request'[v] = request[v]
  PROVE  LoginsOK'
BY DEF LoginsOK

(* The steps that only move a handler on or answer it: everything but its  *)
(* stage and its answer stays.                                             *)
LEMMA QuietStep ==
  ASSUME ControlInv, NEW w \in Threads, NEW stage \in Stages, NEW status \in Answers,
         pc' = [pc EXCEPT ![w] = stage],
         answer' = answer \/ answer' = [answer EXCEPT ![w] = status],
         UNCHANGED <<accessVars, request, sid, usedOtp, prunedOtp, replayOrder, forgotten, sessionsOf, effects>>,
         HandlerOK(w)', stage # "operate", stage \in OtpSpent => pc[w] \in OtpSpent
  PROVE  ControlInv'
<1>1. ControlTypeOK'
  BY DEF ControlInv, ControlTypeOK, AccessTypeOK, accessVars
<1>2. \A v \in Threads \ {w} : pc'[v] = pc[v] /\ answer'[v] = answer[v]
  BY DEF ControlInv, ControlTypeOK
<1>3. pc'[w] = stage
  BY DEF ControlInv, ControlTypeOK
<1>4. HandlersOK'
  BY <1>2, OtherHandlers DEF ControlInv, accessVars
<1>5. EffectsOK'
  BY <1>2, <1>3, EffectsFrame DEF ControlInv
<1>6. LoginsOK'
  BY <1>2, <1>3, LoginsFrame DEF ControlInv
<1> QED
  BY <1>1, <1>4, <1>5, <1>6 DEF ControlInv

LEMMA RejectInv ==
  ASSUME ControlInv, NEW w \in Threads, NEW status \in Answers \ {"200"}, Reject(w, status)
  PROVE  ControlInv'
<1>1. pc' = [pc EXCEPT ![w] = "done"] /\ answer' = [answer EXCEPT ![w] = status]
  BY DEF Reject, Answer, Goto
<1>2. pc'[w] = "done" /\ answer'[w] # "200"
  BY <1>1 DEF ControlInv, ControlTypeOK
<1>3. HandlerOK(w)'
  BY <1>2 DEF HandlerOK, LoggedOut, Gated, Found, LoggingIn
<1> QED
  BY <1>1, <1>3, QuietStep DEF Reject, Stages, OtpSpent

(* A step to a stage whose promises the handler keeps already.             *)
LEMMA MoveInv ==
  ASSUME ControlInv, NEW w \in Threads, NEW stage \in Stages, Move(w, stage),
         \/ pc[w] = "verify" /\ stage = "lookup"
         \/ pc[w] = "prove" /\ stage = "consume"
         \/ pc[w] = "policy" /\ stage = "create"
  PROVE  ControlInv'
<1>1. pc' = [pc EXCEPT ![w] = stage] /\ pc'[w] = stage
  BY DEF Move, Goto, ControlInv, ControlTypeOK
<1>2. HandlerOK(w)
  BY DEF ControlInv, HandlersOK
<1>3. HandlerOK(w)'
  BY <1>1, <1>2 DEF HandlerOK, LoggedOut, Gated, Found, LoggingIn, Move, accessVars
<1> QED
  BY <1>1, <1>3, QuietStep DEF Move, OtpSpent, Answers

LEMMA LookupSessionInv ==
  ASSUME ControlInv, NEW w \in Threads, LookupSession(w)
  PROVE  ControlInv'
<1>1. /\ pc[w] = "lookup" /\ request[w].grant.sid \in active
      /\ pc' = [pc EXCEPT ![w] = "prove"]
      /\ sid' = [sid EXCEPT ![w] = request[w].grant.sid]
      /\ UNCHANGED <<accessVars, request, answer, usedOtp, prunedOtp, replayOrder, forgotten, sessionsOf, effects>>
  BY DEF LookupSession, Goto
<1>2. request[w] \in Call /\ request[w].grant.sid \in Sid /\ request[w].grant.sid \in opened
  BY <1>1 DEF ControlInv, HandlersOK, HandlerOK, Gated, Call, Grant, ControlTypeOK, AccessTypeOK
<1>3. ControlTypeOK'
  BY <1>1, <1>2 DEF ControlInv, ControlTypeOK, AccessTypeOK, accessVars, Stages
<1>4. \A v \in Threads : /\ pc'[v] = IF v = w THEN "prove" ELSE pc[v]
                         /\ sid'[v] = IF v = w THEN request[w].grant.sid ELSE sid[v]
  BY <1>1 DEF ControlInv, ControlTypeOK
<1>5. HandlerOK(w)'
  BY <1>1, <1>2, <1>4 DEF HandlerOK, LoggedOut, Gated, Found, LoggingIn, accessVars
<1>6. HandlersOK'
  BY <1>1, <1>4, <1>5, OtherHandlers DEF ControlInv, accessVars
<1>7. EffectsOK'
  BY <1>1, <1>4, EffectsFrame DEF ControlInv
<1>8. LoginsOK'
  BY <1>1, <1>4, LoginsFrame DEF ControlInv, OtpSpent
<1> QED
  BY <1>3, <1>6, <1>7, <1>8 DEF ControlInv

(* The lock of consume_control_request_id: whoever passes has the id to    *)
(* himself.                                                                *)
LEMMA ConsumeIdInv ==
  ASSUME ControlInv, NEW w \in Threads, ConsumeId(w)
  PROVE  ControlInv'
<1>1. /\ pc[w] = "consume" /\ Key(w) \notin Seen(replayOrder)
      /\ pc' = [pc EXCEPT ![w] = "operate"]
      /\ replayOrder' = Remember(replayOrder, Key(w))
      /\ forgotten' = forgotten \cup (Seen(replayOrder) \ Seen(replayOrder'))
      /\ UNCHANGED <<accessVars, request, sid, answer, usedOtp, prunedOtp, sessionsOf, effects>>
  BY DEF ConsumeId, Goto
<1>2. HandlerOK(w)
  BY DEF ControlInv, HandlersOK
<1>3. Key(w) \in Sid \X RequestId
  BY <1>1, <1>2 DEF HandlerOK, Gated, Call, Grant, Key
<1>4. /\ replayOrder' \in Seq(Sid \X RequestId)
      /\ forgotten' \in SUBSET (Sid \X RequestId)
      /\ Len(replayOrder') <= MaxReplayIds
      /\ forgotten' # {} => Len(replayOrder') = MaxReplayIds
      /\ forgotten \subseteq forgotten'
      /\ Key(w) \in Seen(replayOrder')
      /\ Seen(replayOrder) \cup forgotten \subseteq Seen(replayOrder') \cup forgotten'
  <2> DEFINE key == Key(w)
  <2>1. /\ replayOrder \in Seq(Sid \X RequestId) /\ forgotten \in SUBSET (Sid \X RequestId)
        /\ Len(replayOrder) <= MaxReplayIds
        /\ forgotten # {} => Len(replayOrder) = MaxReplayIds
        /\ key \in Sid \X RequestId /\ replayOrder' = Remember(replayOrder, key)
        /\ forgotten' = forgotten \cup (Seen(replayOrder) \ Seen(replayOrder'))
    BY <1>1, <1>3 DEF ControlInv, ControlTypeOK, EffectsOK
  <2> HIDE DEF key
  <2>2. /\ replayOrder' \in Seq(Sid \X RequestId)
        /\ Len(replayOrder') <= MaxReplayIds
        /\ key \in Seen(replayOrder')
        /\ Len(replayOrder) = MaxReplayIds => Len(replayOrder') = MaxReplayIds
        /\ Len(replayOrder) < MaxReplayIds => Seen(replayOrder) \subseteq Seen(replayOrder')
    BY <2>1, RememberFacts
  <2>3. Seen(replayOrder) \subseteq Sid \X RequestId
    BY <2>1 DEF Seen
  <2>4. Len(replayOrder) = MaxReplayIds \/ Len(replayOrder) < MaxReplayIds
    BY <2>1, WindowAssumption
  <2> QED
    BY <2>1, <2>2, <2>3, <2>4 DEF key
<1>5. ControlTypeOK'
  BY <1>1, <1>3, <1>4 DEF ControlInv, ControlTypeOK, AccessTypeOK, accessVars, Stages
<1>6. \A v \in Threads : pc'[v] = IF v = w THEN "operate" ELSE pc[v]
  BY <1>1 DEF ControlInv, ControlTypeOK
<1>7. HandlerOK(w)'
  BY <1>1, <1>2, <1>6 DEF HandlerOK, LoggedOut, Gated, Found, LoggingIn, accessVars
<1>8. HandlersOK'
  BY <1>1, <1>6, <1>7, OtherHandlers DEF ControlInv, accessVars
<1>9. EffectsOK'
  <2>1. \A v \in Threads : Key(v)' = Key(v)
    BY <1>1 DEF Key
  <2>2. Key(w) \notin forgotten =>
          effects[Key(w)] = 0 /\ \A v \in Threads : pc[v] = "operate" => Key(v) # Key(w)
    BY <1>1, <1>3 DEF ControlInv, EffectsOK
  <2>3. /\ \A k \in Sid \X RequestId : effects[k] # 0 => k \in Seen(replayOrder') \cup forgotten'
        /\ \A k \in (Sid \X RequestId) \ forgotten' : effects[k] <= 1
    BY <1>4 DEF ControlInv, EffectsOK
  <2>4. \A v \in Threads : pc'[v] = "operate" => Key(v) \in Seen(replayOrder') \cup forgotten'
    BY <1>6, <1>4 DEF ControlInv, EffectsOK
  <2>5. \A v \in Threads : pc'[v] = "operate" /\ Key(v) \notin forgotten' =>
          /\ effects[Key(v)] = 0
          /\ \A u \in Threads : pc'[u] = "operate" /\ Key(u) = Key(v) => u = v
    BY <1>6, <1>4, <2>2 DEF ControlInv, EffectsOK
  <2> QED
    BY <1>1, <1>4, <2>1, <2>3, <2>4, <2>5 DEF EffectsOK
<1>10. LoginsOK'
  BY <1>1, <1>6, LoginsFrame DEF ControlInv, OtpSpent
<1> QED
  BY <1>5, <1>8, <1>9, <1>10 DEF ControlInv

(* The operation of a request: its effect is recorded, and the handler is  *)
(* done or goes on to issue a grant.                                       *)
LEMMA OperateInv ==
  ASSUME ControlInv, NEW w \in Threads, NEW stage \in {"issue", "done"},
         NEW status \in Answers,
         pc[w] = "operate", Effect(w),
         pc' = [pc EXCEPT ![w] = stage],
         answer' = [answer EXCEPT ![w] = status],
         active' \in {active, active \ {sid[w]}},
         UNCHANGED <<clock, opened, grants, request, sid, usedOtp, prunedOtp, replayOrder, forgotten, sessionsOf>>,
         request[w].path = "logout" => stage = "done" /\ sid[w] \notin active'
  PROVE  ControlInv'
<1>1. HandlerOK(w)
  BY DEF ControlInv, HandlersOK
<1>2. Key(w) \in Sid \X RequestId
  BY <1>1 DEF HandlerOK, Gated, Call, Grant, Key
<1>3. effects' = IF Key(w) \in forgotten THEN effects ELSE [effects EXCEPT ![Key(w)] = @ + 1]
  BY DEF Effect
<1>4. ControlTypeOK'
  BY <1>2, <1>3 DEF ControlInv, ControlTypeOK, AccessTypeOK, Stages
<1>5. \A v \in Threads : /\ pc'[v] = IF v = w THEN stage ELSE pc[v]
                         /\ answer'[v] = IF v = w THEN status ELSE answer[v]
  BY DEF ControlInv, ControlTypeOK
<1>6. HandlerOK(w)'
  BY <1>1, <1>5 DEF HandlerOK, LoggedOut, Gated, Found, LoggingIn
<1>7. HandlersOK'
  BY <1>5, <1>6, OtherHandlers DEF ControlInv
<1>8. EffectsOK'
  <2>1. \A v \in Threads : Key(v)' = Key(v)
    BY DEF Key
  <2>2. Key(w) \in Seen(replayOrder) \cup forgotten
    BY DEF ControlInv, EffectsOK
  <2>3. Key(w) \notin forgotten =>
          effects[Key(w)] = 0 /\ \A v \in Threads : pc'[v] = "operate" => Key(v) # Key(w)
    BY <1>5 DEF ControlInv, EffectsOK
  <2>4. \A k \in Sid \X RequestId :
          effects'[k] = IF k = Key(w) /\ k \notin forgotten THEN 1 ELSE effects[k]
    <3>1. CASE Key(w) \in forgotten
      BY <1>3, <3>1
    <3>2. CASE Key(w) \notin forgotten
      BY <1>2, <1>3, <2>3, <3>2 DEF ControlInv, ControlTypeOK
    <3> QED
      BY <3>1, <3>2
  <2>5. \A v \in Threads : pc'[v] = "operate" => pc[v] = "operate" /\ Key(v) \in Sid \X RequestId
    BY <1>5 DEF ControlInv, HandlersOK, HandlerOK, Gated, Call, Grant, Key
  <2>6. /\ \A k \in Sid \X RequestId : effects'[k] # 0 => k \in Seen(replayOrder) \cup forgotten
        /\ \A k \in (Sid \X RequestId) \ forgotten : effects'[k] <= 1
    BY <2>2, <2>4 DEF ControlInv, EffectsOK
  <2>7. \A v \in Threads : pc'[v] = "operate" => Key(v) \in Seen(replayOrder) \cup forgotten
    BY <2>5 DEF ControlInv, EffectsOK
  <2>8. \A v \in Threads : pc'[v] = "operate" /\ Key(v) \notin forgotten =>
          /\ effects'[Key(v)] = 0
          /\ \A u \in Threads : pc'[u] = "operate" /\ Key(u) = Key(v) => u = v
    BY <2>3, <2>4, <2>5 DEF ControlInv, EffectsOK
  <2>9. Len(replayOrder) <= MaxReplayIds /\ (forgotten # {} => Len(replayOrder) = MaxReplayIds)
    BY DEF ControlInv, EffectsOK
  <2> QED
    BY <2>1, <2>6, <2>7, <2>8, <2>9 DEF EffectsOK
<1>9. LoginsOK'
  BY <1>5, LoginsFrame DEF ControlInv, OtpSpent
<1> QED
  BY <1>4, <1>7, <1>8, <1>9 DEF ControlInv

LEMMA HeartbeatInv ==
  ASSUME ControlInv, NEW w \in Threads, Heartbeat(w)
  PROVE  ControlInv'
<1>1. answer' = [answer EXCEPT ![w] = answer[w]] /\ answer[w] \in Answers
  BY DEF Heartbeat, ControlInv, ControlTypeOK
<1> QED
  BY <1>1, OperateInv DEF Heartbeat, Goto, accessVars

LEMMA LogoutInv ==
  ASSUME ControlInv, NEW w \in Threads, Logout(w)
  PROVE  ControlInv'
BY OperateInv DEF Logout, Answer, Goto, Answers

LEMMA ResourcesInv ==
  ASSUME ControlInv, NEW w \in Threads, Resources(w)
  PROVE  ControlInv'
BY OperateInv DEF Resources, Answer, Goto, Answers, accessVars

-----------------------------------------------------------------------------
(* The lock of consume_otp(): a used code is refused ...                   *)
LEMMA RejectUsedOtpInv ==
  ASSUME ControlInv, NEW w \in Threads, RejectUsedOtp(w)
  PROVE  ControlInv'
<1>1. PICK kept \in SUBSET usedOtp : usedOtp' = kept /\ prunedOtp' = prunedOtp \cup (usedOtp \ kept)
  BY DEF RejectUsedOtp, Prune
<1>2. /\ pc[w] = "credentials"
      /\ pc' = [pc EXCEPT ![w] = "done"] /\ answer' = [answer EXCEPT ![w] = "401"]
      /\ UNCHANGED <<accessVars, request, sid, replayOrder, forgotten, sessionsOf, effects>>
  BY DEF RejectUsedOtp, Answer, Goto
<1>3. ControlTypeOK'
  BY <1>1, <1>2 DEF ControlInv, ControlTypeOK, AccessTypeOK, accessVars, Stages, Answers
<1>4. \A v \in Threads : /\ pc'[v] = IF v = w THEN "done" ELSE pc[v]
                         /\ answer'[v] = IF v = w THEN "401" ELSE answer[v]
  BY <1>2 DEF ControlInv, ControlTypeOK
<1>5. HandlerOK(w)'
  BY <1>4 DEF HandlerOK, LoggedOut, Gated, Found, LoggingIn
<1>6. HandlersOK'
  BY <1>2, <1>4, <1>5, OtherHandlers DEF ControlInv, accessVars
<1>7. EffectsOK'
  BY <1>2, <1>4, EffectsFrame DEF ControlInv
<1>8. LoginsOK'
  <2>1. usedOtp \cup prunedOtp \subseteq usedOtp' \cup prunedOtp' /\ prunedOtp \subseteq prunedOtp'
    BY <1>1
  <2>2. \A v \in Threads : pc'[v] \in OtpSpent => pc[v] \in OtpSpent
    BY <1>4 DEF OtpSpent
  <2> QED
    BY <1>2, <2>1, <2>2 DEF ControlInv, LoginsOK
<1> QED
  BY <1>3, <1>6, <1>7, <1>8 DEF ControlInv

(* ... and whoever passes it has a code that is not pruned to himself.     *)
LEMMA ConsumeOtpInv ==
  ASSUME ControlInv, NEW w \in Threads, ConsumeOtp(w)
  PROVE  ControlInv'
<1> DEFINE o == request[w].otp
<1>1. PICK kept \in SUBSET usedOtp : /\ o \notin kept /\ usedOtp' = kept \cup {o}
                                    /\ prunedOtp' = prunedOtp \cup (usedOtp \ kept)
  BY DEF ConsumeOtp, Prune
<1>2. /\ pc[w] = "credentials"
      /\ pc' = [pc EXCEPT ![w] = "policy"]
      /\ UNCHANGED <<accessVars, request, sid, answer, replayOrder, forgotten, sessionsOf, effects>>
  BY DEF ConsumeOtp, Goto
<1>3. HandlerOK(w)
  BY DEF ControlInv, HandlersOK
<1>4. o \in Otp
  BY <1>2, <1>3 DEF HandlerOK, LoggingIn, LoginCall
<1>5. ControlTypeOK'
  BY <1>1, <1>2, <1>4 DEF ControlInv, ControlTypeOK, AccessTypeOK, accessVars, Stages
<1>6. \A v \in Threads : pc'[v] = IF v = w THEN "policy" ELSE pc[v]
  BY <1>2 DEF ControlInv, ControlTypeOK
<1>7. HandlerOK(w)'
  BY <1>2, <1>3, <1>6 DEF HandlerOK, LoggedOut, Gated, Found, LoggingIn, accessVars
<1>8. HandlersOK'
  BY <1>2, <1>6, <1>7, OtherHandlers DEF ControlInv, accessVars
<1>9. EffectsOK'
  BY <1>2, <1>6, EffectsFrame DEF ControlInv
<1>10. LoginsOK'
  <2>1. /\ usedOtp \cup prunedOtp \subseteq usedOtp' \cup prunedOtp'
        /\ prunedOtp \subseteq prunedOtp' /\ o \in usedOtp'
    BY <1>1
  <2>2. o \notin prunedOtp' => o \notin usedOtp /\ o \notin prunedOtp
    BY <1>1
  <2>3. o \notin prunedOtp' =>
          sessionsOf[o] = 0 /\ \A v \in Threads : pc[v] \in OtpSpent => request[v].otp # o
    BY <1>4, <2>2 DEF ControlInv, LoginsOK
  <2>4. \A v \in Threads : pc'[v] \in OtpSpent => v = w \/ pc[v] \in OtpSpent
    BY <1>6
  <2>5. /\ \A p \in Otp : sessionsOf[p] # 0 => p \in usedOtp' \cup prunedOtp'
        /\ \A p \in Otp \ prunedOtp' : sessionsOf[p] <= 1
    BY <2>1 DEF ControlInv, LoginsOK
  <2>6. \A v \in Threads : pc'[v] \in OtpSpent => request[v].otp \in usedOtp' \cup prunedOtp'
    BY <2>1, <2>4 DEF ControlInv, LoginsOK
  <2>7. \A v \in Threads : pc'[v] \in OtpSpent /\ request[v].otp \notin prunedOtp' =>
          /\ sessionsOf[request[v].otp] = 0
          /\ \A u \in Threads : pc'[u] \in OtpSpent /\ request[u].otp = request[v].otp => u = v
    BY <2>1, <2>3, <2>4 DEF ControlInv, LoginsOK
  <2> QED
    BY <1>2, <2>5, <2>6, <2>7 DEF LoginsOK
<1> QED
  BY <1>5, <1>8, <1>9, <1>10 DEF ControlInv

LEMMA CreateSessionInv ==
  ASSUME ControlInv, NEW w \in Threads, NEW s \in Sid, CreateSession(w, s)
  PROVE  ControlInv'
<1> DEFINE o == request[w].otp
<1>1. /\ pc[w] = "create" /\ s \notin opened
      /\ opened' = opened \cup {s} /\ active' = active \cup {s}
      /\ pc' = [pc EXCEPT ![w] = "issue"]
      /\ sid' = [sid EXCEPT ![w] = s]
      /\ sessionsOf' = IF o \in prunedOtp THEN sessionsOf ELSE [sessionsOf EXCEPT ![o] = @ + 1]
      /\ UNCHANGED <<clock, grants, request, answer, usedOtp, prunedOtp, replayOrder, forgotten, effects>>
  BY DEF CreateSession, CountSession, Open, Goto
<1>2. HandlerOK(w)
  BY DEF ControlInv, HandlersOK
<1>3. o \in Otp /\ request[w].path = "login"
  BY <1>1, <1>2 DEF HandlerOK, LoggingIn, LoginCall
<1>4. ControlTypeOK'
  BY <1>1, <1>3 DEF ControlInv, ControlTypeOK, AccessTypeOK, Stages
<1>5. \A v \in Threads : /\ pc'[v] = IF v = w THEN "issue" ELSE pc[v]
                         /\ sid'[v] = IF v = w THEN s ELSE sid[v]
  BY <1>1 DEF ControlInv, ControlTypeOK
<1>6. HandlerOK(w)'
  BY <1>1, <1>3, <1>5 DEF HandlerOK, LoggedOut, Gated, Found, LoggingIn
<1>7. HandlersOK'
  BY <1>1, <1>5, <1>6, OtherHandlers DEF ControlInv
<1>8. EffectsOK'
  BY <1>1, <1>5, EffectsFrame DEF ControlInv
<1>9. LoginsOK'
  <2>1. /\ o \in usedOtp \cup prunedOtp
        /\ o \notin prunedOtp =>
             /\ sessionsOf[o] = 0
             /\ \A v \in Threads : pc[v] \in OtpSpent /\ request[v].otp = o => v = w
    BY <1>1 DEF ControlInv, LoginsOK, OtpSpent
  <2>2. \A p \in Otp : sessionsOf'[p] = IF p = o /\ p \notin prunedOtp THEN 1 ELSE sessionsOf[p]
    <3>1. CASE o \in prunedOtp
      BY <1>1, <3>1
    <3>2. CASE o \notin prunedOtp
      BY <1>1, <1>3, <2>1, <3>2 DEF ControlInv, ControlTypeOK
    <3> QED
      BY <3>1, <3>2
  <2>3. \A v \in Threads : pc'[v] \in OtpSpent =>
          v # w /\ pc[v] \in OtpSpent /\ request[v].otp \in Otp
    BY <1>5 DEF ControlInv, HandlersOK, HandlerOK, LoggingIn, LoginCall, OtpSpent
  <2>4. \A v \in Threads : pc'[v] \in OtpSpent /\ request[v].otp \notin prunedOtp =>
          /\ sessionsOf'[request[v].otp] = 0
          /\ \A u \in Threads : pc'[u] \in OtpSpent /\ request[u].otp = request[v].otp => u = v
    BY <2>1, <2>2, <2>3 DEF ControlInv, LoginsOK
  <2>5. \A v \in Threads : pc'[v] \in OtpSpent => request[v].otp \in usedOtp \cup prunedOtp
    BY <2>3 DEF ControlInv, LoginsOK
  <2>6. /\ \A p \in Otp : sessionsOf'[p] # 0 => p \in usedOtp \cup prunedOtp
        /\ \A p \in Otp \ prunedOtp : sessionsOf'[p] <= 1
    BY <2>1, <2>2 DEF ControlInv, LoginsOK
  <2> QED
    BY <1>1, <2>4, <2>5, <2>6 DEF LoginsOK
<1> QED
  BY <1>4, <1>7, <1>8, <1>9 DEF ControlInv

LEMMA IssueGrantInv ==
  ASSUME ControlInv, NEW w \in Threads, IssueGrant(w)
  PROVE  ControlInv'
<1>1. /\ pc[w] = "issue"
      /\ grants' = grants \cup {[sid |-> sid[w], exp |-> clock + GrantTtl]}
      /\ pc' = [pc EXCEPT ![w] = "done"]
      /\ answer' = [answer EXCEPT ![w] = "200"]
      /\ UNCHANGED <<clock, active, opened, request, sid, usedOtp, prunedOtp, replayOrder, forgotten, sessionsOf, effects>>
  BY DEF IssueGrant, Issue, Answer, Goto
<1>2. sid[w] \in opened /\ sid[w] \in Sid /\ request[w].path # "logout"
  BY <1>1 DEF ControlInv, HandlersOK, HandlerOK, ControlTypeOK, AccessTypeOK
<1>3. [sid |-> sid[w], exp |-> clock + GrantTtl] \in Grant
  BY <1>2, AccessAssumption DEF ControlInv, ControlTypeOK, AccessTypeOK, Grant
<1>4. ControlTypeOK'
  BY <1>1, <1>3 DEF ControlInv, ControlTypeOK, AccessTypeOK, Stages, Answers
<1>5. \A v \in Threads : /\ pc'[v] = IF v = w THEN "done" ELSE pc[v]
                         /\ answer'[v] = IF v = w THEN "200" ELSE answer[v]
  BY <1>1 DEF ControlInv, ControlTypeOK
<1>6. HandlerOK(w)'
  BY <1>1, <1>2, <1>5 DEF HandlerOK, LoggedOut, Gated, Found, LoggingIn
<1>7. HandlersOK'
  BY <1>1, <1>5, <1>6, OtherHandlers DEF ControlInv
<1>8. EffectsOK'
  BY <1>1, <1>5, EffectsFrame DEF ControlInv
<1>9. LoginsOK'
  BY <1>1, <1>5, LoginsFrame DEF ControlInv, OtpSpent
<1> QED
  BY <1>4, <1>7, <1>8, <1>9 DEF ControlInv

-----------------------------------------------------------------------------
(* A request arrives at an idle handler.                                   *)
LEMMA ReceiveInv ==
  ASSUME ControlInv, NEW w \in Threads, NEW q, NEW stage,
         \/ q \in Call /\ stage = "verify"
         \/ q \in LoginCall /\ stage = "credentials",
         Receive(w, q, stage)
  PROVE  ControlInv'
<1>1. /\ pc[w] = "idle"
      /\ pc' = [pc EXCEPT ![w] = stage]
      /\ request' = [request EXCEPT ![w] = q]
      /\ UNCHANGED <<accessVars, sid, answer, usedOtp, prunedOtp, replayOrder, forgotten, sessionsOf, effects>>
  BY DEF Receive, Goto
<1>2. ControlTypeOK'
  <2>1. stage \in Stages
    BY DEF Stages
  <2>2. q \in Call \cup LoginCall \cup {NoCall}
    OBVIOUS
  <2> QED
    BY <1>1, <2>1, <2>2 DEF ControlInv, ControlTypeOK, AccessTypeOK, accessVars
<1>3. \A v \in Threads : /\ pc'[v] = IF v = w THEN stage ELSE pc[v]
                         /\ request'[v] = IF v = w THEN q ELSE request[v]
  BY <1>1 DEF ControlInv, ControlTypeOK
<1>4. HandlerOK(w)'
  BY <1>1, <1>3 DEF HandlerOK, LoggedOut, Gated, Found, LoggingIn
<1>5. HandlersOK'
  BY <1>1, <1>3, <1>4, OtherHandlers DEF ControlInv, accessVars
<1>6. EffectsOK'
  BY <1>1, <1>3, EffectsFrame DEF ControlInv
<1>7. LoginsOK'
  BY <1>1, <1>3, LoginsFrame DEF ControlInv, OtpSpent
<1> QED
  BY <1>2, <1>5, <1>6, <1>7 DEF ControlInv

LEMMA FinishInv ==
  ASSUME ControlInv, NEW w \in Threads, Finish(w)
  PROVE  ControlInv'
<1>1. /\ pc' = [pc EXCEPT ![w] = "idle"]
      /\ request' = [request EXCEPT ![w] = NoCall]
      /\ sid' = [sid EXCEPT ![w] = NoSid]
      /\ answer' = [answer EXCEPT ![w] = "none"]
      /\ UNCHANGED <<accessVars, usedOtp, prunedOtp, replayOrder, forgotten, sessionsOf, effects>>
  BY DEF Finish, Goto
<1>2. ControlTypeOK'
  BY <1>1 DEF ControlInv, ControlTypeOK, AccessTypeOK, accessVars, Stages, Answers
<1>3. \A v \in Threads : /\ pc'[v] = IF v = w THEN "idle" ELSE pc[v]
                         /\ v # w => /\ request'[v] = request[v] /\ sid'[v] = sid[v]
                                     /\ answer'[v] = answer[v]
  BY <1>1 DEF ControlInv, ControlTypeOK
<1>4. HandlerOK(w)'
  BY <1>3 DEF HandlerOK, LoggedOut, Gated, Found, LoggingIn
<1>5. HandlersOK'
  BY <1>1, <1>3, <1>4, OtherHandlers DEF ControlInv, accessVars
<1>6. EffectsOK'
  BY <1>1, <1>3, EffectsFrame DEF ControlInv
<1>7. LoginsOK'
  BY <1>1, <1>3, LoginsFrame DEF ControlInv, OtpSpent
<1> QED
  BY <1>2, <1>5, <1>6, <1>7 DEF ControlInv

(* Time passes or a session ends by age; or nothing happens.               *)
LEMMA EnvironmentInv ==
  ASSUME ControlInv, UNCHANGED controlVars,
         Advance \/ (\E s \in Sid : End(s)) \/ UNCHANGED accessVars
  PROVE  ControlInv'
<1>1. /\ opened' = opened /\ grants' = grants
      /\ active' \subseteq active
      /\ clock' \in {clock, clock + 1}
  BY DEF Advance, End, accessVars
<1>2. UNCHANGED <<pc, request, sid, answer, usedOtp, prunedOtp, replayOrder, forgotten, sessionsOf, effects>>
  BY DEF controlVars, handlerVars
<1>3. ControlTypeOK'
  BY <1>1, <1>2 DEF ControlInv, ControlTypeOK, AccessTypeOK
<1>4. HandlersOK'
  BY <1>1, <1>2 DEF ControlInv, HandlersOK, HandlerOK, LoggedOut
<1>5. EffectsOK'
  BY <1>2, EffectsFrame DEF ControlInv
<1>6. LoginsOK'
  BY <1>2, LoginsFrame DEF ControlInv
<1> QED
  BY <1>3, <1>4, <1>5, <1>6 DEF ControlInv

-----------------------------------------------------------------------------
LEMMA ControlInitInv == Init => ControlInv
<1> SUFFICES ASSUME Init PROVE ControlInv
  OBVIOUS
<1>1. ControlTypeOK
  BY DEF Init, AccessInit, ControlTypeOK, AccessTypeOK, Stages, Answers
<1>2. HandlersOK
  BY DEF Init, HandlersOK, HandlerOK, LoggedOut, Gated, Found, LoggingIn
<1>3. EffectsOK
  <2>1. /\ Len(replayOrder) = 0 /\ forgotten = {}
        /\ \A k \in Sid \X RequestId : effects[k] = 0
        /\ \A w \in Threads : pc[w] # "operate"
    BY DEF Init
  <2> QED
    BY <2>1, WindowAssumption DEF EffectsOK
<1>4. LoginsOK
  BY DEF Init, LoginsOK, OtpSpent
<1> QED
  BY <1>1, <1>2, <1>3, <1>4 DEF ControlInv

LEMMA ControlStepInv ==
  ASSUME ControlInv, NEW w \in Threads, Step(w)
  PROVE  ControlInv'
<1>1. ASSUME NEW status \in {"400", "401", "403", "dropped"}, Reject(w, status)
      PROVE  ControlInv'
  BY <1>1, RejectInv DEF Answers
<1>2. CASE \/ RejectBody(w) \/ RejectHeader(w) \/ DropToken(w) \/ RejectSession(w)
           \/ RejectProof(w) \/ RejectReplay(w) \/ HeartbeatExpired(w) \/ RejectLogin(w)
           \/ RejectPolicy(w) \/ CreateFailed(w)
  BY <1>1, <1>2 DEF RejectBody, RejectHeader, DropToken, RejectSession, RejectProof,
     RejectReplay, HeartbeatExpired, RejectLogin, RejectPolicy, CreateFailed
<1>3. CASE VerifyToken(w) \/ VerifyProof(w) \/ PolicyAllows(w)
  BY <1>3, MoveInv DEF VerifyToken, VerifyProof, PolicyAllows, Stages
<1>4. CASE \/ LookupSession(w) \/ ConsumeId(w) \/ Heartbeat(w) \/ Logout(w) \/ Resources(w)
           \/ RejectUsedOtp(w) \/ ConsumeOtp(w) \/ (\E s \in Sid : CreateSession(w, s)) \/ IssueGrant(w)
           \/ Finish(w)
  BY <1>4, LookupSessionInv, ConsumeIdInv, HeartbeatInv, LogoutInv, ResourcesInv,
     RejectUsedOtpInv, ConsumeOtpInv, CreateSessionInv, IssueGrantInv, FinishInv
<1> QED
  BY <1>2, <1>3, <1>4 DEF Step

LEMMA ControlNextInv == ControlInv /\ [Next]_vars => ControlInv'
<1> SUFFICES ASSUME ControlInv, [Next]_vars PROVE ControlInv'
  OBVIOUS
<1>1. ASSUME NEW w \in Threads, Step(w) PROVE ControlInv'
  BY <1>1, ControlStepInv
<1>2. ASSUME NEW w \in Threads, NEW o \in Otp,
             ReceiveLogin(w, [path |-> "login", otp |-> o])
      PROVE  ControlInv'
  <2>1. [path |-> "login", otp |-> o] \in LoginCall
    BY DEF LoginCall
  <2> QED
    BY <1>2, <2>1, ReceiveInv DEF ReceiveLogin
<1>3. ASSUME NEW w \in Threads, NEW p \in Paths, NEW g \in grants, NEW r \in RequestId,
             NEW ts \in Timestamps,
             ReceiveCall(w, [path |-> p, grant |-> g, rid |-> r, timestamp |-> ts])
      PROVE  ControlInv'
  <2>1. g \in Grant /\ ts \in Int
    BY ControlAssumption DEF Timestamps, ControlInv, ControlTypeOK, AccessTypeOK
  <2>2. [path |-> p, grant |-> g, rid |-> r, timestamp |-> ts] \in Call
    BY <2>1 DEF Call
  <2> QED
    BY <1>3, <2>2, ReceiveInv DEF ReceiveCall
<1>4. ASSUME (Advance \/ \E s \in Sid : End(s)) /\ UNCHANGED controlVars PROVE ControlInv'
  BY <1>4, EnvironmentInv
<1>5. ASSUME UNCHANGED vars PROVE ControlInv'
  BY <1>5, EnvironmentInv DEF vars
<1> QED
  BY <1>1, <1>2, <1>3, <1>4, <1>5 DEF Next

LEMMA ControlInvariant == Spec => []ControlInv
  BY ControlInitInv, ControlNextInv, PTL DEF Spec

(* Handlers' requests, sessions and answers keep their form, for any       *)
(* number of threads.                                                      *)
THEOREM ControlTyped == Spec => []ControlTypeOK
<1>1. ControlInv => ControlTypeOK
  BY DEF ControlInv
<1> QED
  BY <1>1, ControlInvariant, PTL

(* A signed request runs its operation once, however many copies of it     *)
(* are in the handlers, until consume_control_request_id() forgets its id; *)
(* and it forgets none before MAX_CONTROL_REPLAY_IDS are in its list.      *)
THEOREM RequestsRunOnce == Spec => []EffectOnce
<1>1. ControlInv => EffectOnce
  BY DEF ControlInv, EffectsOK, EffectOnce
<1> QED
  BY <1>1, ControlInvariant, PTL

(* A one-time code opens one session at most until it is pruned: the code  *)
(* is consumed before the policy and the store are asked, and stays so if  *)
(* they refuse.                                                            *)
THEOREM LoginsOpenOnce == Spec => []LoginOncePerOtp
<1>1. ControlInv => LoginOncePerOtp
  BY DEF ControlInv, LoginsOK, LoginOncePerOtp
<1> QED
  BY <1>1, ControlInvariant, PTL

(* When a logout is answered with 200 its session has ended and stays so.  *)
THEOREM LogoutIsFinal == Spec => []LogoutFinal
<1>1. ControlInv => LogoutFinal
  BY DEF ControlInv, HandlersOK, HandlerOK, LoggedOut, LogoutFinal
<1> QED
  BY <1>1, ControlInvariant, PTL

-----------------------------------------------------------------------------
(* Every step of a handler is a step of Access or leaves its state alone.  *)
(* That a grant is issued for a session that was opened, and that Logout   *)
(* ends at most an active one, is what the invariant is needed for.        *)
LEMMA StepRefines ==
  ASSUME ControlInv, [Next]_vars
  PROVE  [AccessNext]_accessVars
<1>1. ASSUME NEW w \in Threads, Step(w) PROVE [AccessNext]_accessVars
  <2>1. CASE Logout(w)
    <3>1. sid[w] \in Sid
      BY <2>1 DEF Logout, ControlInv, HandlersOK, HandlerOK, Found, ControlTypeOK, AccessTypeOK
    <3>2. CASE sid[w] \in active
      BY <2>1, <3>1, <3>2 DEF Logout, AccessNext, End
    <3>3. CASE sid[w] \notin active
      <4>1. active' = active
        BY <2>1, <3>3 DEF Logout
      <4> QED
        BY <2>1, <4>1 DEF Logout, accessVars
    <3> QED
      BY <3>2, <3>3
  <2>2. CASE \E s \in Sid : CreateSession(w, s)
    BY <2>2 DEF CreateSession, AccessNext
  <2>3. CASE IssueGrant(w)
    <3>1. sid[w] \in Sid
      BY <2>3 DEF IssueGrant, ControlInv, HandlersOK, HandlerOK, ControlTypeOK, AccessTypeOK
    <3> QED
      BY <2>3, <3>1 DEF IssueGrant, AccessNext
  <2>4. CASE ~Logout(w) /\ ~(\E s \in Sid : CreateSession(w, s)) /\ ~IssueGrant(w)
    BY <1>1, <2>4 DEF Step, RejectBody, RejectHeader, DropToken, VerifyToken, RejectSession,
       LookupSession, RejectProof, VerifyProof, RejectReplay, ConsumeId, Heartbeat,
       HeartbeatExpired, Resources, RejectLogin, RejectUsedOtp, ConsumeOtp, RejectPolicy,
       PolicyAllows, CreateFailed, Finish, Reject, Move
  <2> QED
    BY <2>1, <2>2, <2>3, <2>4
<1>2. ASSUME NEW w, NEW q, ReceiveLogin(w, q) \/ ReceiveCall(w, q) PROVE UNCHANGED accessVars
  BY <1>2 DEF ReceiveLogin, ReceiveCall, Receive
<1>3. CASE (Advance \/ \E s \in Sid : End(s)) /\ UNCHANGED controlVars
  BY <1>3 DEF AccessNext
<1>4. CASE UNCHANGED vars
  BY <1>4 DEF vars
<1> QED
  BY <1>1, <1>2, <1>3, <1>4 DEF Next

(* The handlers implement Access: sessions open once, end once and never   *)
(* come back, and grants name sessions that were opened.  What is shown of *)
(* the gateway and the client against Access thus holds against the        *)
(* control plane.                                                          *)
THEOREM ControlImplementsAccess == Spec => ImplementsAccess
<1>1. Init => AccessInit
  BY DEF Init
<1>2. ControlInv /\ [Next]_vars => [AccessNext]_accessVars
  BY StepRefines
<1> QED
  BY <1>1, <1>2, ControlInvariant, PTL DEF Spec, ImplementsAccess, AccessSpec
=============================================================================
