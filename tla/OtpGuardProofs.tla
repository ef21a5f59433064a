---------------------------- MODULE OtpGuardProofs ----------------------------
(***************************************************************************)
(* ConsumedOnce for any number of logins and any codes, provided that at   *)
(* most one 30-second step passes between the two clock readings of a      *)
(* login and none between the second one and the lock.                     *)
(***************************************************************************)
EXTENDS OtpGuard, TLAPS

(* Where a login under way stands relative to the clock.                   *)
InStep ==
  \A t \in Threads :
    /\ pc[t] = "matched" => /\ current[t] <= timeStep /\ timeStep <= current[t] + 1
                            /\ step[t] >= current[t] - 1
                            /\ step[t] <= current[t] + 1
    /\ pc[t] = "timed" => /\ current[t] = timeStep
                          /\ step[t] >= timeStep - 2
                          /\ step[t] <= timeStep + 1

(* A consumed counter that some login can still present is remembered.     *)
Remembered ==
  /\ \A k \in usedSteps : k <= timeStep + 1
  /\ \A k \in Counters : uses[k] >= 1 /\ k >= timeStep - 2 => k \in usedSteps

OtpInv == OtpTypeOK /\ InStep /\ Remembered /\ ConsumedOnce

(* The window has a first matching counter whenever it has one at all.     *)
LEMMA FirstMatchInWindow ==
  ASSUME NEW code, NEW now \in Nat, Matches(code, now) # {}
  PROVE  FirstMatch(code, now) \in (now - 1)..(now + 1)
<1> DEFINE M == Matches(code, now)
<1>1. \A k \in M : k \in (now - 1)..(now + 1)
  BY DEF Matches
<1>2. \E k \in M : \A j \in M : k <= j
  <2>1. CASE now - 1 \in M
    BY <2>1, <1>1
  <2>2. CASE now - 1 \notin M /\ now \in M
    <3>1. \A j \in M : now <= j
      BY <2>2, <1>1
    <3> QED
      BY <2>2, <3>1
  <2>3. CASE now - 1 \notin M /\ now \notin M
    <3>1. \A j \in M : j = now + 1
      BY <2>3, <1>1
    <3> QED
      BY <3>1
  <2> QED
    BY <2>1, <2>2, <2>3
<1> HIDE DEF M
<1>3. (CHOOSE k \in M : \A j \in M : k <= j) \in M
  BY <1>2
<1> QED
  BY <1>1, <1>3 DEF FirstMatch, M

(* The effect of matching a code, without the choice of the counter.       *)
LEMMA MatchOtpEffect ==
  ASSUME OtpTypeOK, NEW t \in Threads, NEW code \in Codes, MatchOtp(t, code)
  PROVE  \E k \in (timeStep - 1)..(timeStep + 1) :
            /\ pc' = [pc EXCEPT ![t] = "matched"]
            /\ step' = [step EXCEPT ![t] = k]
            /\ current' = [current EXCEPT ![t] = timeStep]
            /\ timeStep' = timeStep /\ usedSteps' = usedSteps /\ uses' = uses
<1>1. timeStep \in Nat
  BY OtpAssumption DEF OtpTypeOK
<1>2. Matches(code, timeStep) # {}
  BY DEF MatchOtp
<1>3. FirstMatch(code, timeStep) \in (timeStep - 1)..(timeStep + 1)
  BY <1>1, <1>2, FirstMatchInWindow, Zenon
<1> QED
  BY <1>3, Zenon DEF MatchOtp

(* With the two timing assumptions every step preserves the invariant.     *)
LEMMA OtpStep ==
  ASSUME MatchSlip <= 1, LockSlip = 0, OtpInv, [OtpNext]_otpVars
  PROVE  OtpInv'
<1>0. /\ MaxStep \in Nat /\ MaxUses \in Nat /\ MatchSlip \in Nat
      /\ OtpTypeOK /\ InStep /\ Remembered /\ ConsumedOnce
  BY OtpAssumption DEF OtpInv
<1>1. ASSUME NEW t \in Threads, NEW code \in Codes, MatchOtp(t, code)
      PROVE  OtpInv'
  <2>1. PICK k \in (timeStep - 1)..(timeStep + 1) :
            /\ pc' = [pc EXCEPT ![t] = "matched"]
            /\ step' = [step EXCEPT ![t] = k]
            /\ current' = [current EXCEPT ![t] = timeStep]
            /\ timeStep' = timeStep /\ usedSteps' = usedSteps /\ uses' = uses
    BY <1>0, <1>1, MatchOtpEffect
  <2>2. k \in Int /\ k >= timeStep - 1 /\ k <= timeStep + 1 /\ k \in Counters
    BY <1>0 DEF OtpTypeOK, Counters
  <2>3. OtpTypeOK'
    BY <1>0, <2>1, <2>2 DEF OtpTypeOK
  <2>4. InStep'
    BY <1>0, <2>1, <2>2 DEF OtpTypeOK, InStep
  <2>5. Remembered' /\ ConsumedOnce'
    BY <1>0, <2>1 DEF Remembered, ConsumedOnce
  <2> QED
    BY <2>3, <2>4, <2>5 DEF OtpInv
<1>2. ASSUME NEW t \in Threads, ReadCurrent(t)
      PROVE  OtpInv'
  <2>1. OtpTypeOK'
    BY <1>0, <1>2 DEF OtpTypeOK, ReadCurrent
  <2>2. InStep'
    BY <1>0, <1>2, SMTT(30) DEF OtpTypeOK, InStep, Counters, ReadCurrent
  <2>3. Remembered' /\ ConsumedOnce'
    BY <1>0, <1>2 DEF OtpTypeOK, InStep, Remembered, ConsumedOnce, Counters, ReadCurrent
  <2> QED
    BY <2>1, <2>2, <2>3 DEF OtpInv
<1>3. ASSUME NEW t \in Threads, RefuseUsed(t)
      PROVE  OtpInv'
  <2>0. /\ 0 \in Counters /\ 0 \in 0..MaxStep
        /\ usedSteps' = Recent(t) /\ Recent(t) \subseteq usedSteps
    BY <1>0, <1>3 DEF Counters, RefuseUsed, Recent
  <2>1. OtpTypeOK'
    BY <1>0, <1>3, <2>0 DEF OtpTypeOK, RefuseUsed, Return
  <2>2. InStep'
    BY <1>0, <1>3 DEF OtpTypeOK, InStep, Counters, RefuseUsed, Return, Recent
  <2>3. Remembered' /\ ConsumedOnce'
    <3>1. current[t] = timeStep /\ timeStep \in Int /\ timeStep' = timeStep /\ uses' = uses
      BY <1>0, <1>3 DEF OtpTypeOK, InStep, RefuseUsed
    <3>2. ASSUME NEW j \in Counters, uses[j] >= 1, j >= timeStep - 2
          PROVE  j \in Recent(t)
      <4>1. j \in usedSteps /\ j \in Int /\ j <= timeStep + 1
        BY <1>0, <3>2 DEF Remembered, Counters
      <4> QED
        BY <4>1, <3>1, <3>2 DEF Recent
    <3> QED
      BY <1>0, <2>0, <3>1, <3>2 DEF Remembered, ConsumedOnce
  <2> QED
    BY <2>1, <2>2, <2>3 DEF OtpInv
<1>4. ASSUME NEW t \in Threads, ConsumeOtp(t)
      PROVE  OtpInv'
  <2> DEFINE k == step[t]
  <2>1. /\ k \in Counters /\ k \in Int /\ timeStep \in Int
        /\ k >= timeStep - 2 /\ k <= timeStep + 1
        /\ current[t] = timeStep /\ k \notin Recent(t)
    BY <1>0, <1>4 DEF OtpTypeOK, InStep, Counters, ConsumeOtp
  <2>2. k \notin usedSteps
    BY <2>1 DEF Recent
  <2>3. uses[k] = 0
    BY <1>0, <2>1, <2>2 DEF OtpTypeOK, Remembered
  <2>4. uses' = [uses EXCEPT ![k] = 1] /\ MaxUses >= 1
    BY <1>0, <1>4, <2>3 DEF ConsumeOtp
  <2>5. /\ usedSteps' = Recent(t) \cup {k}
        /\ Recent(t) \subseteq usedSteps
        /\ timeStep' = timeStep
    BY <1>4 DEF ConsumeOtp, Recent
  <2>6. OtpTypeOK'
    <3>1. 0 \in Counters /\ 0 \in 0..MaxStep /\ 1 \in 0..MaxUses
      BY <1>0, <2>4 DEF Counters
    <3>2. usedSteps' \in SUBSET Counters /\ uses' \in [Counters -> 0..MaxUses]
      BY <1>0, <2>1, <2>4, <2>5, <3>1 DEF OtpTypeOK
    <3>3. /\ pc' \in [Threads -> {"idle", "matched", "timed"}]
          /\ step' \in [Threads -> Counters]
          /\ current' \in [Threads -> 0..MaxStep]
      BY <1>0, <1>4, <3>1 DEF OtpTypeOK, ConsumeOtp, Return
    <3> QED
      BY <1>0, <2>5, <3>2, <3>3 DEF OtpTypeOK
  <2>7. InStep'
    BY <1>0, <1>4 DEF OtpTypeOK, InStep, ConsumeOtp, Return
  <2>8. ConsumedOnce'
    BY <1>0, <2>4 DEF OtpTypeOK, ConsumedOnce
  <2>9. Remembered'
    <3>1. \A j \in usedSteps' : j <= timeStep' + 1
      BY <1>0, <2>1, <2>5 DEF Remembered
    <3>2. ASSUME NEW j \in Counters, uses'[j] >= 1, j >= timeStep' - 2
          PROVE  j \in usedSteps'
      <4>1. CASE j = k
        BY <4>1, <2>5
      <4>2. CASE j # k
        <5>1. j \in usedSteps
          BY <1>0, <3>2, <4>2, <2>4, <2>5 DEF OtpTypeOK, Remembered
        <5>2. j \in Int /\ j <= timeStep + 1 /\ j >= timeStep - 2
          BY <1>0, <5>1, <3>2, <2>5 DEF Remembered, Counters
        <5> QED
          BY <5>1, <5>2, <2>1, <2>5 DEF Recent
      <4> QED
        BY <4>1, <4>2
    <3> QED
      BY <3>1, <3>2 DEF Remembered
  <2> QED
    BY <2>6, <2>7, <2>8, <2>9 DEF OtpInv
<1>5. ASSUME NextTimeStep
      PROVE  OtpInv'
  <2>1. OtpTypeOK'
    BY <1>0, <1>5 DEF OtpTypeOK, NextTimeStep
  <2>2. InStep'
    <3> SUFFICES ASSUME NEW u \in Threads
                 PROVE  /\ pc[u] = "matched" => /\ current[u] <= timeStep' /\ timeStep' <= current[u] + 1
                                                /\ step[u] >= current[u] - 1
                                                /\ step[u] <= current[u] + 1
                        /\ pc[u] # "timed"
      BY <1>5 DEF InStep, NextTimeStep
    <3>1. timeStep \in Int /\ timeStep' = timeStep + 1 /\ current[u] \in Int
      BY <1>0, <1>5 DEF OtpTypeOK, NextTimeStep
    <3>2. pc[u] = "matched" => timeStep < current[u] + 1
      BY <1>0, <1>5, <3>1 DEF NextTimeStep
    <3>3. pc[u] = "timed" => timeStep < current[u]
      BY <1>5, <3>1 DEF NextTimeStep
    <3> QED
      BY <1>0, <3>1, <3>2, <3>3 DEF InStep
  <2>3. Remembered' /\ ConsumedOnce'
    BY <1>0, <1>5 DEF OtpTypeOK, InStep, Remembered, ConsumedOnce, Counters, NextTimeStep
  <2> QED
    BY <2>1, <2>2, <2>3 DEF OtpInv
<1>6. ASSUME UNCHANGED otpVars PROVE OtpInv'
  BY <1>0, <1>6 DEF otpVars, OtpInv, OtpTypeOK, InStep, Remembered, ConsumedOnce
<1> QED
  BY <1>1, <1>2, <1>3, <1>4, <1>5, <1>6 DEF OtpNext

(* The docstring of consume_otp holds for every number of concurrent       *)
(* logins, every secret and every length of run under the two timing       *)
(* assumptions; OtpGuardRace.cfg shows that the second one is needed.      *)
THEOREM OtpConsumedOnce ==
  MatchSlip <= 1 /\ LockSlip = 0 => (OtpSpec => []ConsumedOnce)
<1> SUFFICES ASSUME MatchSlip <= 1, LockSlip = 0
             PROVE  OtpSpec => []ConsumedOnce
  OBVIOUS
<1>1. OtpInit => OtpInv
  BY OtpAssumption DEF OtpInit, OtpInv, OtpTypeOK, InStep, Remembered, ConsumedOnce, Counters
<1>2. OtpInv /\ [OtpNext]_otpVars => OtpInv'
  BY OtpStep
<1>3. OtpInv => ConsumedOnce
  BY DEF OtpInv
<1> QED
  BY <1>1, <1>2, <1>3, PTL DEF OtpSpec

-----------------------------------------------------------------------------
(* A login presents a counter near the reading it prunes with, however     *)
(* long it then waits for the lock.                                        *)
NearReading ==
  \A t \in Threads :
    /\ pc[t] = "matched" => /\ current[t] <= timeStep /\ timeStep <= current[t] + 1
                            /\ step[t] >= current[t] - 1
                            /\ step[t] <= current[t] + 1
    /\ pc[t] = "timed" => /\ step[t] >= current[t] - 2
                          /\ step[t] <= current[t] + 1

PruneInv == OtpTypeOK /\ NearReading /\ UsedStepsBounded

LEMMA PruneStep ==
  ASSUME MatchSlip <= 1, PruneInv, [OtpNext]_otpVars
  PROVE  PruneInv'
<1>0. /\ MaxStep \in Nat /\ MaxUses \in Nat /\ MatchSlip \in Nat /\ LockSlip \in Nat
      /\ OtpTypeOK /\ NearReading /\ UsedStepsBounded
      /\ 0 \in Counters /\ 0 \in 0..MaxStep
  BY OtpAssumption DEF PruneInv, Counters
<1>1. ASSUME NEW t \in Threads, NEW code \in Codes, MatchOtp(t, code)
      PROVE  PruneInv'
  <2>1. PICK k \in (timeStep - 1)..(timeStep + 1) :
            /\ pc' = [pc EXCEPT ![t] = "matched"]
            /\ step' = [step EXCEPT ![t] = k]
            /\ current' = [current EXCEPT ![t] = timeStep]
            /\ timeStep' = timeStep /\ usedSteps' = usedSteps /\ uses' = uses
    BY <1>0, <1>1, MatchOtpEffect
  <2>2. k \in Int /\ k >= timeStep - 1 /\ k <= timeStep + 1 /\ k \in Counters
    BY <1>0 DEF OtpTypeOK, Counters
  <2>3. OtpTypeOK'
    BY <1>0, <2>1, <2>2 DEF OtpTypeOK
  <2>4. NearReading'
    BY <1>0, <2>1, <2>2 DEF OtpTypeOK, NearReading
  <2>5. UsedStepsBounded'
    BY <1>0, <2>1 DEF UsedStepsBounded
  <2> QED
    BY <2>3, <2>4, <2>5 DEF PruneInv
<1>2. ASSUME NEW t \in Threads, ReadCurrent(t)
      PROVE  PruneInv'
  <2>1. OtpTypeOK'
    BY <1>0, <1>2 DEF OtpTypeOK, ReadCurrent
  <2>2. NearReading'
    BY <1>0, <1>2, SMTT(30) DEF OtpTypeOK, NearReading, Counters, ReadCurrent
  <2>3. UsedStepsBounded'
    BY <1>0, <1>2 DEF UsedStepsBounded, ReadCurrent
  <2> QED
    BY <2>1, <2>2, <2>3 DEF PruneInv
<1>3. ASSUME NEW t \in Threads, RefuseUsed(t) \/ ConsumeOtp(t)
      PROVE  PruneInv'
  <2>1. /\ step[t] \in Counters /\ step[t] \in Int /\ current[t] \in Int
        /\ step[t] >= current[t] - 2 /\ step[t] <= current[t] + 1
    BY <1>0, <1>3 DEF OtpTypeOK, NearReading, Counters, RefuseUsed, ConsumeOtp
  <2>2. /\ usedSteps' \subseteq Recent(t) \cup {step[t]}
        /\ Recent(t) \subseteq usedSteps
        /\ Return(t) /\ timeStep' = timeStep
    BY <1>3 DEF RefuseUsed, ConsumeOtp, Recent
  <2>3. uses' \in [Counters -> 0..MaxUses]
    <3>1. CASE RefuseUsed(t)
      BY <1>0, <3>1 DEF OtpTypeOK, RefuseUsed
    <3>2. CASE ConsumeOtp(t)
      <4>1. uses[step[t]] + 1 \in 0..MaxUses /\ uses' = [uses EXCEPT ![step[t]] = uses[step[t]] + 1]
        BY <1>0, <2>1, <3>2 DEF OtpTypeOK, ConsumeOtp
      <4> QED
        BY <1>0, <2>1, <4>1 DEF OtpTypeOK
    <3> QED
      BY <1>3, <3>1, <3>2
  <2>4. OtpTypeOK'
    <3>1. usedSteps' \in SUBSET Counters
      BY <1>0, <2>1, <2>2 DEF OtpTypeOK
    <3>2. /\ pc' \in [Threads -> {"idle", "matched", "timed"}]
          /\ step' \in [Threads -> Counters]
          /\ current' \in [Threads -> 0..MaxStep]
      BY <1>0, <2>2 DEF OtpTypeOK, Return
    <3> QED
      BY <1>0, <2>2, <2>3, <3>1, <3>2 DEF OtpTypeOK
  <2>5. NearReading'
    BY <1>0, <2>2 DEF OtpTypeOK, NearReading, Return
  <2>6. UsedStepsBounded'
    <3>1. \A k \in Recent(t) \cup {step[t]} :
            k \in Int /\ k >= current[t] - 2 /\ k <= current[t] + 1
      BY <2>1 DEF Recent
    <3>2. \A j, k \in Recent(t) \cup {step[t]} : j - k <= 3
      BY <3>1, <2>1
    <3> QED
      BY <2>2, <3>2 DEF UsedStepsBounded
  <2> QED
    BY <2>4, <2>5, <2>6 DEF PruneInv
<1>4. ASSUME NextTimeStep
      PROVE  PruneInv'
  <2>1. OtpTypeOK'
    BY <1>0, <1>4 DEF OtpTypeOK, NextTimeStep
  <2>2. NearReading'
    <3> SUFFICES ASSUME NEW u \in Threads
                 PROVE  /\ pc[u] = "matched" => /\ current[u] <= timeStep' /\ timeStep' <= current[u] + 1
                                                /\ step[u] >= current[u] - 1
                                                /\ step[u] <= current[u] + 1
                        /\ pc[u] = "timed" => /\ step[u] >= current[u] - 2
                                              /\ step[u] <= current[u] + 1
      BY <1>4 DEF NearReading, NextTimeStep
    <3>1. timeStep \in Int /\ timeStep' = timeStep + 1 /\ current[u] \in Int
      BY <1>0, <1>4 DEF OtpTypeOK, NextTimeStep
    <3>2. pc[u] = "matched" => timeStep < current[u] + 1
      BY <1>0, <1>4, <3>1 DEF NextTimeStep
    <3> QED
      BY <1>0, <3>1, <3>2 DEF NearReading
  <2>3. UsedStepsBounded'
    BY <1>0, <1>4 DEF UsedStepsBounded, NextTimeStep
  <2> QED
    BY <2>1, <2>2, <2>3 DEF PruneInv
<1>5. ASSUME UNCHANGED otpVars PROVE PruneInv'
  BY <1>0, <1>5 DEF otpVars, PruneInv, OtpTypeOK, NearReading, UsedStepsBounded
<1> QED
  BY <1>1, <1>2, <1>3, <1>4, <1>5 DEF OtpNext

(* The set of used counters never spans more than three steps, so it holds *)
(* at most four, whatever the number of logins.  Unlike OtpConsumedOnce    *)
(* this needs no bound on the wait for the lock, only that at most one     *)
(* step passes between the two clock readings.                             *)
THEOREM UsedStepsStayBounded ==
  MatchSlip <= 1 => (OtpSpec => []UsedStepsBounded)
<1> SUFFICES ASSUME MatchSlip <= 1
             PROVE  OtpSpec => []UsedStepsBounded
  OBVIOUS
<1>1. OtpInit => PruneInv
  BY OtpAssumption DEF OtpInit, PruneInv, OtpTypeOK, NearReading, UsedStepsBounded, Counters
<1>2. PruneInv /\ [OtpNext]_otpVars => PruneInv'
  BY PruneStep
<1>3. PruneInv => UsedStepsBounded
  BY DEF PruneInv
<1> QED
  BY <1>1, <1>2, <1>3, PTL DEF OtpSpec
=============================================================================
