------------------------------- MODULE OtpGuard -------------------------------
(***************************************************************************)
(* ControlPlane.consume_otp with auth.matching_totp_step: a login's TOTP   *)
(* counter is matched against one reading of the clock, the set of used    *)
(* counters is pruned around a second reading, taken before the lock.      *)
(* Time is counted in 30-second steps, the resolution of the code.         *)
(***************************************************************************)
EXTENDS Integers

CONSTANTS Threads, Codes,
          Totp(_),     \* the code of a counter (HMAC of the shared secret)
          MatchSlip,   \* steps that may pass between the two clock readings
          LockSlip,    \* steps that may pass between the second and the lock
          MaxStep,     \* bound on the clock
          MaxUses      \* bound on the history counters

ASSUME OtpAssumption ==
  /\ MatchSlip \in Nat /\ LockSlip \in Nat
  /\ MaxStep \in Nat \ {0} /\ MaxUses \in Nat

ASSUME TotpAssumption == \A k \in 0..(MaxStep + 1) : Totp(k) \in Codes

VARIABLES timeStep,   \* int(time.time() // 30)
          usedSteps,  \* _used_otp_steps
          pc,         \* "idle", "matched", "timed"
          step,       \* the counter matching_totp_step returned
          current,    \* the clock reading that is next compared with
          uses        \* history: how often a counter was consumed

otpVars == <<timeStep, usedSteps, pc, step, current, uses>>

Counters == 0..(MaxStep + 1)

OtpTypeOK ==
  /\ timeStep \in 1..MaxStep
  /\ usedSteps \in SUBSET Counters
  /\ pc \in [Threads -> {"idle", "matched", "timed"}]
  /\ step \in [Threads -> Counters]
  /\ current \in [Threads -> 0..MaxStep]
  /\ uses \in [Counters -> 0..MaxUses]

OtpInit ==
  /\ timeStep = 1
  /\ usedSteps = {}
  /\ pc = [t \in Threads |-> "idle"]
  /\ step = [t \in Threads |-> 0]
  /\ current = [t \in Threads |-> 0]
  /\ uses = [k \in Counters |-> 0]

(* The first counter of the window (-1, 0, +1) whose code is the supplied  *)
(* one; none if no code of the window matches.                             *)
Matches(code, now) == {k \in (now - 1)..(now + 1) : Totp(k) = code}
FirstMatch(code, now) ==
  CHOOSE k \in Matches(code, now) : \A j \in Matches(code, now) : k <= j

MatchOtp(t, code) ==
  /\ pc[t] = "idle"
  /\ Matches(code, timeStep) # {}
  /\ pc' = [pc EXCEPT ![t] = "matched"]
  /\ step' = [step EXCEPT ![t] = FirstMatch(code, timeStep)]
  /\ current' = [current EXCEPT ![t] = timeStep]
  /\ UNCHANGED <<timeStep, usedSteps, uses>>

ReadCurrent(t) ==
  /\ pc[t] = "matched"
  /\ pc' = [pc EXCEPT ![t] = "timed"]
  /\ current' = [current EXCEPT ![t] = timeStep]
  /\ UNCHANGED <<timeStep, usedSteps, step, uses>>

Return(t) ==
  /\ pc' = [pc EXCEPT ![t] = "idle"]
  /\ step' = [step EXCEPT ![t] = 0]
  /\ current' = [current EXCEPT ![t] = 0]

(* Mutant: the oldest matching counter is forgotten one step too early.    *)
RecentNarrow(t) == usedSteps \cap {current[t] - 1, current[t], current[t] + 1}

(* The counters that survive intersection_update.                          *)
Recent(t) == usedSteps \cap {current[t] - 2, current[t] - 1, current[t], current[t] + 1}

RefuseUsed(t) ==
  /\ pc[t] = "timed"
  /\ step[t] \in Recent(t)
  /\ usedSteps' = Recent(t)
  /\ Return(t)
  /\ UNCHANGED <<timeStep, uses>>

(* Mutant: the set keeps every counter it has ever seen.                   *)
ConsumeKeepsAll(t) ==
  /\ pc[t] = "timed"
  /\ step[t] \notin usedSteps
  /\ usedSteps' = usedSteps \cup {step[t]}
  /\ uses' = [uses EXCEPT ![step[t]] = @ + 1]
  /\ Return(t)
  /\ UNCHANGED timeStep

ConsumeOtp(t) ==
  /\ pc[t] = "timed"
  /\ step[t] \notin Recent(t)
  /\ uses[step[t]] < MaxUses
  /\ usedSteps' = Recent(t) \cup {step[t]}
  /\ uses' = [uses EXCEPT ![step[t]] = @ + 1]
  /\ Return(t)
  /\ UNCHANGED timeStep

(* Time passes; a login is at most so slow between its steps.              *)
NextTimeStep ==
  /\ timeStep < MaxStep
  /\ \A t \in Threads :
       /\ pc[t] = "matched" => timeStep < current[t] + MatchSlip
       /\ pc[t] = "timed" => timeStep < current[t] + LockSlip
  /\ timeStep' = timeStep + 1
  /\ UNCHANGED <<usedSteps, pc, step, current, uses>>

OtpNext ==
  \/ \E t \in Threads, code \in Codes : MatchOtp(t, code)
  \/ \E t \in Threads : ReadCurrent(t) \/ RefuseUsed(t) \/ ConsumeOtp(t)
  \/ NextTimeStep

OtpSpec == OtpInit /\ [][OtpNext]_otpVars

-----------------------------------------------------------------------------
(* The docstring of consume_otp: a TOTP counter is consumed once, although *)
(* the set of used counters is pruned and logins run concurrently.         *)
ConsumedOnce == \A k \in Counters : uses[k] <= 1

(* The set of used counters does not grow with the number of logins: it    *)
(* never names counters more than three steps apart.                       *)
UsedStepsBounded == \A j, k \in usedSteps : j - k <= 3
=============================================================================
