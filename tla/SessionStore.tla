----------------------------- MODULE SessionStore -----------------------------
(***************************************************************************)
(* labztna/session.py: the session table shared by the control plane and   *)
(* the gateway, on top of the address pool of ipam.py.  Handler threads    *)
(* call create, get_active, heartbeat and revoke concurrently.  A method   *)
(* reads the clock before it takes the store's lock, leaves the lock       *)
(* before it calls the pool, and takes it again before it returns: each    *)
(* critical section is one action and the local variables live in between. *)
(* Subject and posture never change after create() and are left out.       *)
(***************************************************************************)
EXTENDS VirtualIPPool, Integers

CONSTANTS Threads, NoId,
          TtlSeconds, AbsoluteTtlSeconds, IdleSeconds,
          MaxTime      \* bound on the clock

(* The constructor's checks; its lower bounds of 30 s and 15 s scale to 1. *)
ASSUME StoreAssumption ==
  /\ NoId \notin SessionId
  /\ TtlSeconds \in Nat /\ AbsoluteTtlSeconds \in Nat /\ IdleSeconds \in Nat
  /\ 1 <= IdleSeconds /\ IdleSeconds <= TtlSeconds
  /\ TtlSeconds <= AbsoluteTtlSeconds
  /\ MaxTime \in Nat

VARIABLES clock,       \* time.time()
          session,     \* the Session objects; generation 0: not created yet
          stored,      \* keys of _sessions
          generation,  \* _lease_generation
          heard,       \* history: the newest clock reading written for a session
          lag,         \* history: the longest a heartbeat on it took to be written
          pc,          \* where each thread is
          arg,         \* the session_id it works on
          now,         \* the clock reading it took before locking
          pending      \* ids it has popped and not yet released to the pool

storeVars == <<clock, session, stored, generation, heard, lag>>
threadVars == <<pc, arg, now, pending>>
vars == <<poolVars, storeVars, threadVars>>

Session == [virtual_ip : Hosts \cup {NoIP}, lease_generation : Nat,
            expires_at : Nat, absolute_expires_at : Nat,
            last_seen : Nat, revoked : BOOLEAN]

NoSession == [virtual_ip |-> NoIP, lease_generation |-> 0, expires_at |-> 0,
              absolute_expires_at |-> 0, last_seen |-> 0, revoked |-> FALSE]

Labels == {"idle", "scavenge", "reclaim", "allocate", "insert",
           "get_check", "heartbeat_check", "release", "reread"}

Creating == {"scavenge", "reclaim", "allocate", "insert"}

TypeOK ==
  /\ PoolTypeOK
  /\ clock \in Nat
  /\ session \in [SessionId -> Session]
  /\ stored \in SUBSET SessionId
  /\ generation \in Nat
  /\ heard \in [SessionId -> Nat]
  /\ lag \in [SessionId -> Int]
  /\ pc \in [Threads -> Labels]
  /\ arg \in [Threads -> SessionId \cup {NoId}]
  /\ now \in [Threads -> Nat]
  /\ pending \in [Threads -> SUBSET SessionId]

Init ==
  /\ PoolInit
  /\ clock = 0
  /\ session = [s \in SessionId |-> NoSession]
  /\ stored = {}
  /\ generation = 0
  /\ heard = [s \in SessionId |-> 0]
  /\ lag = [s \in SessionId |-> 0]
  /\ pc = [t \in Threads |-> "idle"]
  /\ arg = [t \in Threads |-> NoId]
  /\ now = [t \in Threads |-> 0]
  /\ pending = [t \in Threads |-> {}]

Created(s) == session[s].lease_generation > 0

(* Mutant: a session dies when its idle time is reached, not exceeded.     *)
ExpiredAtDeadline(s, n) ==
  \/ session[s].revoked
  \/ session[s].expires_at <= n
  \/ session[s].absolute_expires_at <= n
  \/ session[s].last_seen + IdleSeconds <= n

(* Mutant: only the idle timeout is tested.                                *)
ExpiredIdleOnly(s, n) ==
  session[s].revoked \/ session[s].last_seen + IdleSeconds < n

(* The expiry test that get_active, heartbeat and scavenge share.          *)
Expired(s, n) ==
  \/ session[s].revoked
  \/ session[s].expires_at < n
  \/ session[s].absolute_expires_at < n
  \/ session[s].last_seen + IdleSeconds < n

Goto(t, label) == pc' = [pc EXCEPT ![t] = label]

(* The call is over: the thread forgets its locals.                        *)
Return(t) ==
  /\ Goto(t, "idle")
  /\ arg' = [arg EXCEPT ![t] = NoId]
  /\ now' = [now EXCEPT ![t] = 0]
  /\ pending' = [pending EXCEPT ![t] = {}]

(* A call on session s starts with now = time.time().                      *)
Begin(t, s, label) ==
  /\ pc[t] = "idle"
  /\ Goto(t, label)
  /\ arg' = [arg EXCEPT ![t] = s]
  /\ now' = [now EXCEPT ![t] = clock]
  /\ UNCHANGED <<poolVars, storeVars, pending>>

(* Sessions S leave the table revoked, and t owes the pool the leases of   *)
(* those in owed.                                                          *)
Pop(t, S, owed) ==
  /\ stored' = stored \ S
  /\ session' = [s \in SessionId |->
                   IF s \in S THEN [session[s] EXCEPT !.revoked = TRUE] ELSE session[s]]
  /\ pending' = [pending EXCEPT ![t] = owed]

-----------------------------------------------------------------------------
(* create(): scavenge, read the clock, draw an id, allocate, insert.  The  *)
(* id is random, so drawing it when the call starts is not observable.     *)
CreateBegin(t, s) ==
  /\ ~Created(s)
  /\ \A u \in Threads : arg[u] # s
  /\ Begin(t, s, "scavenge")

(* scavenge(): a session found revoked is popped but not released again.   *)
Scavenge(t) ==
  /\ pc[t] = "scavenge"
  /\ LET due == {s \in stored : Expired(s, now[t])}
     IN  Pop(t, due, {s \in due : ~session[s].revoked})
  /\ Goto(t, "reclaim")
  /\ UNCHANGED <<poolVars, clock, generation, heard, lag, arg, now>>

(* The loop of scavenge() over reclaimed_ids, in table order.              *)
Reclaim(t) ==
  /\ pc[t] = "reclaim"
  /\ \E s \in pending[t] :
       /\ \A r \in pending[t] : session[s].lease_generation <= session[r].lease_generation
       /\ PoolRelease(s)
       /\ pending' = [pending EXCEPT ![t] = @ \ {s}]
  /\ UNCHANGED <<storeVars, pc, arg, now>>

ReadClock(t) ==
  /\ pc[t] = "reclaim"
  /\ pending[t] = {}
  /\ Goto(t, "allocate")
  /\ now' = [now EXCEPT ![t] = clock]
  /\ UNCHANGED <<poolVars, storeVars, arg, pending>>

Allocate(t) ==
  /\ pc[t] = "allocate"
  /\ PoolAllocate(arg[t])
  /\ Goto(t, "insert")
  /\ UNCHANGED <<storeVars, arg, now, pending>>

(* RuntimeError: nothing was inserted and the login fails.                 *)
AllocateExhausted(t) ==
  /\ pc[t] = "allocate"
  /\ PoolExhausted(arg[t])
  /\ Return(t)
  /\ UNCHANGED <<poolVars, storeVars>>

(* Mutant: the generation is computed but not stored back.                 *)
InsertSameGeneration(t) ==
  /\ pc[t] = "insert"
  /\ session' = [session EXCEPT ![arg[t]] =
       [virtual_ip |-> allocated[arg[t]],
        lease_generation |-> generation + 1,
        expires_at |-> now[t] + TtlSeconds,
        absolute_expires_at |-> now[t] + AbsoluteTtlSeconds,
        last_seen |-> now[t],
        revoked |-> FALSE]]
  /\ stored' = stored \cup {arg[t]}
  /\ heard' = [heard EXCEPT ![arg[t]] = now[t]]
  /\ Return(t)
  /\ UNCHANGED <<poolVars, clock, generation, lag>>

Insert(t) ==
  /\ pc[t] = "insert"
  /\ generation' = generation + 1
  /\ session' = [session EXCEPT ![arg[t]] =
       [virtual_ip |-> allocated[arg[t]],
        lease_generation |-> generation + 1,
        expires_at |-> now[t] + TtlSeconds,
        absolute_expires_at |-> now[t] + AbsoluteTtlSeconds,
        last_seen |-> now[t],
        revoked |-> FALSE]]
  /\ stored' = stored \cup {arg[t]}
  /\ heard' = [heard EXCEPT ![arg[t]] = now[t]]
  /\ Return(t)
  /\ UNCHANGED <<poolVars, clock, lag>>

-----------------------------------------------------------------------------
(* get_active() and heartbeat(), called with the id of a verified grant.   *)
GetActiveBegin(t, s) == Created(s) /\ Begin(t, s, "get_check")

HeartbeatBegin(t, s) == Created(s) /\ Begin(t, s, "heartbeat_check")

(* Mutant: the expired session is popped and its lease forgotten.          *)
CheckExpiredLeaks(t) ==
  /\ pc[t] \in {"get_check", "heartbeat_check"}
  /\ arg[t] \in stored
  /\ Expired(arg[t], now[t])
  /\ Pop(t, {arg[t]}, {})
  /\ Goto(t, "reread")
  /\ UNCHANGED <<poolVars, clock, generation, heard, lag, arg, now>>

(* First critical section, expired session: popped, to be released.        *)
CheckExpired(t) ==
  /\ pc[t] \in {"get_check", "heartbeat_check"}
  /\ arg[t] \in stored
  /\ Expired(arg[t], now[t])
  /\ Pop(t, {arg[t]}, {arg[t]})
  /\ Goto(t, "release")
  /\ UNCHANGED <<poolVars, clock, generation, heard, lag, arg, now>>

(* First critical section, id not in the table: nothing to release.        *)
CheckMissing(t) ==
  /\ pc[t] \in {"get_check", "heartbeat_check"}
  /\ arg[t] \notin stored
  /\ Goto(t, "reread")
  /\ UNCHANGED <<poolVars, storeVars, arg, now, pending>>

GetCheck(t) ==
  /\ pc[t] = "get_check"
  /\ arg[t] \in stored
  /\ ~Expired(arg[t], now[t])
  /\ Goto(t, "reread")
  /\ UNCHANGED <<poolVars, storeVars, arg, now, pending>>

Earlier(a, b) == IF a <= b THEN a ELSE b
Latest(a, b) == IF a <= b THEN b ELSE a

(* History: session s was heard from at n, and it took until now to write  *)
(* it.                                                                     *)
Hear(s, n) ==
  /\ heard' = [heard EXCEPT ![s] = Latest(heard[s], n)]
  /\ lag' = [lag EXCEPT ![s] = Latest(lag[s], clock - n)]

(* Mutant: the refresh is not capped by the absolute deadline.             *)
HeartbeatRefreshUncapped(t) ==
  /\ pc[t] = "heartbeat_check"
  /\ arg[t] \in stored
  /\ ~Expired(arg[t], now[t])
  /\ session' = [session EXCEPT ![arg[t]].last_seen = now[t],
                                ![arg[t]].expires_at = now[t] + TtlSeconds]
  /\ Hear(arg[t], now[t])
  /\ Goto(t, "reread")
  /\ UNCHANGED <<poolVars, clock, stored, generation, arg, now, pending>>

HeartbeatRefresh(t) ==
  /\ pc[t] = "heartbeat_check"
  /\ arg[t] \in stored
  /\ ~Expired(arg[t], now[t])
  /\ session' = [session EXCEPT ![arg[t]].last_seen = now[t],
                                ![arg[t]].expires_at =
                  Earlier(now[t] + TtlSeconds, session[arg[t]].absolute_expires_at)]
  /\ Hear(arg[t], now[t])
  /\ Goto(t, "reread")
  /\ UNCHANGED <<poolVars, clock, stored, generation, arg, now, pending>>

(* ip_pool.release() after the lock is dropped; the call returns None, or  *)
(* True from revoke().                                                     *)
Release(t) ==
  /\ pc[t] = "release"
  /\ PoolRelease(arg[t])
  /\ Return(t)
  /\ UNCHANGED storeVars

(* Mutant: the second critical section writes the session back.            *)
RereadWritesBack(t) ==
  /\ pc[t] = "reread"
  /\ stored' = stored \cup {arg[t]}
  /\ Return(t)
  /\ UNCHANGED <<poolVars, clock, session, generation, heard, lag>>

(* Second critical section: the session is returned if it is still stored. *)
Reread(t) ==
  /\ pc[t] = "reread"
  /\ Return(t)
  /\ UNCHANGED <<poolVars, storeVars>>

(* Mutant: revoke() returns the address before it drops the session.       *)
RevokeReleasesFirst(t, s) ==
  /\ pc[t] = "idle"
  /\ s \in stored
  /\ allocated[s] # NoIP
  /\ PoolRelease(s)
  /\ UNCHANGED <<storeVars, threadVars>>

(* revoke() of a stored session; for any other id it returns False.        *)
Revoke(t, s) ==
  /\ pc[t] = "idle"
  /\ s \in stored
  /\ Pop(t, {s}, {s})
  /\ Goto(t, "release")
  /\ arg' = [arg EXCEPT ![t] = s]
  /\ UNCHANGED <<poolVars, clock, generation, heard, lag, now>>

Tick ==
  /\ clock < MaxTime
  /\ clock' = clock + 1
  /\ UNCHANGED <<poolVars, session, stored, generation, heard, lag, threadVars>>

-----------------------------------------------------------------------------
(* The steps of a call that is under way, and the calls that can start.    *)
Step(t) ==
  \/ Scavenge(t) \/ Reclaim(t) \/ ReadClock(t)
  \/ Allocate(t) \/ AllocateExhausted(t) \/ Insert(t)
  \/ CheckExpired(t) \/ CheckMissing(t) \/ GetCheck(t) \/ HeartbeatRefresh(t)
  \/ Release(t) \/ Reread(t)

Call(t, s) ==
  \/ CreateBegin(t, s) \/ GetActiveBegin(t, s) \/ HeartbeatBegin(t, s)
  \/ Revoke(t, s)

Next ==
  \/ \E t \in Threads : Step(t)
  \/ \E t \in Threads, s \in SessionId : Call(t, s)
  \/ Tick

Spec == Init /\ [][Next]_vars

(* A call that has started keeps running; nobody has to call.              *)
FairSpec == Spec /\ \A t \in Threads : WF_vars(Step(t))

-----------------------------------------------------------------------------
(* Who may hold an address: a stored session, one that a thread has popped *)
(* and not yet released, and one whose create() is between allocate() and  *)
(* the insertion.                                                          *)
Popped(s) == \E t \in Threads : s \in pending[t]
BeingCreated(s) == \E t \in Threads : pc[t] = "insert" /\ arg[t] = s

(* No interleaving of create, get_active, heartbeat, revoke and scavenge   *)
(* leaks an address or frees one in use: an id holds an address exactly    *)
(* when it is stored, popped or being created (one of the three), and a    *)
(* stored session holds the address it announces.                          *)
LeaseAccounting ==
  \A s \in SessionId :
    /\ allocated[s] # NoIP <=> s \in stored \/ Popped(s) \/ BeingCreated(s)
    /\ s \in stored => ~Popped(s) /\ ~BeingCreated(s)
    /\ Popped(s) => ~BeingCreated(s)
    /\ s \in stored => allocated[s] = session[s].virtual_ip

(* An address is reused only after its previous session ended, and the     *)
(* lease generation tells the two apart and orders them: of two sessions   *)
(* ever created with one address the one with the smaller generation is    *)
(* revoked and out of the table.                                           *)
LeaseSuccession ==
  \A s, r \in SessionId :
    /\ Created(s) /\ Created(r) /\ s # r /\ session[s].virtual_ip = session[r].virtual_ip
    /\ session[s].lease_generation <= session[r].lease_generation
    => /\ session[s].lease_generation < session[r].lease_generation
       /\ session[s].revoked
       /\ s \notin stored

(* Concurrent heartbeats with clock readings of different age leave the    *)
(* three deadlines of a session consistent: the sliding one is ttl after   *)
(* last_seen or the absolute one, whichever comes first.                   *)
SlidingWindow ==
  \A s \in SessionId : Created(s) =>
    /\ session[s].expires_at =
         Earlier(session[s].last_seen + TtlSeconds, session[s].absolute_expires_at)
    /\ session[s].last_seen <= clock

(* A caller that is about to get a session back from get_active() or       *)
(* heartbeat() read the clock before that session's absolute deadline,     *)
(* however long ago it took its first critical section.                    *)
AbsoluteDeadlineHonoured ==
  \A t \in Threads :
    pc[t] = "reread" /\ arg[t] \in stored =>
      now[t] <= session[arg[t]].absolute_expires_at

(* The deadlines of every session are consistent, and calls that took two  *)
(* critical sections respect them.                                         *)
DeadlinesHonoured == SlidingWindow /\ AbsoluteDeadlineHonoured

(* A session that ended stays ended: no call that looked it up before puts *)
(* it back into the table or clears its revoked flag.                      *)
NoResurrection ==
  [][\A s \in SessionId :
       /\ Created(s) /\ s \notin stored => s \notin stored'
       /\ session[s].revoked => session'[s].revoked]_vars

(* A thread revokes session s in this step.                                *)
RevokedNow(s) == \E t \in Threads : pc[t] = "idle" /\ pc'[t] = "release" /\ arg'[t] = s

(* A session leaves the table only through revoke(), past its absolute     *)
(* deadline, or when nobody has been heard from for idle_seconds: counted  *)
(* from the NEWEST reading of any heartbeat, not from last_seen, which a   *)
(* heartbeat that read the clock earlier and got the lock later moves back *)
(* (session.py:112).  It can therefore end early by as long as one of its  *)
(* heartbeats took from its reading to its write, and by no more; without  *)
(* lag, as DESIGN.md:37-38 has it, this fails.                             *)
EndedOnlyWhenDue ==
  [][\A s \in stored \ stored' :
       \/ heard[s] + IdleSeconds < clock + lag[s]
       \/ session[s].absolute_expires_at < clock
       \/ RevokedNow(s)]_vars

(* The address of an ended session comes back to the pool, although the    *)
(* release happens after the store's lock is dropped.                      *)
LeaseReturns ==
  \A s \in SessionId : (Created(s) /\ s \notin stored) ~> allocated[s] = NoIP

(* What the gateway and the audit rely on: the store is a ledger in which  *)
(* an address has one holder at a time and each activation is newer than   *)
(* every earlier one.                                                      *)
Ledger ==
  INSTANCE LeaseLedger WITH
    holder <- [h \in Hosts |-> IF IsLeased(h)
                               THEN CHOOSE s \in SessionId : allocated[s] = h
                               ELSE NoId],
    active <- stored,
    stamp <- [s \in SessionId |-> session[s].lease_generation]

ImplementsLedger == Ledger!LedgerSpec
=============================================================================
