# A TLA+ model of ztna-lab

`ztna-lab` is a self-contained zero-trust network access lab: a control plane
that logs users in and issues short-lived grants, a gateway that admits
connections with such grants and relays one HTTP request or acknowledges one
L3 packet, and a client. Everything runs in one process on the loopback
interface, in threads. This directory holds the specifications of its core,
the TLC configurations that check them and the TLAPS proofs.

`PROJECT.json` lists the components, the runs, the source lines behind every
definition, the hazards of the code with the properties aimed at them, and the
theorems.

## 1. Inventory

| part (`src/labztna/`) | state | operations | talks to |
|---|---|---|---|
| `ipam.py` address pool | `_available` deque, `_allocated`, `_released`, lock | `allocate`, `release` | called by the session store |
| `session.py` session store | `_sessions`, `_lease_generation`, lock; each session's deadlines and `revoked` | `create`, `get_active`, `heartbeat`, `revoke`, `scavenge` | pool; shared by control plane and gateway |
| `control.py` control plane | used TOTP counters, replay ids, each with a lock | login, heartbeat, logout, resources; `consume_otp`, `consume_control_request_id` | session store, token signer, policy |
| `gateway.py` gateway | slots semaphore, replay ids, one thread per connection | accept, handshake, TCP relay, L3 packet; `consume_request_id` | session store, token verifier, upstream resource |
| `auth.py` | keys | TOTP matching, token issue and verification | both planes |
| `protocol.py` | decoder buffer, per-stream sequence, kind and closed set | `feed`, `finish`, `encode` | gateway and client |
| `client.py` | token, session id, binding, manifest | login, heartbeat, logout, fetch, send_l3 | both planes over TLS |
| `manifest.py`, `policy.py`, `routeplan.py`, `l3.py` | none (pure) | sign and verify, decide, build and look up routes, encode | client, both planes |
| `network_helper.py` | current plan, lock | preview, apply, rollback | client side |
| `dnsmap.py`, `audit.py` | a dictionary, a bounded deque | register, record | control plane, gateway |
| `stack.py`, `resource.py`, `certs.py`, `tls.py`, `netguard.py`, `demo.py` | servers' life cycle, files | start, stop | all |

Hard behaviour, and what correct means there:

* **Leases.** The store drops its lock before it calls the pool, so an address
  is for a while held by a session no table knows. No address may leak, be
  leased twice, or be reused while its last holder is alive.
* **Deadlines.** Every method reads the clock before it waits for a lock and
  looks a session up twice. Deadlines must stay consistent and an ended session
  must stay ended.
* **Single use.** Request ids and TOTP counters are consumed under locks after
  a chain of unlocked checks, in bounded memory.
* **Revocation.** Sessions end while handlers hold on to them and while grants
  for them are still valid.
* **Bounded resources.** Slots, relay time and bytes, the decoder's buffer.
* **Fragmentation.** Frames arrive in pieces and connections are cut anywhere;
  neither side may take a truncated conversation for a whole one.
* **A client's memory.** Token, session and manifest are three fields, renewed
  by calls whose answers may be lost, late, refused or for another session.
* **Two route tables.** The client looks a packet up in the signed plan of all
  resources and sends it for its own one, the gateway tests it against that
  resource's routes in its registry; each normalises prefixes by itself.
* **Life cycle.** `start()` may fail after any step; `stop()` waits for loops
  that may be inside a TLS handshake.

## 2. Modules

| module | models | main state | actions |
|---|---|---|---|
| `VirtualIPPool` | `ipam.py` | the three containers | `PoolAllocate`, `PoolRelease` |
| `LeaseLedger` | what the store promises | holder of an address, active ids, stamps | `Reserve`, `Activate`, `End`, `GiveBack` |
| `SessionStore` (extends the pool) | `session.py` | table, generation, clock, and per thread `pc`, `arg`, `now`, `pending` | one per critical section and pool call |
| `ReplayWindow` | the bounded list of request ids of both planes | none | operators: `Seen`, `Popped`, `Remember` |
| `ReplayCache` (extends `ReplayWindow`) | both `consume_*request_id` | `ids`, `order`, handlers' checked requests | `Sign`, `CheckFresh`, `RefuseReplay`, `Consume` |
| `OtpGuard` | `consume_otp`, `matching_totp_step` | used counters, per-thread clock readings | `MatchOtp`, `ReadCurrent`, `RefuseUsed`, `ConsumeOtp` |
| `Access` | the state both planes share | active sessions, grants, clock | `Open`, `End`, `Issue`, `Advance` |
| `ControlPlane` (extends `Access`, `ReplayWindow`) | `control.py` handlers | stage, request and answer of each thread, remembered ids, used codes | one per stage and outcome |
| `Gateway` (extends `Access`, `ReplayWindow`) | `gateway.py` | slots, stage of each connection, relay budget, remembered ids | one per stage and outcome |
| `Stack` (extends `Gateway`) | `stack.py`, the servers' start and stop (`resource.py` has no other state), both accept loops | where `start()`/`stop()` is, each server's state, the client in the control plane's `accept()` | `Start`, `CallStop`, `Stop`, `LoopEnds`, the gateway's steps while its server lives |
| `FrameCodec` | `protocol.py` decoder | buffer, stream state, frames delivered | `Write`, `Feed`, `Decode`, `Reject`, `ReturnFrames`, `Finish` |
| `Exchange` (extends `FrameCodec`) | one connection after admission: `_handle_tcp` and `_handle_l3` in the gateway, `fetch` and `send_l3` in the client | the gateway's and the client's place, what was asked, forwarded, answered | one per read, verdict and write |
| `LabClient` (extends `Access`) | `client.py` calls, `manifest.py` verification and binding | token, bound session, manifest; the server's jobs, which outlive a call | `Call`, the server's steps, `*Returns`, `CallFails` |
| `RoutePlan` | `routeplan.py`, the route tests of `policy.py` and `gateway.py` | none | operators: `Network`, `CoversEntire`, `PlanAccepts`, `Lookup`, `GatewayTakes` |
| `PacketPath` (extends `RoutePlan`) | one packet of `send_l3` through the client's plan, the connection for its session's resource and the gateway's test | the registry's claims, the packet, what became of it | `SendL3`, `HandleL3`, `SendL3Returns` |
| `NetworkHelper` (extends `RoutePlan`) | `network_helper.py` | installed state with the routes' order and the DNS entries, the plan each thread has verified | `Verify`, `Preview`, `Apply`, `Rollback` |
| `*Proofs` | | | theorems about the module of that name (`SessionStoreProofs`: also `VirtualIPPool`; `StackProofs`: `Gateway` and `Stack`; `ExchangeProofs`: also `FrameCodec`; `NetworkHelperProofs`: also `RoutePlan` and `PacketPath`) |
| `MC*` | | | small sets and symmetry for TLC; `MCGuards` is for `OtpGuard` and `ReplayCache`, `MCNetworkHelper` for `NetworkHelper` and `PacketPath` |

How they fit: `SessionStore` implements `LeaseLedger`, and `ControlPlane`
implements `Access`. `Gateway` is checked against every behaviour of `Access`,
hence against every control plane that implements it; so is `LabClient`, whose
`Open`, `End` and `Issue` are the effects of its own calls and of other users'.
`Stack` puts the gateway's connections between a server that starts and one that
stops. `Exchange` uses one `FrameCodec` twice, first as the gateway's decoder of
the request, then as the client's of the response. In `Access` the store is
the set of ids `get_active()` answers with; `NoResurrection` of `SessionStore`
is what justifies that an id leaves this set once and never returns.

Correspondence to the code, where it is not one to one:

* An address is its index in `hosts()`; 0 is "none". Session ids are never
  drawn twice (18 random bytes).
* `create()`: `scavenge` is `Scavenge` (the locked loop) and one `Reclaim` per
  release, then `ReadClock`, `Allocate`, `Insert`. The random id is chosen when
  the call starts, which no other thread can observe. Calls of `revoke` on an
  unknown id change nothing and have no action.
* The store's subject and posture are constant and left out; the claims that
  bind a grant to them are the flaw `"binding"` of a request.
* A handshake carries a `flaw`: which check other than time, session and id it
  fails. In `ControlPlane` each such check simply has both outcomes. Timestamps
  come from the client's clock, which may be ahead of the server's by more than
  the skew it accepts.
* `Gateway` and `ControlPlane` forget as the code does: `Remember` pops the
  oldest ids of a full cache, and a login prunes used codes. Which codes those
  are depends on clocks, which is the subject of `OtpGuard`; in `ControlPlane` a
  login may prune any. Properties about single use therefore speak of the ids
  and codes not yet forgotten (`forgotten`, `prunedOtp`). How soon an id may be
  forgotten is `DuplicateDistance` of `ReplayCache`, when a code may be pruned
  `ConsumedOnce` of `OtpGuard`.
* `SessionStore` has two history variables for the deadlines: `heard`, the newest
  clock reading any heartbeat of a session has written, and `lag`, the longest
  time one took from its reading to its write. `last_seen` itself can go back.
* Every blocking call of a gateway handler has a socket timeout, so every wait
  has a failing action beside the successful one. `left` counts the receive
  timeouts that fit into `MAX_RELAY_SECONDS`; a chunk may use one up too.
* `Stack`: a silent client of the control plane is one whose TLS handshake in
  `accept()` never ends; all others end theirs or leave. The gateway's handshake
  has a timeout. A handler's thread is a daemon that `stop()` does not wait for,
  so handlers go on after it; they only fail to reach a closed resource.
  `start()` has one action per server made or started, and `StartFails` for an
  exception at any of them. The control plane's constructor binds its socket
  before it builds the TLS context: if that fails, the socket listens, `stop()`
  does not know of it, and only when the caller lets go of the exception is it
  collected (`"orphan"`, `CollectOrphan`).
* `Exchange` starts after the admission that `Gateway` models. The HTTP headers'
  form, the deadline and the upstream are choices between the outcomes the code
  distinguishes. The two directions never overlap in the code (the client
  writes all it has and only then reads), hence one codec at a time.
* `LabClient`: the server side of a call is a job that goes on when the client
  gave up, step by step (session, grant, manifest), so sessions end in between
  and an answer that arrives is of an older state. A manifest is genuine or not,
  of a session, and expires; the digest and signature checks are one bit.
* `NetworkHelper`: an envelope is what one call makes of it, with one flaw at
  most; `preview` and `apply` verify before the lock, which is a step of its own.
  The code compares routes in their order and reports deltas of sets, so an
  envelope has an `order`: reordered routes are a new generation with empty
  deltas. DNS entries are a set.
* `PacketPath`: `result` is what became of a call of `send_l3`: `route_plan()`
  raised, no route was found, the packet is under way, acknowledged or denied.
  The registry is any that its constructors accept.
* `RoutePlan`: addresses of `Width` bits instead of 32, prefixes with host bits
  as `strict=False` allows. `CoversEntire` follows `collapse_addresses`, merging
  halves (`Collapse`); `SplitTunnel` counts addresses instead, and
  `CoversEntireIsCoverage` proves that the two agree.
* `FrameCodec` counts in units: a header of 24 bytes is two, so that a cut may
  fall inside it, and a payload is as many as its frame says. When `feed()` raises, the
  codec is dropped by both callers, so the state after that does not matter.
  The check of the buffer's size at the end of `feed()` is not an action:
  `BufferBounded` shows it can never fire.
* History variables (`accepted`, `uses`, `admitted`, `late`, `overrun`,
  `effects`, `sessionsOf`, `forgotten`, `prunedOtp`, `heard`, `lag`) are marked as
  such; no guard reads them, except for the bounds `MaxAccepted` and `MaxUses`.

Definitions whose comment starts with "Mutant" are wrong on purpose: each is a
plausible slip in the code that the property named in `PROJECT.json` must
catch. No specification uses them.

## 3. Runs

| run | shows |
|---|---|
| `store` | `PoolPartition` (each address is free once or leased once and `_released` never swallows one), `LeaseAccounting`, `LeaseSuccession`, `DeadlinesHonoured` (`SlidingWindow`, `AbsoluteDeadlineHonoured`), `NoResurrection`, `EndedOnlyWhenDue`, the refinement `ImplementsLedger`, and under fairness `LeaseReturns` |
| `guards` | `ConsumedOnce` if no step boundary passes between the second clock reading and the lock, `UsedStepsBounded`; `CacheCoherent`, `DuplicateDistance` |
| `replay_evicted` | violation: `AcceptedOnce`, see findings |
| `otp_race` | violation: `ConsumedOnce` without that condition |
| `control` | `EffectOnce`, `LoginOncePerOtp`, `LogoutFinal`, and the refinement `ImplementsAccess` |
| `control_token` | violation: `InvalidTokenAnswered`, see findings |
| `gateway` | `SlotAccounting`, `AdmittedOnce`, `NoAdmissionAfterEnd`, `OneDeliveryAfterEnd` |
| `gateway_revoked` | violation: `RevokedSendsNothing`, see findings |
| `stack` | `StoppedIsClosed`, `StopReturns` (but for a silent client of the control plane), `ConnectionsEnd` |
| `exchange` | the codec: `CodecCorrect` (`DeliversLegalPrefix`, `RejectsOnlyIllegal`, `FinishNoticesCut`, `BufferBounded`); the exchange: `ForwardsWholeRequest`, `ServesProperRequest`, `AnswerIsWhole`, `WholeAnswerAccepted` |
| `client` | `ClientConsistent` (token, session and manifest are of one session), `StalePlanUseless`, `LoggedOutEnded` |
| `helper` | `InstalledIsAuthorized`, `MirrorAgrees` (routes and DNS), `GenerationNames`, `SplitTunnel`, `OneOwner`; `HomeRoutedIsAcknowledged`, `AmbiguityFailsClosed` |

The type invariants of all components are proved (section 5), some of them
inside a stronger statement: that of `LabClient` in `ClientConsistent`, that of
`Gateway` in `StackTypeOK`, that of `FrameCodec` in `ExchangeTypeOK`. The
installed plan of `NetworkHelper` has more than a type: `InstalledIsAuthorized`.

Two runs check two modules each that share no state: in `guards` and `helper` one
of the two stands still at its start while the other one moves. No property reads
the state of both, so interleaving them would add nothing.

Bounds, and why they are enough for the cases in question:

* `store`: 2 ids on 1 address empty the pool and force reuse, 2 threads allow
  every pairwise race, and 4 instants with TTL 1, absolute TTL 2 and idle time 1
  let a session expire by idleness, be refreshed by heartbeats whose readings are
  out of order, and hit its absolute deadline.
  That more ids and addresses add nothing to the lease properties is what
  `StoreCorrect` proves.
* `guards`: for the ids a cache of 2, 4 ids, 5 acceptances: eviction happens and an
  evicted id comes back while its timestamp is fresh. For the codes 6 steps, twice
  the window, 2 threads, and two counters that share a code. `MaxUses` 2 is one
  more than allowed.
* `control`: 2 threads, 2 sessions that are opened with one code, and a replay
  cache of one. One request id makes a pair with each session, and the second pair
  evicts the first. The skew is 0 and `ClientOffsets` is {0, 1}: a request is in
  time or too far ahead, and one that is handled an instant later is too old.
* `gateway`: 3 connections for 2 slots, 2 ids for a cache of one, 2 chunks.
* `stack`: 2 connections for 1 slot and one request id, which two handshakes
  share; the clock stands still, for deadlines are
  the subject of `gateway` and every wait may time out anyway.
* `exchange`: at most 4 frames each way of 19 kinds, with the frame limits 2
  (L3) and 3 (TCP), headers of 2 units, payloads of at most 5 and a request limit
  of 1, so that every header and frame can be cut inside and each limit is
  exceeded. The resource's chunks are of 1 or 5 units, and the client takes 11
  units: with the frames around it a short chunk fits and a long one does not.
* `client`: 3 calls, 2 sessions, grants and manifests that expire after one of
  two instants: a second login, and answers to the first that come late.
* `helper`: 3-bit addresses, about a hundred sets of one to three claims by two
  resources, with equal networks written differently and full tunnels put
  together from pieces, a reordered one and three DNS maps; 2 threads, 3 changes.
  Packets go to each of the 8 addresses under every registry of two resources with
  up to three routes of 10, among them host bits, nested and equal networks.

Deadlock is checked in `store` and `control`. In the other runs it is not, because
what they model comes to an end: all requests accepted and time up (the ids of
`guards`), connections closed (`gateway*`, `stack`, `exchange`), or the bound on
calls or changes reached (`client`, `helper`).

Fairness: `SessionStore` assumes that a thread inside a call keeps running: its
steps wait for two locks that are held for a bounded time and never nested, so
there is nothing to wait for. Nobody is obliged to call. `Stack` assumes the
same of the thread that calls `start()` and `stop()`, of the serving loops, and
of the gateway's accept loop and handlers, whose waits all end by timeout. A
client of the control plane ends its handshake or leaves, except a silent one:
`StopReturns` says that it alone can hold `stop()` up. Clients' calls, sessions
and the clock have no fairness.

## 4. Findings

* **Evicted ids are accepted again** (`replay_evicted`). The caches evict by
  number, not by age. DESIGN.md:47 promises that repeated ids are refused.
  What does hold, and is proved, is `DuplicateDistance`.
* **A TOTP counter can be consumed twice** (`otp_race`): `consume_otp` prunes
  around a time it read before it got the lock.
* **An invalid token is not answered** (`control_token`): `TokenError` is not
  imported in `control.py`, so the handler dies with `NameError`.
* **A revoked session's request is still sent on** (`gateway_revoked`). Between
  the handshake and the resource, up to ten seconds later, the gateway does not
  look at the session again, nor before it acknowledges an L3 packet. DESIGN.md:73
  says that a revoked stream is closed; CAPABILITY_MATRIX.md:26 lists the closing of
  active streams as still to do. What holds is `OneDeliveryAfterEnd`: a connection
  makes at most one delivery after its session ended, whether the request, one
  relayed chunk or the acknowledgement.

Three more places where the code does less than its documents say have no run of
their own, because a property that is checked says how far it falls short:

* **A late heartbeat ends a session early.** `heartbeat()` writes the clock reading
  it took before it got the lock (session.py:112), so `last_seen` can go back, and
  the session counts as idle too soon: with an idle time of 1, heartbeats that read
  0 and 1 and write in the opposite order let the session end at 2. DESIGN.md:37-38
  knows only logout, idleness and expiry. `EndedOnlyWhenDue` measures from the
  newest heartbeat and bounds the loss by the time one took from its reading to its
  write; without `lag` TLC finds it violated.
* **An expired manifest is used.** DESIGN.md:69 says it is refused; `route_plan()`
  and `resolve()` do not look at the expiry of the cached one. What holds is
  `StalePlanUseless`: by then the token that goes with it has expired as well.
* **`send_l3` sends for its own resource**, whoever owns the route it found
  (client.py:447), and the gateway denies the packet. `HomeRoutedIsAcknowledged`
  says that this is the only reason to deny one. With a registry of one resource,
  which is all `stack.py` builds, `OneResourceAcknowledged` proves that every packet
  with a route is acknowledged. The converse confusion exists too: a packet whose
  longest match is another resource's is acknowledged if a shorter route of the
  session's own covers it.

DESIGN.md:70-71 says that one prefix for several resources is refused. The registry
accepts it and serves it, and every client refuses the manifest, so that no packet
is sent: `AmbiguityFailsClosed`. Logins succeed and `route_plan()` fails.

`StoppedIsClosed` has one exception, an effect of the code and not of the model:
the listening socket of a control plane whose TLS set-up failed in its constructor
is not closed by `stop()`.

## 5. Proofs

`tlapm M.tla` checks each module below. Every theorem holds for every value of
the constants under the assumptions of its modules, which restate the
constructors' checks and the types of the bounds. Every invariant, action
property and refinement that the passing runs check is proved.

| theorem | statement | module |
|---|---|---|
| `PoolCorrect` | `PoolSpec => [](PoolTypeOK /\ PoolPartition)` | `SessionStoreProofs` |
| `StoreCorrect` | `Spec => [](TypeOK /\ LeaseAccounting /\ LeaseSuccession)` | |
| `LeasesSucceed` | `Spec => []LeaseSuccession` | |
| `DeadlinesHold` | `Spec => []DeadlinesHonoured` | |
| `EndedStaysEnded` | `Spec => NoResurrection` (action property) | |
| `EndsOnlyWhenDue` | `Spec => EndedOnlyWhenDue` (action property) | |
| `StoreImplementsLedger` | `Spec => ImplementsLedger` (refinement) | |
| `CacheStaysCoherent` | `Spec => []CacheCoherent` | `ReplayCacheProofs` |
| `ReplayProtection` | `Spec => [](CacheCoherent /\ DuplicateDistance)` | |
| `OtpConsumedOnce` | `MatchSlip <= 1 /\ LockSlip = 0 => (Spec => []ConsumedOnce)` | `OtpGuardProofs` |
| `UsedStepsStayBounded` | `MatchSlip <= 1 => (Spec => []UsedStepsBounded)` | |
| `ControlTyped` | `Spec => []ControlTypeOK` | `ControlPlaneProofs` |
| `RequestsRunOnce` | `Spec => []EffectOnce` | |
| `LoginsOpenOnce` | `Spec => []LoginOncePerOtp` | |
| `LogoutIsFinal` | `Spec => []LogoutFinal` | |
| `ControlImplementsAccess` | `Spec => ImplementsAccess` (refinement) | |
| `SlotsAccountedFor`, `RequestsAdmittedOnce`, `EndedSessionsStayOut`, `RelayStopsAfterEnd` | `Spec => []P` for `SlotAccounting`, `AdmittedOnce`, `NoAdmissionAfterEnd`, `OneDeliveryAfterEnd` | `StackProofs` |
| `GatewayInStack` | `StackSpec => []` of these four | |
| `StackTyped`, `StopCloses` | `StackSpec => []StackTypeOK`, `StackSpec => []StoppedIsClosed` | |
| `ExchangeTypes`, `CodecImplementsProtocol` | `Spec => []ExchangeTypeOK`, `Spec => []CodecCorrect` | `ExchangeProofs` |
| `RequestsForwardedWhole`, `ProperRequestsServed` | `Spec => []P` for `ForwardsWholeRequest`, `ServesProperRequest` | |
| `AnswersReturnedWhole`, `FinishedAnswersAccepted` | `Spec => []P` for `AnswerIsWhole`, `WholeAnswerAccepted` | |
| `ClientStaysConsistent`, `StalePlansUseless`, `LogoutEndsSession` | `Spec => []P` for `ClientConsistent`, `StalePlanUseless`, `LoggedOutEnded` | `LabClientProofs` |
| `CoversEntireIsCoverage` | a set of prefixes collapses to the whole space iff its addresses are all addresses | `NetworkHelperProofs` |
| `OnlyAuthorizedInstalled`, `DeltasAddUp`, `NeverFullTunnel`, `AddressesHaveOneOwner` | `Spec => []P` for `InstalledIsAuthorized`, `MirrorAgrees`, `SplitTunnel`, `OneOwner` | |
| `GenerationsNameStates` | `Spec => GenerationNames` (action property) | |
| `HomePacketsAcknowledged`, `AmbiguityIsRefused` | `PacketSpec => []P` for `HomeRoutedIsAcknowledged`, `AmbiguityFailsClosed` | |
| `OneResourceAcknowledged` | if every claim's id is `Home`, `PacketSpec => []RoutedIsAcknowledged` | |

### The arguments

**Pool.** `PoolPartition` is inductive once it says that `released` names free
addresses only; one lemma per method, reused by the store.

**Session store.** `LeaseAccounting` is not inductive: that an address held by
a popped session comes back depends on which thread owes it. `StoreInv` adds

* `PendingOK`: a popped id belongs to one thread, is out of the table and still
  holds its address;
* `CreatorsOK`: the id of a `create()` under way is that thread's alone, and
  past `allocate()` it holds an address;
* `CallersOK`: the label of a thread says what it still owes;
* `HoldersOK`, `StoredOK`: who holds an address, and that a stored session is
  alive and holds the one it announces;
* `GenerationsOK`, `EndedOK`: generations are distinct and at most the counter;
  created and not stored means revoked.

`LeaseSuccession` then follows at the one step that could break it: when
`Insert` stores a session, an older one with the same address cannot be stored,
because both would hold the address in the pool.

The deadlines rest on `TimeInv`: no thread's reading is ahead of the clock
(`ReadingsOK`) and a session never created is not revoked (`FreshOK`).
`SessionStep` classifies what one step can do to one session (keep, end, refresh
or insert it); the three time properties are read off it. That `expires_at` is
never what ends a session uses `IdleSeconds <= TtlSeconds`, which the
constructor checks. `EndedOnlyWhenDue` needs in addition that the newest heartbeat
of a session is never ahead of its `last_seen` by more than `lag` (`HeardOK`), in
whatever order heartbeats got the lock.

For the refinement, `HolderAt` shows that with `NoDoubleLease` the `CHOOSE` of the
mapping is the holder, and `HolderUpdate` that a lease or a release updates one
entry of `holder`; `Allocate`, `Insert`, the three steps that pop, `Reclaim` and
`Release` are then `Reserve`, `Activate`, `End` (or a stutter, when nothing was
due) and `GiveBack`, and all others stutter.

**Replay cache.** The list is a suffix of the history of acceptances, and ids
outside the list lie far back.

**One-time passwords.** A counter consumed before is still in the set or too old
to match, because a thread's reading is the clock at the moment it prunes. That
needs `LockSlip = 0`, and `otp_race` shows that it does. The bound on the set
only needs that a presented counter is near the reading it is pruned with
(`NearReading`), so it holds however long a thread waits for the lock.

**Control plane.** `EffectOnce` and `LoginOncePerOtp` count what happened; the
invariant says who is still owed it. A remembered id whose effect has not happened
belongs to one handler in `"operate"` (`EffectsOK`), a used code whose session is
not open to one login (`LoginsOK`). Nothing is claimed of an id that the cache has
once forgotten, or of a code once pruned, so both counts stop there; that a
cache forgets only when full is `RememberFacts`. And `HandlersOK` says what a handler at each
stage knows of its request and session. Every handler step is then an `Open`,
`End` or `Issue` of `Access`, or leaves its state alone.

**Gateway and stack.** `ConnOK` says what a connection at each stage knows: in
particular one that looked its session up was not late, and an overrun is 0 until
the step after which only the relay's next check follows, which then sees the
session ended. `SlotsOK` carries the finiteness of the set of handlers, so `Conn`
may be infinite. `AdmissionsOK`: an id that admitted a connection is in the list or
was forgotten by it, and nothing is forgotten before the list is full. `LifeOK` says what `start()` and `stop()` have left behind at
each of their steps; a server is passed by `stop()` only when absent, closed or,
the control plane, without an owner.
`GatewayInv` is preserved by every step of `Stack`, hence `GatewayInStack`.

**Codec and exchange.** None of the codec's properties is inductive: they
compare what was delivered with the whole conversation (`LegalAt`, a frame
judged by those before it), while the decoder keeps a few variables and counts
bytes. `CodecInv` ties the two together:

* `DecoderState`: those variables are a function of the frames decoded. The
  expected sequence number of a stream is the number of its frames, its kind
  and whether it is closed say which frames were among them. Hence the decoder
  accepts a frame exactly if it is legal there (`AcceptableIsLegal`);
* `FramesOnWire`: there is a list of frame ends on the wire, with the decoder's
  position in it. Since it is asserted and not computed, no recursion over
  the frames is needed, and the next header the decoder sees is one that was
  written (`BufferedFrame`), however the bytes were cut;
* `FramesTaken`: the frames delivered and in the batch are the first ones sent,
  all legal, and the bytes consumed are theirs. Payload is counted as the
  cardinality of a set of pairs, for which one lemma says what one more frame
  adds (`PayloadNext`) and one that the count grows with the range
  (`PayloadMonotonic`);
* `StatusOK`: what is left in the buffer when `feed()` returns, why it raised,
  and what `finish()` found.

The exchange reuses the codec for the answer, so `ExchangeInv` says for which
side the codec stands. `RequestPhase`: until the gateway answers, a completed
request has passed every check of the handler's loop. `AnswerPhase`: what the
gateway has written is an open frame, one chunk for each the resource sent and,
only when it has finished, one `FIN` (or the single acknowledgement). That is a
legal conversation (`AnswerLegal`), so only a cut, an unfinished answer or the
frame limit lets the client's codec refuse it, and only its size lets `_read_all`. `ClientPhase`: if nothing was
cut, the client decodes after all of it has arrived. A clean end of a whole
number of frames of such an answer contains its `FIN`, which is its last frame
(`WholeAnswer`, `AnswersAreWhole`): so what the client returns is all of it.

**Client.** `JobOK` says of a job at the server, at each stage, whose session its
grant and its manifest are of and that the grant expires no later; `WaitingOK`
that a waiting call was made with the token the client still holds, so an answer
to `heartbeat()` or `resources()` fits what it is stored beside.

**Network helper and routes.** A plan waits between its verification and the lock;
`HelperInv` remembers for every thread that it came from an authorized envelope.
That no accepted plan is a full tunnel needs the correctness of `CoversEntire` itself. `Collapse` is a recursive
function over networks. Coverage ("every address of the network is in one of the
prefixes") solves its recursion, so `Collapse`, being chosen, solves it too
(`CollapseUnfolds`); and its value is coverage, for of the longest networks at
which it were not, both halves would be right, and then the network
(`CollapseIsCoverage`, with `LeastNat`: every non-empty set of naturals has a
least element, the one form of induction the provers can use here).
A network is covered by prefixes exactly when one of
them contains it or both halves are covered, because two networks are nested or
disjoint (`Nested`). `PacketInv` remembers of a packet under way that its plan was
accepted and had a route for it; normalising a prefix does not change its
addresses (`AddressesOfNetwork`), so the resource that owns a route takes its packets
(`OwnerTakes`).

`PowerAssumption` states three facts of `2^n` which the prover's arithmetic does
not know; TLC evaluates it in the `helper` run. The other assumptions
(`PoolAssumption`, `StoreAssumption`, `ReplayAssumption`, `OtpAssumption`,
`TotpAssumption`, `WindowAssumption`, `AccessAssumption`, `PacketAssumption`, `FrameAssumption`, `ExchangeAssumption` and
those of `ControlPlane`, `Gateway`, `LabClient` and `NetworkHelper`) are about the
parameters. Of these `ExchangeAssumption` says that stream 1 exists, which both
sides of an exchange use, and that a frame has room for a payload.

### Left to TLC alone

* Liveness: `LeaseReturns`, `ConnectionsEnd`, `StopReturns`. Fairness and
  `ENABLED` are beyond the prover's backends.
* The violations, which are counterexamples.

No module uses a RECURSIVE operator.

## 6. Not modelled

* Cryptography, encodings and TLS: a request, grant or manifest is good or has a
  flaw. The byte layout of packets and frames and the wording of answers.
* The Fake DNS map (filled once at start-up, idempotent) and the audit log (written,
  never read by a decision); certificates, TLS contexts, the loopback guard and
  the demo script, which keep no state of their own; resource ids, hosts, ports
  and domains of the registry, fixed at construction.
* A second `start()` of a stopped stack, which can only fail.
* The wall clock only advances; `time.time()` may be set back in reality.
* `LabClient` is one thread, as its callers use it; it has no lock.

## 7. Plan

The components with state of their own that decisions depend on are modelled,
and all their safety properties are proved. What remains outside:

1. Liveness (`LeaseReturns`, `ConnectionsEnd`, `StopReturns`) stays with TLC; the
   invariants that a proof would rest on (`CallersOK`, `ConnOK`, `LifeOK`) are
   there.
2. When the code changes: a change of `_advance_stream_state` shows in
   `DecoderState`, one of a lock's extent in the actions of `SessionStore` or
   `ControlPlane`, and the proof that no longer goes through names the step.
3. Two hazards have no property, because the code promises nothing there (see
   `hazards` in `PROJECT.json`): addresses of expired sessions held until the next
   call, and a one-time code used up by a login that then fails.
4. If the findings are fixed, the violated properties become the ones to prove:
   `RevokedSendsNothing` in place of `OneDeliveryAfterEnd`, `EndedOnlyWhenDue`
   without `lag`, `RoutedIsAcknowledged` without its assumption.
