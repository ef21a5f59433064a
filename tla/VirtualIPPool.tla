---------------------------- MODULE VirtualIPPool ----------------------------
(***************************************************************************)
(* labztna/ipam.py: the in-memory pool that leases the virtual IPv4        *)
(* addresses of the lab.  Every method runs under the pool's own lock, so  *)
(* each call is one action.  An address is its position in                 *)
(* ip_network(...).hosts(); 0, the network address, is not a host and      *)
(* stands for "no address".                                                *)
(***************************************************************************)
EXTENDS Naturals, Sequences

CONSTANTS SessionId,   \* the session ids that can ask for an address
          PoolSize     \* number of hosts: 2 for a /30, 254 for a /24

ASSUME PoolAssumption == PoolSize \in Nat \ {0}

VARIABLES available,   \* _available: deque of free addresses
          allocated,   \* _allocated: session id -> its address
          released     \* _released: addresses handed back and not reissued

poolVars == <<available, allocated, released>>

Hosts == 1..PoolSize
NoIP == 0

PoolTypeOK ==
  /\ available \in Seq(Hosts)
  /\ allocated \in [SessionId -> Hosts \cup {NoIP}]
  /\ released \in SUBSET Hosts

PoolInit ==
  /\ available = [i \in 1..PoolSize |-> i]
  /\ allocated = [s \in SessionId |-> NoIP]
  /\ released = {}

(* Mutant: allocate() forgets _released.discard().                         *)
PoolAllocateKeepsMark(s) ==
  /\ allocated[s] = NoIP
  /\ available # <<>>
  /\ allocated' = [allocated EXCEPT ![s] = Head(available)]
  /\ available' = Tail(available)
  /\ UNCHANGED released

(* allocate(): popleft, after the early return for an id that already has  *)
(* an address (which leaves the pool alone and is a stuttering step).      *)
PoolAllocate(s) ==
  /\ allocated[s] = NoIP
  /\ available # <<>>
  /\ allocated' = [allocated EXCEPT ![s] = Head(available)]
  /\ available' = Tail(available)
  /\ released' = released \ {Head(available)}

(* allocate() on an empty deque raises "virtual IP pool exhausted".        *)
PoolExhausted(s) ==
  /\ allocated[s] = NoIP
  /\ available = <<>>

(* release(): the id is dropped whatever follows; its address rejoins the  *)
(* deque unless _released says it is there already.                        *)
PoolRelease(s) ==
  LET address == allocated[s]
      returned == address # NoIP /\ address \notin released
  IN  /\ allocated' = [allocated EXCEPT ![s] = NoIP]
      /\ available' = IF returned THEN Append(available, address) ELSE available
      /\ released' = IF returned THEN released \cup {address} ELSE released

PoolNext == \E s \in SessionId : PoolAllocate(s) \/ PoolRelease(s)

PoolSpec == PoolInit /\ [][PoolNext]_poolVars

-----------------------------------------------------------------------------
IsFree(h) == \E i \in 1..Len(available) : available[i] = h
IsLeased(h) == \E s \in SessionId : allocated[s] = h

NoDuplicateFree ==
  \A i, j \in 1..Len(available) : available[i] = available[j] => i = j

NoDoubleLease ==
  \A s, r \in SessionId : allocated[s] # NoIP /\ allocated[s] = allocated[r] => s = r

(* _released only names free addresses: its guard in release() can never   *)
(* swallow an address that is being handed back.                           *)
ReleasedAreFree == \A h \in released : IsFree(h)

(* Whatever the order of allocate() and release() calls, every address is  *)
(* free exactly once or leased to exactly one session, and never both:     *)
(* release() neither loses an address nor offers one twice.                *)
PoolPartition ==
  /\ NoDuplicateFree
  /\ NoDoubleLease
  /\ ReleasedAreFree
  /\ \A h \in Hosts : IsFree(h) <=> ~IsLeased(h)
=============================================================================
