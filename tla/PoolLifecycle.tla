--------------------------- MODULE PoolLifecycle ---------------------------
(***************************************************************************)
(* How an adapter opens the client it reaches its store through, on first  *)
(* use, and closes it: asyncpg's pool (created under a lock, in an await), *)
(* the httpx client (under a lock, at once) and the neo4j driver (no lock, *)
(* at once).  All run as coroutines of one event loop, and a coroutine     *)
(* runs to its next await without interruption.                            *)
(***************************************************************************)
EXTENDS Naturals, Sequences, SequencesExt, FiniteSets

CONSTANTS
    Users,     \* calls of preview, erase or health_check
    Closers,   \* calls of close()
    Pools,     \* pools, clients or drivers that may ever be created
    None,
    MaxFaults  \* bound on failed connects, failed closes and cancellations

ASSUME LifecycleAssumption ==
    /\ None \notin Pools \cup Users
    /\ Users \cap Closers = {}
    /\ IsFiniteSet(Users) /\ IsFiniteSet(Pools)
    /\ Cardinality(Users) <= Cardinality(Pools)
    /\ MaxFaults \in Nat

VARIABLES
    client,  \* which adapter this is: "pool", "http" or "driver"
    pool,    \* its self._pool, self._client or self._driver
    status,  \* of each pool: "unmade", "open", "closing", "closed"
    lock,    \* holder of self._pool_lock
    queue,   \* coroutines waiting for it, first come first served
    pc,      \* where each coroutine is
    got,     \* the pool a coroutine works on
    torn,    \* history: pools whose close() raised or was cancelled
    overlap, \* history: a close() began while another was under way
    faults

vars == <<client, pool, status, lock, queue, pc, got, torn, overlap, faults>>

Callers == Users \cup Closers

Init ==
    /\ client \in {"pool", "http", "driver"}
    /\ pool = None
    /\ status = [p \in Pools |-> "unmade"]
    /\ lock = None
    /\ queue = <<>>
    /\ pc = [x \in Callers |-> "idle"]
    /\ got = [x \in Callers |-> None]
    /\ torn = {}
    /\ overlap = FALSE
    /\ faults = 0

Fault == faults < MaxFaults /\ faults' = faults + 1

Goto(x, where) == pc' = [pc EXCEPT ![x] = where]

(* What the caller does with the pool it is given follows without an await.
   asyncpg and httpx refuse work once a close has begun.                 *)
Use(u, p) ==
    /\ got' = [got EXCEPT ![u] = p]
    /\ \/ (status[p] = "open" \/ client = "driver") /\ Goto(u, "working")
       \/ status[p] # "open" /\ Goto(u, "failed")

Fresh == CHOOSE p \in Pools : status[p] = "unmade"

Open(u) ==
    /\ status' = [status EXCEPT ![Fresh] = "open"]
    /\ pool' = Fresh
    /\ got' = [got EXCEPT ![u] = Fresh]
    /\ Goto(u, "working")
-----------------------------------------------------------------------------
(* _pool_or_connect, _client_or_connect, _driver_or_connect. *)

(* The first check finds a pool. *)
Reuse(u) ==
    /\ pc[u] = "idle" /\ pool # None
    /\ Use(u, pool)
    /\ UNCHANGED <<client, pool, status, lock, queue, torn, overlap, faults>>

(* It finds none, and there is nothing to wait for: the lock round a plain
   constructor is always free.                                           *)
Construct(u) ==
    /\ pc[u] = "idle" /\ pool = None /\ client # "pool"
    /\ Open(u)
    /\ UNCHANGED <<client, lock, queue, torn, overlap, faults>>

(* It finds none and the lock is free: create_pool is awaited under it. *)
Lock(u) ==
    /\ pc[u] = "idle" /\ pool = None /\ client = "pool"
    /\ lock = None /\ queue = <<>>
    /\ lock' = u
    /\ Goto(u, "creating")
    /\ UNCHANGED <<client, pool, status, queue, got, torn, overlap, faults>>

Enqueue(u) ==
    /\ pc[u] = "idle" /\ pool = None /\ client = "pool"
    /\ lock # None \/ queue # <<>>
    /\ queue' = Append(queue, u)
    /\ Goto(u, "waiting")
    /\ UNCHANGED <<client, pool, status, lock, got, torn, overlap, faults>>

(* Faulty: no second check under the lock. *)
WakeUnchecked(u) ==
    /\ lock = None /\ queue # <<>> /\ Head(queue) = u
    /\ queue' = Tail(queue)
    /\ lock' = u
    /\ Goto(u, "creating")
    /\ UNCHANGED <<client, pool, status, got, torn, overlap, faults>>

(* The lock passes on: the second check decides who creates. *)
Wake(u) ==
    /\ lock = None /\ queue # <<>> /\ Head(queue) = u
    /\ queue' = Tail(queue)
    /\ \/ /\ pool # None
          /\ Use(u, pool)
          /\ UNCHANGED lock
       \/ /\ pool = None
          /\ lock' = u
          /\ Goto(u, "creating")
          /\ UNCHANGED got
    /\ UNCHANGED <<client, pool, status, torn, overlap, faults>>

Created(u) ==
    /\ pc[u] = "creating"
    /\ Open(u)
    /\ lock' = None
    /\ UNCHANGED <<client, queue, torn, overlap, faults>>

(* Faulty: an exception leaves the lock held. *)
AbandonHolding(u) ==
    /\ pc[u] = "creating"
    /\ Fault
    /\ Goto(u, "failed")
    /\ UNCHANGED <<client, pool, status, lock, queue, got, torn, overlap>>

(* The database is unreachable or the caller is cancelled: async with
   releases the lock, and a cancelled waiter leaves the queue.           *)
Abandon(u) ==
    /\ Fault
    /\ \/ /\ \E i \in DOMAIN queue : queue[i] = u /\ queue' = RemoveAt(queue, i)
          /\ UNCHANGED lock
       \/ /\ pc[u] = "creating"
          /\ lock' = None
          /\ UNCHANGED queue
    /\ Goto(u, "failed")
    /\ UNCHANGED <<client, pool, status, got, torn, overlap>>
-----------------------------------------------------------------------------
(* Work on the pool, and close(). *)

(* A driver still serves sessions after its close; the others' work breaks
   when the connection under it does.                                    *)
Release(u) ==
    /\ pc[u] = "working"
    /\ \/ (status[got[u]] # "closed" \/ client = "driver") /\ Goto(u, "served")
       \/ /\ status[got[u]] = "closed" \/ (status[got[u]] = "closing" /\ client # "pool")
          /\ Goto(u, "failed")
    /\ UNCHANGED <<client, pool, status, lock, queue, got, torn, overlap, faults>>

(* close() returns at once when there is nothing left to wait for; httpx
   does so already when another close of the same client is under way.   *)
CloseAtOnce(c) ==
    /\ pc[c] = "idle"
    /\ pool \in {None} \cup {p \in Pools :
                   status[p] = "closed" \/ (status[p] = "closing" /\ client = "http")}
    /\ pool' = None
    /\ overlap' = (overlap \/ \E d \in Closers : pc[d] = "closing")
    /\ Goto(c, "served")
    /\ UNCHANGED <<client, status, lock, queue, got, torn, faults>>

Close(c) ==
    /\ pc[c] = "idle" /\ pool # None
    /\ status[pool] = "open" \/ (status[pool] = "closing" /\ client # "http")
    /\ status' = [status EXCEPT ![pool] = "closing"]
    /\ overlap' = (overlap \/ \E d \in Closers : pc[d] = "closing")
    /\ got' = [got EXCEPT ![c] = pool]
    /\ Goto(c, "closing")
    /\ UNCHANGED <<client, pool, lock, queue, torn, faults>>

(* asyncpg closes a pool when its connections are back; nobody else waits. *)
AllBack(p) == \A u \in Users : pc[u] = "working" => got[u] # p

(* Faulty: the closed pool is kept. *)
ClosedKept(c) ==
    /\ pc[c] = "closing"
    /\ client = "pool" => AllBack(got[c])
    /\ status' = [status EXCEPT ![got[c]] = "closed"]
    /\ Goto(c, "served")
    /\ UNCHANGED <<client, pool, lock, queue, got, torn, overlap, faults>>

Closed(c) ==
    /\ pc[c] = "closing"
    /\ client = "pool" => AllBack(got[c])
    /\ status' = [status EXCEPT ![got[c]] = "closed"]
    /\ pool' = None
    /\ Goto(c, "served")
    /\ UNCHANGED <<client, lock, queue, got, torn, overlap, faults>>

(* The await raises or is cancelled: the client is closed all the same, and
   the attribute is not cleared.                                         *)
CloseTorn(c) ==
    /\ pc[c] = "closing"
    /\ Fault
    /\ status' = [status EXCEPT ![got[c]] = "closed"]
    /\ torn' = torn \cup {got[c]}
    /\ Goto(c, "failed")
    /\ UNCHANGED <<client, pool, lock, queue, got, overlap>>
-----------------------------------------------------------------------------
Run(x) ==
    \/ x \in Users /\ (Wake(x) \/ Created(x) \/ Release(x))
    \/ x \in Closers /\ Closed(x)

Next ==
    \/ \E u \in Users : Reuse(u) \/ Construct(u) \/ Lock(u) \/ Enqueue(u) \/ Abandon(u)
    \/ \E c \in Closers : CloseAtOnce(c) \/ Close(c) \/ CloseTorn(c)
    \/ \E x \in Callers : Run(x)

Spec == Init /\ [][Next]_vars

(* The event loop runs what is ready; the database answers or refuses. *)
FairSpec == Spec /\ \A x \in Callers : WF_vars(Run(x))
-----------------------------------------------------------------------------
(* Types; nobody both holds the lock and waits for it. *)
TypeOK ==
    /\ client \in {"pool", "http", "driver"}
    /\ pool \in Pools \cup {None}
    /\ status \in [Pools -> {"unmade", "open", "closing", "closed"}]
    /\ lock \in Users \cup {None}
    /\ queue \in Seq(Users) /\ IsInjective(queue)
    /\ pc \in [Callers -> {"idle", "waiting", "creating", "working", "closing",
                           "served", "failed"}]
    /\ \A u \in Users : /\ pc[u] = "creating" <=> lock = u
                        /\ pc[u] = "waiting" <=> u \in ToSet(queue)
    /\ got \in [Callers -> Pools \cup {None}]
    /\ torn \subseteq Pools
    /\ overlap \in BOOLEAN
    /\ faults \in 0..MaxFaults

(* "A naive check-then-await-create would let two coroutines each build a
   pool and orphan one": no pool stays open out of the adapter's reach,
   where no close() could find it - unless two calls of close() overlapped,
   and the later one dropped what was opened in between.                 *)
NoOrphanedPool == \A p \in Pools : status[p] \in {"open", "closing"} => overlap \/ pool = p

(* The adapter never settles on a closed pool, on which every call would
   fail until a restart - unless its close() raised, and then until close()
   is called again.                                                      *)
NoDeadPool == pool # None /\ status[pool] = "closed" => pool \in torn

(* Everybody who asks for the pool gets through or gets an exception: a
   connect that fails or is cancelled does not leave the lock behind, and a
   close() waits only for work that ends.                                *)
EveryCallerEnds ==
    \A x \in Callers : pc[x] # "idle" ~> pc[x] \in {"served", "failed"}
=============================================================================
