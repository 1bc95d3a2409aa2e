------------------------ MODULE PoolLifecycle_proofs ------------------------
(***************************************************************************)
(* Proofs about PoolLifecycle, for every set of users, closers and pools   *)
(* and every bound on the faults.                                          *)
(*                                                                         *)
(* The argument: who holds the lock finds no pool, and nobody else can     *)
(* make one meanwhile (Locking); a pool that closes is some closer's, and  *)
(* unless two closes overlap it is the adapter's (Closings); and there is  *)
(* always a pool left to make, as each user makes one at most (Making).    *)
(***************************************************************************)
EXTENDS PoolLifecycle, FiniteSetTheorems, SequenceTheorems, TLAPS

(* Taking an entry out of a queue keeps the others, in their order. *)
LEMMA QueueWithout ==
  ASSUME NEW q \in Seq(Users), IsInjective(q), NEW i \in DOMAIN q
  PROVE  /\ RemoveAt(q, i) \in Seq(Users)
         /\ IsInjective(RemoveAt(q, i))
         /\ ToSet(RemoveAt(q, i)) = ToSet(q) \ {q[i]}
<1> DEFINE n == Len(q)
           r == RemoveAt(q, i)
<1>1. n \in Nat /\ DOMAIN q = 1..n /\ i \in 1..n /\ \A j \in 1..n : q[j] \in Users
  BY LenProperties, ElementOfSeq
<1>2. /\ SubSeq(q, 1, i - 1) \in Seq(Users)
      /\ Len(SubSeq(q, 1, i - 1)) = i - 1
      /\ \A j \in 1..(i - 1) : SubSeq(q, 1, i - 1)[j] = q[j]
  <2>1. \A j \in 1..(i - 1) : q[j] \in Users
    BY <1>1
  <2>2. 1 \in Int /\ i - 1 \in Int
    BY <1>1
  <2>3. /\ SubSeq(q, 1, i - 1) \in Seq(Users)
        /\ Len(SubSeq(q, 1, i - 1)) = IF 1 <= i - 1 THEN (i - 1) - 1 + 1 ELSE 0
        /\ \A j \in 1..((i - 1) - 1 + 1) : SubSeq(q, 1, i - 1)[j] = q[1 + j - 1]
    BY <2>1, <2>2, SubSeqProperties
  <2> QED
    BY <1>1, <2>3
<1>3. /\ SubSeq(q, i + 1, n) \in Seq(Users)
      /\ Len(SubSeq(q, i + 1, n)) = n - i
      /\ \A j \in 1..(n - i) : SubSeq(q, i + 1, n)[j] = q[i + j]
  <2>1. \A j \in (i + 1)..n : q[j] \in Users
    BY <1>1
  <2>2. i + 1 \in Int /\ n \in Int
    BY <1>1
  <2>3. /\ SubSeq(q, i + 1, n) \in Seq(Users)
        /\ Len(SubSeq(q, i + 1, n)) = IF i + 1 <= n THEN n - (i + 1) + 1 ELSE 0
        /\ \A j \in 1..(n - (i + 1) + 1) : SubSeq(q, i + 1, n)[j] = q[(i + 1) + j - 1]
    BY <2>1, <2>2, SubSeqProperties
  <2>4. n - (i + 1) + 1 = n - i /\ (i + 1 <= n \/ n - i = 0)
    BY <1>1
  <2>5. \A j \in 1..(n - i) : (i + 1) + j - 1 = i + j
    BY <1>1
  <2> QED
    BY <1>1, <2>3, <2>4, <2>5
<1>4. /\ r \in Seq(Users) /\ Len(r) = n - 1 /\ DOMAIN r = 1..(n - 1)
      /\ \A j \in 1..(n - 1) : r[j] = IF j < i THEN q[j] ELSE q[j + 1]
  <2>1. r = SubSeq(q, 1, i - 1) \o SubSeq(q, i + 1, n)
    BY DEF RemoveAt
  <2>2. /\ r \in Seq(Users) /\ Len(r) = (i - 1) + (n - i)
        /\ \A j \in 1..((i - 1) + (n - i)) : r[j] =
              IF j <= i - 1 THEN SubSeq(q, 1, i - 1)[j] ELSE SubSeq(q, i + 1, n)[j - (i - 1)]
    BY <1>2, <1>3, <2>1, ConcatProperties
  <2>3. DOMAIN r = 1..Len(r)
    BY <2>2, LenProperties
  <2>4. (i - 1) + (n - i) = n - 1
    BY <1>1
  <2>5. ASSUME NEW j \in 1..(n - 1), j < i PROVE r[j] = q[j]
    BY <1>1, <1>2, <2>2, <2>4, <2>5
  <2>6. ASSUME NEW j \in 1..(n - 1), ~(j < i) PROVE r[j] = q[j + 1]
    <3>1. j - (i - 1) \in 1..(n - i) /\ ~(j <= i - 1) /\ i + (j - (i - 1)) = j + 1
      BY <1>1, <2>6
    <3> QED
      BY <1>3, <2>2, <2>4, <3>1
  <2> QED
    BY <2>2, <2>3, <2>4, <2>5, <2>6
<1>5. IsInjective(r)
  BY <1>1, <1>4 DEF IsInjective
<1>6. ToSet(r) = ToSet(q) \ {q[i]}
  <2>1. \A j \in 1..(n - 1) : \E k \in (1..n) \ {i} : r[j] = q[k]
    BY <1>1, <1>4
  <2>2. \A k \in (1..n) \ {i} : \E j \in 1..(n - 1) : r[j] = q[k]
    <3>1. ASSUME NEW k \in 1..n, k < i PROVE \E j \in 1..(n - 1) : r[j] = q[k]
      BY <1>1, <1>4, <3>1
    <3>2. ASSUME NEW k \in 1..n, k > i PROVE \E j \in 1..(n - 1) : r[j] = q[k]
      <4>1. k - 1 \in 1..(n - 1) /\ ~(k - 1 < i) /\ (k - 1) + 1 = k
        BY <1>1, <3>2
      <4> QED
        BY <1>4, <4>1
    <3> QED
      BY <1>1, <3>1, <3>2
  <2>3. \A k \in (1..n) \ {i} : q[k] # q[i]
    BY <1>1 DEF IsInjective
  <2>4. ToSet(r) = {r[j] : j \in 1..(n - 1)} /\ ToSet(q) = {q[k] : k \in 1..n}
    BY <1>1, <1>4 DEF ToSet
  <2>5. ToSet(r) \subseteq ToSet(q) \ {q[i]}
    BY <2>1, <2>3, <2>4
  <2>6. ToSet(q) \ {q[i]} \subseteq ToSet(r)
    BY <2>2, <2>4
  <2> HIDE DEF r
  <2> QED
    BY <2>5, <2>6
<1> QED
  BY <1>4, <1>5, <1>6

(* So does taking the first out. *)
LEMMA QueueTail ==
  ASSUME NEW q \in Seq(Users), IsInjective(q), q # <<>>
  PROVE  /\ Head(q) \in Users
         /\ Tail(q) \in Seq(Users)
         /\ IsInjective(Tail(q))
         /\ ToSet(Tail(q)) = ToSet(q) \ {Head(q)}
         /\ Head(q) \in ToSet(q)
<1>1. Len(q) \in Nat \ {0} /\ DOMAIN q = 1..Len(q) /\ Head(q) = q[1]
  BY EmptySeq, LenProperties
<1>2. RemoveAt(q, 1) = Tail(q)
  <2>1. Tail(q) = SubSeq(q, 2, Len(q)) /\ Tail(q) \in Seq(Users)
    BY TailIsSubSeq, HeadTailProperties
  <2>2. SubSeq(q, 1, 1 - 1) = <<>>
    BY SubSeqEmpty
  <2> QED
    BY <2>1, <2>2, ConcatEmptySeq DEF RemoveAt
<1>3. Head(q) \in Users
  BY HeadTailProperties
<1>4. 1 \in DOMAIN q /\ Head(q) \in ToSet(q)
  BY <1>1 DEF ToSet
<1>5. /\ RemoveAt(q, 1) \in Seq(Users)
      /\ IsInjective(RemoveAt(q, 1))
      /\ ToSet(RemoveAt(q, 1)) = ToSet(q) \ {q[1]}
  BY <1>4, QueueWithout
<1> QED
  BY <1>1, <1>2, <1>3, <1>4, <1>5

(* Joining a queue. *)
LEMMA QueueWith ==
  ASSUME NEW q \in Seq(Users), IsInjective(q), NEW u \in Users, u \notin ToSet(q)
  PROVE  /\ Append(q, u) \in Seq(Users)
         /\ IsInjective(Append(q, u))
         /\ ToSet(Append(q, u)) = ToSet(q) \cup {u}
<1> DEFINE n == Len(q)
           r == Append(q, u)
<1>1. n \in Nat /\ DOMAIN q = 1..n
  BY LenProperties
<1>2. /\ r \in Seq(Users) /\ Len(r) = n + 1 /\ DOMAIN r = 1..(n + 1)
      /\ \A j \in 1..n : r[j] = q[j]
      /\ r[n + 1] = u
  <2>1. /\ r \in Seq(Users) /\ Len(r) = n + 1
        /\ \A j \in 1..n : r[j] = q[j]
        /\ r[n + 1] = u
    BY AppendProperties
  <2> QED
    BY <2>1, LenProperties
<1>3. \A j \in 1..n : q[j] # u
  BY <1>1 DEF ToSet
<1>4. IsInjective(r)
  BY <1>1, <1>2, <1>3 DEF IsInjective
<1>5. ToSet(r) = ToSet(q) \cup {u}
  BY <1>1, <1>2 DEF ToSet
<1> QED
  BY <1>2, <1>4, <1>5
-----------------------------------------------------------------------------
(* Who holds or awaits the lock is opening asyncpg's pool, and while the
   lock is held there is none.                                           *)
Locking ==
    /\ lock # None => pool = None
    /\ lock # None \/ queue # <<>> => client = "pool"
    /\ \A x \in Callers : pc[x] \in {"working", "closing"} => got[x] \in Pools
    /\ \A u \in Users : pc[u] # "closing"
    /\ \A c \in Closers :
          /\ pc[c] \notin {"waiting", "creating", "working"}
          /\ pc[c] = "closing" => status[got[c]] # "unmade"

(* A pool that closes is what some close() works on; as long as no two of
   them overlapped, it is the adapter's.                                 *)
Closings ==
    /\ \A p \in Pools : status[p] = "closing" =>
          \E c \in Closers : pc[c] = "closing" /\ got[c] = p
    /\ overlap \/ \A c \in Closers : pc[c] = "closing" =>
          /\ got[c] = pool
          /\ \A d \in Closers : pc[d] = "closing" => d = c

(* Pools that were made, and users that are past making one. *)
Made == {p \in Pools : status[p] # "unmade"}
Past == {u \in Users : pc[u] \notin {"idle", "waiting", "creating"}}

Making == Cardinality(Made) <= Cardinality(Past)

IInv == TypeOK /\ Locking /\ Making

(* Who still has to make a pool finds one that is not made. *)
LEMMA FreshIsUnmade ==
  ASSUME TypeOK, Making, NEW u \in Users, u \notin Past
  PROVE  Fresh \in Pools /\ status[Fresh] = "unmade" /\ Fresh # None
<1>1. /\ IsFiniteSet(Past) /\ Cardinality(Past) < Cardinality(Users)
      /\ Cardinality(Users) \in Nat /\ Cardinality(Past) \in Nat
  <2>1. Past \in SUBSET Users /\ Past # Users
    BY DEF Past
  <2>2. /\ IsFiniteSet(Past)
        /\ Cardinality(Past) <= Cardinality(Users)
        /\ Cardinality(Past) # Cardinality(Users)
    BY <2>1, FS_Subset, LifecycleAssumption
  <2>3. Cardinality(Users) \in Nat /\ Cardinality(Past) \in Nat
    BY <2>2, FS_CardinalityType, LifecycleAssumption
  <2> QED
    BY <2>2, <2>3
<1>2. Cardinality(Made) \in Nat /\ Cardinality(Pools) \in Nat
  <2>1. Made \in SUBSET Pools
    BY DEF Made
  <2> QED
    BY <2>1, FS_Subset, FS_CardinalityType, LifecycleAssumption
<1>3. Made # Pools
  BY <1>1, <1>2, LifecycleAssumption DEF Making
<1>4. \E p \in Pools : status[p] = "unmade"
  BY <1>3 DEF Made
<1>5. Fresh \in Pools /\ status[Fresh] = "unmade"
  BY <1>4 DEF Fresh
<1> QED
  BY <1>5, LifecycleAssumption

(* An opening user opens a pool of its own. *)
LEMMA OpenIsFresh ==
  ASSUME IInv, NEW u \in Users, pc[u] \in {"idle", "creating"}, Open(u)
  PROVE  \E p \in Pools :
            /\ p # None /\ status[p] = "unmade"
            /\ status' = [status EXCEPT ![p] = "open"]
            /\ pool' = p
            /\ got' = [got EXCEPT ![u] = p]
            /\ pc' = [pc EXCEPT ![u] = "working"]
<1>1. Fresh \in Pools /\ status[Fresh] = "unmade" /\ Fresh # None
  BY FreshIsUnmade DEF IInv, Past
<1> QED
  BY <1>1 DEF Open, Goto

LEMMA TypesKept == ASSUME IInv, [Next]_vars PROVE TypeOK'
<1> USE LifecycleAssumption DEF Callers
<1>0. TypeOK /\ Locking
  BY DEF IInv
<1>1. CASE UNCHANGED vars
  BY <1>0, <1>1 DEF vars, TypeOK, IsInjective, ToSet
<1>2. ASSUME NEW u \in Users, UNCHANGED <<client, torn, overlap, faults, status>>,
             NEW q \in {"working", "failed"}, pc' = [pc EXCEPT ![u] = q],
             pc[u] \notin {"waiting", "creating"}, UNCHANGED <<pool, lock, queue>>,
             NEW g \in Pools \cup {None}, got' = [got EXCEPT ![u] = g]
      PROVE  TypeOK'
  BY <1>0, <1>2 DEF TypeOK
<1>3. ASSUME NEW u \in Users, Reuse(u) PROVE TypeOK'
  <2>1. /\ UNCHANGED <<client, pool, status, lock, queue, torn, overlap, faults>>
        /\ pc' = [pc EXCEPT ![u] = "working"] \/ pc' = [pc EXCEPT ![u] = "failed"]
        /\ got' = [got EXCEPT ![u] = pool] /\ pool \in Pools \cup {None}
        /\ pc[u] = "idle"
    BY <1>0, <1>3 DEF Reuse, Use, Goto, TypeOK
  <2> QED
    BY <1>2, <2>1
<1>4. ASSUME NEW u \in Users, Construct(u) PROVE TypeOK'
  BY <1>0, <1>4, OpenIsFresh DEF Construct, TypeOK
<1>5. ASSUME NEW u \in Users, Lock(u) PROVE TypeOK'
  BY <1>0, <1>5 DEF Lock, Goto, TypeOK
<1>6. ASSUME NEW u \in Users, Enqueue(u) PROVE TypeOK'
  <2>1. /\ queue' \in Seq(Users) /\ IsInjective(queue')
        /\ ToSet(queue') = ToSet(queue) \cup {u}
    BY <1>0, <1>6, QueueWith DEF Enqueue, TypeOK
  <2> QED
    BY <1>0, <1>6, <2>1 DEF Enqueue, Goto, TypeOK
<1>7. ASSUME NEW u \in Users, Abandon(u) PROVE TypeOK'
  <2>1. CASE \E i \in DOMAIN queue : queue[i] = u /\ queue' = RemoveAt(queue, i) /\ UNCHANGED lock
    <3>1. /\ queue' \in Seq(Users) /\ IsInjective(queue')
          /\ ToSet(queue') = ToSet(queue) \ {u} /\ u \in ToSet(queue)
      <4>1. PICK i \in DOMAIN queue : queue[i] = u /\ queue' = RemoveAt(queue, i)
        BY <2>1
      <4>2. queue \in Seq(Users) /\ IsInjective(queue)
        BY <1>0 DEF TypeOK
      <4>3. u \in ToSet(queue)
        BY <4>1 DEF ToSet
      <4> QED
        BY <4>1, <4>2, <4>3, QueueWithout
    <3>2. pc[u] = "waiting"
      BY <1>0, <3>1 DEF TypeOK
    <3> QED
      BY <1>0, <1>7, <2>1, <3>1, <3>2 DEF Abandon, Fault, Goto, TypeOK
  <2>2. CASE pc[u] = "creating" /\ lock' = None /\ UNCHANGED queue
    BY <1>0, <1>7, <2>2 DEF Abandon, Fault, Goto, TypeOK
  <2> QED
    BY <1>7, <2>1, <2>2 DEF Abandon
<1>8. ASSUME NEW u \in Users, Wake(u) PROVE TypeOK'
  <2>1. /\ queue' \in Seq(Users) /\ IsInjective(queue')
        /\ ToSet(queue') = ToSet(queue) \ {u} /\ pc[u] = "waiting"
    <3>1. queue # <<>> /\ Head(queue) = u /\ queue' = Tail(queue)
      BY <1>8 DEF Wake
    <3> QED
      BY <1>0, <3>1, QueueTail DEF TypeOK
  <2>2. CASE pool # None /\ Use(u, pool) /\ UNCHANGED lock
    BY <1>0, <1>8, <2>1, <2>2 DEF Wake, Use, Goto, TypeOK
  <2>3. CASE pool = None /\ lock' = u /\ Goto(u, "creating") /\ UNCHANGED got
    BY <1>0, <1>8, <2>1, <2>3 DEF Wake, Goto, TypeOK
  <2> QED
    BY <1>8, <2>2, <2>3 DEF Wake
<1>9. ASSUME NEW u \in Users, Created(u) PROVE TypeOK'
  BY <1>0, <1>9, OpenIsFresh DEF Created, TypeOK
<1>10. ASSUME NEW u \in Users, Release(u) PROVE TypeOK'
  BY <1>0, <1>10 DEF Release, Goto, TypeOK
<1>11. ASSUME NEW c \in Closers, CloseAtOnce(c) PROVE TypeOK'
  BY <1>0, <1>11 DEF CloseAtOnce, Goto, TypeOK
<1>12. ASSUME NEW c \in Closers, Close(c) PROVE TypeOK'
  BY <1>0, <1>12 DEF Close, Goto, TypeOK
<1>13. ASSUME NEW c \in Closers, Closed(c) PROVE TypeOK'
  BY <1>0, <1>13 DEF Closed, Goto, TypeOK, Locking
<1>14. ASSUME NEW c \in Closers, CloseTorn(c) PROVE TypeOK'
  BY <1>0, <1>14 DEF CloseTorn, Fault, Goto, TypeOK, Locking
<1> QED
  BY <1>1, <1>3, <1>4, <1>5, <1>6, <1>7, <1>8, <1>9, <1>10, <1>11, <1>12, <1>13, <1>14
     DEF Next, Run

LEMMA LockingKept == ASSUME IInv, TypeOK', [Next]_vars PROVE Locking'
<1> USE LifecycleAssumption DEF Callers, Locking
<1>0. TypeOK /\ Locking
  BY DEF IInv
<1>1. CASE UNCHANGED vars
  BY <1>0, <1>1 DEF vars
<1>2. ASSUME NEW u \in Users, Reuse(u) PROVE Locking'
  BY <1>0, <1>2 DEF Reuse, Use, Goto, TypeOK
<1>3. ASSUME NEW u \in Users, Construct(u) PROVE Locking'
  <2>1. lock = None /\ queue = <<>>
    BY <1>0, <1>3 DEF Construct
  <2> QED
    BY <1>0, <1>3, <2>1, OpenIsFresh DEF Construct, TypeOK
<1>4. ASSUME NEW u \in Users, Lock(u) PROVE Locking'
  BY <1>0, <1>4 DEF Lock, Goto, TypeOK
<1>5. ASSUME NEW u \in Users, Enqueue(u) PROVE Locking'
  BY <1>0, <1>5 DEF Enqueue, Goto, TypeOK
<1>6. ASSUME NEW u \in Users, Abandon(u) PROVE Locking'
  <2>1. lock' # None => lock # None
    BY <1>6 DEF Abandon
  <2>2. lock' # None \/ queue' # <<>> => lock # None \/ queue # <<>>
    BY <1>6 DEF Abandon
  <2> QED
    BY <1>0, <1>6, <2>1, <2>2 DEF Abandon, Goto, TypeOK
<1>7. ASSUME NEW u \in Users, Wake(u) PROVE Locking'
  BY <1>0, <1>7 DEF Wake, Use, Goto, TypeOK
<1>8. ASSUME NEW u \in Users, Created(u) PROVE Locking'
  BY <1>0, <1>8, OpenIsFresh DEF Created, TypeOK
<1>9. ASSUME NEW u \in Users, Release(u) PROVE Locking'
  BY <1>0, <1>9 DEF Release, Goto, TypeOK
<1>10. ASSUME NEW c \in Closers, CloseAtOnce(c) PROVE Locking'
  BY <1>0, <1>10 DEF CloseAtOnce, Goto, TypeOK
<1>11. ASSUME NEW c \in Closers, Close(c) PROVE Locking'
  BY <1>0, <1>11 DEF Close, Goto, TypeOK
<1>12. ASSUME NEW c \in Closers, Closed(c) PROVE Locking'
  BY <1>0, <1>12 DEF Closed, Goto, TypeOK
<1>13. ASSUME NEW c \in Closers, CloseTorn(c) PROVE Locking'
  BY <1>0, <1>13 DEF CloseTorn, Goto, TypeOK
<1> QED
  BY <1>1, <1>2, <1>3, <1>4, <1>5, <1>6, <1>7, <1>8, <1>9, <1>10, <1>11, <1>12, <1>13
     DEF Next, Run

(* Only an opening makes a pool, and it moves its user past making one. *)
LEMMA MakingKept == ASSUME IInv, TypeOK', [Next]_vars PROVE Making'
<1> USE LifecycleAssumption DEF Callers
<1>0. TypeOK /\ Locking /\ Making
  BY DEF IInv
<1>1. /\ IsFiniteSet(Made) /\ IsFiniteSet(Past) /\ IsFiniteSet(Past')
      /\ Cardinality(Made) \in Nat /\ Cardinality(Past) \in Nat /\ Cardinality(Past') \in Nat
  <2>1. Made \in SUBSET Pools /\ Past \in SUBSET Users /\ Past' \in SUBSET Users
    BY DEF Made, Past
  <2> QED
    BY <2>1, FS_Subset, FS_CardinalityType
<1>2. ASSUME Made' = Made, Past \subseteq Past' PROVE Making'
  <2>1. Cardinality(Past) <= Cardinality(Past')
    BY <1>1, <1>2, FS_Subset
  <2> QED
    BY <1>0, <1>1, <1>2, <2>1 DEF Making
<1>3. ASSUME NEW u \in Users, pc[u] \in {"idle", "creating"}, Open(u) PROVE Making'
  <2>1. PICK p \in Pools : /\ status[p] = "unmade"
                           /\ status' = [status EXCEPT ![p] = "open"]
                           /\ pc' = [pc EXCEPT ![u] = "working"]
    BY <1>3, OpenIsFresh
  <2>2. Made' = Made \cup {p} /\ p \notin Made
    BY <1>0, <2>1 DEF Made, TypeOK
  <2>3. Past' = Past \cup {u} /\ u \notin Past
    BY <1>0, <1>3, <2>1 DEF Past, TypeOK
  <2>4. /\ Cardinality(Made') = Cardinality(Made) + 1
        /\ Cardinality(Past') = Cardinality(Past) + 1
    BY <1>1, <2>2, <2>3, FS_AddElement
  <2> QED
    BY <1>0, <1>1, <2>4 DEF Making
<1>4. CASE UNCHANGED vars
  BY <1>2, <1>4 DEF vars, Made, Past
<1>5. ASSUME NEW u \in Users,
             Reuse(u) \/ Lock(u) \/ Enqueue(u) \/ Abandon(u) \/ Wake(u) \/ Release(u)
      PROVE  Making'
  <2>1. Made' = Made
    BY <1>5 DEF Made, Reuse, Lock, Enqueue, Abandon, Wake, Release
  <2>2. pc[u] \notin {"idle", "waiting", "creating"} => pc'[u] \in {"served", "failed"}
    <3>1. CASE Wake(u)
      <4>1. u \in ToSet(queue)
        BY <1>0, <3>1, QueueTail DEF Wake, TypeOK
      <4> QED
        BY <1>0, <4>1 DEF TypeOK
    <3>2. CASE ~Wake(u)
      BY <1>0, <1>5, <3>2 DEF Reuse, Lock, Enqueue, Abandon, Release, Goto, TypeOK
    <3> QED
      BY <3>1, <3>2
  <2>3. \A v \in Users \ {u} : pc'[v] = pc[v]
    BY <1>0, <1>5 DEF Reuse, Lock, Enqueue, Abandon, Wake, Release, Use, Goto, TypeOK
  <2>4. Past \subseteq Past'
    BY <2>2, <2>3 DEF Past
  <2> QED
    BY <1>2, <2>1, <2>4
<1>6. ASSUME NEW c \in Closers,
             CloseAtOnce(c) \/ Close(c) \/ CloseTorn(c) \/ Closed(c)
      PROVE  Making'
  <2>1. \A v \in Users : pc'[v] = pc[v]
    BY <1>0, <1>6 DEF CloseAtOnce, Close, CloseTorn, Closed, Goto, TypeOK
  <2>2. Made' = Made
    BY <1>0, <1>6 DEF CloseAtOnce, Close, CloseTorn, Closed, Made, Locking, TypeOK
  <2> QED
    BY <1>2, <2>1, <2>2 DEF Past
<1> QED
  BY <1>3, <1>4, <1>5, <1>6 DEF Next, Run, Construct, Created

LEMMA Invariants == Spec => []IInv
<1>1. Init => IInv
  <2> SUFFICES ASSUME Init PROVE IInv
    OBVIOUS
  <2> USE LifecycleAssumption DEF Init, Callers
  <2>1. queue \in Seq(Users) /\ IsInjective(queue) /\ ToSet(queue) = {}
    BY EmptySeq DEF IsInjective, ToSet
  <2>2. TypeOK
    <3>1. faults \in 0..MaxFaults
      OBVIOUS
    <3>2. \A u \in Users : pc[u] = "idle" /\ u # None
      OBVIOUS
    <3> QED
      BY <2>1, <3>1, <3>2 DEF TypeOK
  <2>3. Made = {} /\ Past = {}
    BY DEF Made, Past
  <2>4. Making
    BY <2>3, FS_EmptySet DEF Making
  <2>5. Locking
    BY DEF Locking
  <2> QED
    BY <2>2, <2>4, <2>5 DEF IInv
<1>2. IInv /\ [Next]_vars => IInv'
  BY TypesKept, LockingKept, MakingKept DEF IInv
<1> QED
  BY <1>1, <1>2, PTL DEF Spec

(* The variables have their types in every reachable state: one coroutine at
   most holds the lock, and those that wait for it are the queue, once each. *)
THEOREM TypeCorrect == Spec => []TypeOK
  BY Invariants, PTL DEF IInv
-----------------------------------------------------------------------------
LEMMA ClosingsInvariant == Spec => []Closings
<1> USE LifecycleAssumption DEF Callers, Closings
<1>1. Init => Closings
  BY DEF Init
<1>2. IInv /\ Closings /\ [Next]_vars => Closings'
  <2> SUFFICES ASSUME IInv, Closings, [Next]_vars PROVE Closings'
    OBVIOUS
  <2> USE DEF IInv, TypeOK
  <2>1. CASE UNCHANGED vars
    BY <2>1 DEF vars
  <2>2. ASSUME NEW u \in Users,
               Reuse(u) \/ Lock(u) \/ Enqueue(u) \/ Abandon(u) \/ Wake(u) \/ Release(u)
        PROVE  Closings'
    <3>1. UNCHANGED <<pool, status, overlap>>
          /\ \A c \in Closers : pc'[c] = pc[c] /\ got'[c] = got[c]
      BY <2>2 DEF Reuse, Lock, Enqueue, Abandon, Wake, Release, Use, Goto
    <3> QED
      BY <3>1
  <2>3. ASSUME NEW u \in Users, Construct(u) \/ Created(u) PROVE Closings'
    <3>1. pool = None /\ UNCHANGED overlap /\ Open(u) /\ pc[u] \in {"idle", "creating"}
      BY <2>3 DEF Construct, Created, Locking
    <3>2. PICK p \in Pools : /\ status' = [status EXCEPT ![p] = "open"]
                             /\ got' = [got EXCEPT ![u] = p]
                             /\ pc' = [pc EXCEPT ![u] = "working"]
                             /\ status[p] = "unmade"
      BY <3>1, OpenIsFresh
    <3>3. \A c \in Closers : pc'[c] = pc[c] /\ got'[c] = got[c]
      BY <3>2
    <3>4. overlap \/ \A c \in Closers : pc[c] # "closing"
      BY <3>1 DEF Locking
    <3> QED
      BY <3>1, <3>2, <3>3, <3>4
  <2>4. ASSUME NEW c \in Closers, CloseAtOnce(c) PROVE Closings'
    BY <2>4 DEF CloseAtOnce, Goto
  <2>5. ASSUME NEW c \in Closers, Close(c) PROVE Closings'
    BY <2>5 DEF Close, Goto
  <2>6. ASSUME NEW c \in Closers, Closed(c) PROVE Closings'
    BY <2>6 DEF Closed, Goto, Locking
  <2>7. ASSUME NEW c \in Closers, CloseTorn(c) PROVE Closings'
    BY <2>7 DEF CloseTorn, Goto, Locking
  <2> QED
    BY <2>1, <2>2, <2>3, <2>4, <2>5, <2>6, <2>7 DEF Next, Run
<1> QED
  BY <1>1, <1>2, Invariants, PTL DEF Spec

(* No pool stays open out of the adapter's reach, unless closes overlapped. *)
THEOREM NothingOrphaned == Spec => []NoOrphanedPool
<1> USE LifecycleAssumption DEF Callers, NoOrphanedPool
<1>1. Init => NoOrphanedPool
  BY DEF Init
<1>2. IInv /\ Closings /\ NoOrphanedPool /\ [Next]_vars => NoOrphanedPool'
  <2> SUFFICES ASSUME IInv, Closings, NoOrphanedPool, [Next]_vars PROVE NoOrphanedPool'
    OBVIOUS
  <2> USE DEF IInv, TypeOK
  <2>1. CASE UNCHANGED <<pool, status, overlap>>
    BY <2>1
  <2>2. ASSUME NEW u \in Users, Construct(u) \/ Created(u) PROVE NoOrphanedPool'
    <3>1. pool = None /\ UNCHANGED overlap /\ Open(u) /\ pc[u] \in {"idle", "creating"}
      BY <2>2 DEF Construct, Created, Locking
    <3>2. PICK p \in Pools : status' = [status EXCEPT ![p] = "open"] /\ pool' = p
      BY <3>1, OpenIsFresh
    <3> QED
      BY <3>1, <3>2
  <2>3. ASSUME NEW c \in Closers, CloseAtOnce(c) PROVE NoOrphanedPool'
    <3>1. overlap' \/ \A p \in Pools : status[p] # "closing"
      BY <2>3 DEF CloseAtOnce, Closings
    <3> QED
      BY <2>3, <3>1 DEF CloseAtOnce
  <2>4. ASSUME NEW c \in Closers, Close(c) PROVE NoOrphanedPool'
    BY <2>4 DEF Close
  <2>5. ASSUME NEW c \in Closers, Closed(c) PROVE NoOrphanedPool'
    <3>1. overlap \/ got[c] = pool
      BY <2>5 DEF Closed, Closings
    <3> QED
      BY <2>5, <3>1 DEF Closed
  <2>6. ASSUME NEW c \in Closers, CloseTorn(c) PROVE NoOrphanedPool'
    BY <2>6 DEF CloseTorn
  <2> QED
    BY <2>1, <2>2, <2>3, <2>4, <2>5, <2>6 DEF Next, Run, vars, Reuse, Lock, Enqueue,
       Abandon, Wake, Release
<1> QED
  BY <1>1, <1>2, Invariants, ClosingsInvariant, PTL DEF Spec

(* The adapter never settles on a closed pool, unless its close() raised. *)
THEOREM NothingDead == Spec => []NoDeadPool
<1> USE LifecycleAssumption DEF Callers, NoDeadPool
<1>1. Init => NoDeadPool
  BY DEF Init
<1>2. IInv /\ NoDeadPool /\ [Next]_vars => NoDeadPool'
  <2> SUFFICES ASSUME IInv, NoDeadPool, [Next]_vars PROVE NoDeadPool'
    OBVIOUS
  <2> USE DEF IInv, TypeOK
  <2>1. CASE UNCHANGED <<pool, status, torn>>
    BY <2>1
  <2>2. ASSUME NEW u \in Users, Construct(u) \/ Created(u) PROVE NoDeadPool'
    <3>1. Open(u) /\ pc[u] \in {"idle", "creating"}
      BY <2>2 DEF Construct, Created
    <3>2. PICK p \in Pools : status' = [status EXCEPT ![p] = "open"] /\ pool' = p
      BY <3>1, OpenIsFresh
    <3> QED
      BY <3>2
  <2>3. ASSUME NEW c \in Closers, CloseAtOnce(c) \/ Closed(c) PROVE NoDeadPool'
    BY <2>3 DEF CloseAtOnce, Closed
  <2>4. ASSUME NEW c \in Closers, Close(c) PROVE NoDeadPool'
    BY <2>4 DEF Close
  <2>5. ASSUME NEW c \in Closers, CloseTorn(c) PROVE NoDeadPool'
    BY <2>5 DEF CloseTorn
  <2> QED
    BY <2>1, <2>2, <2>3, <2>4, <2>5 DEF Next, Run, vars, Reuse, Lock, Enqueue,
       Abandon, Wake, Release
<1> QED
  BY <1>1, <1>2, Invariants, PTL DEF Spec
=============================================================================
