----------------------- MODULE SubjectContext_proofs -----------------------
(***************************************************************************)
(* Proofs about SubjectContext, for every set of tasks, generators and     *)
(* bindings, and without a bound that matters on the open blocks.          *)
(*                                                                         *)
(* The argument: no two tasks execute the same frame (Apart), so only a    *)
(* task itself touches the blocks around it; and as long as no generator   *)
(* paused inside a block, each block's token holds what was in force when  *)
(* it was entered, made in the task that will leave it (Nested).           *)
(***************************************************************************)
EXTENDS SubjectContext, Integers, SequenceTheorems, WellFoundedInduction, TLAPS

(* A nonempty set of positions has a last one. *)
LEMMA HasMax ==
  ASSUME NEW k \in Nat, NEW S \in SUBSET (1..k), S # {}
  PROVE  Max(S) \in S /\ \A y \in S : y <= Max(S)
<1> DEFINE R == OpToRel(<, Nat)
           T == {k - i : i \in S}
<1>1. IsWellFoundedOn(R, Nat)
  BY NatLessThanWellFounded
<1>2. T \subseteq Nat
  OBVIOUS
<1>3. T # {}
  <2>1. PICK i \in S : TRUE
    OBVIOUS
  <2>2. k - i \in T
    BY <2>1
  <2> QED
    BY <2>2
<1> HIDE DEF R, T
<1>4. PICK x \in T : \A y \in T : ~(<<y, x>> \in R)
  BY <1>1, <1>2, <1>3, WFMin
<1>5. \A y \in T : ~(y < x)
  BY <1>2, <1>4 DEF R, OpToRel
<1>6. PICK i \in S : x = k - i
  BY DEF T
<1>7. ASSUME NEW y \in S PROVE y <= i
  <2>1. ~(k - y < k - i)
    BY <1>5, <1>6 DEF T
  <2>2. y \in 1..k /\ i \in 1..k
    BY <1>6
  <2> QED
    BY <2>1, <2>2
<1> QED
  BY <1>7 DEF Max

(* What is in force inside the first k of the blocks s, if outside them it
   is d.                                                                 *)
BindingOf(s, k) == {i \in 1..k : ~s[i].late}

Under(s, k, d) ==
    IF BindingOf(s, k) # {} THEN s[Max(BindingOf(s, k))].bound ELSE d

LEMMA UnderAgrees ==
  ASSUME NEW s, NEW r, NEW k \in Nat, \A i \in 1..k : s[i] = r[i], NEW d
  PROVE  Under(s, k, d) = Under(r, k, d)
<1>1. BindingOf(s, k) = BindingOf(r, k) /\ BindingOf(s, k) \in SUBSET (1..k)
  BY DEF BindingOf
<1>2. BindingOf(s, k) # {} => Max(BindingOf(s, k)) \in 1..k
  BY <1>1, HasMax
<1> QED
  BY <1>1, <1>2 DEF Under

LEMMA UnderNone == ASSUME NEW s, NEW d PROVE Under(s, 0, d) = d
BY DEF Under, BindingOf

LEMMA UnderNext ==
  ASSUME NEW s, NEW k \in Nat, NEW d
  PROVE  Under(s, k + 1, d) = IF s[k + 1].late THEN Under(s, k, d) ELSE s[k + 1].bound
<1>1. CASE s[k + 1].late
  <2>1. BindingOf(s, k + 1) = BindingOf(s, k)
    BY <1>1 DEF BindingOf
  <2> QED
    BY <1>1, <2>1 DEF Under
<1>2. CASE ~s[k + 1].late
  <2>1. /\ BindingOf(s, k + 1) \in SUBSET (1..(k + 1))
        /\ k + 1 \in BindingOf(s, k + 1)
        /\ k + 1 \in Nat
    BY <1>2 DEF BindingOf
  <2>2. /\ Max(BindingOf(s, k + 1)) \in 1..(k + 1)
        /\ k + 1 <= Max(BindingOf(s, k + 1))
    BY <2>1, HasMax
  <2>3. Max(BindingOf(s, k + 1)) = k + 1
    BY <2>2
  <2> QED
    BY <1>2, <2>1, <2>3 DEF Under
<1> QED
  BY <1>1, <1>2
-----------------------------------------------------------------------------
(* The blocks s are nested as task t entered them: a block that binds keeps,
   in a token of that task, what was in force when it was entered.       *)
Chained(t, s, d) ==
    \A i \in 1..Len(s) :
       IF s[i].late THEN s[i].token = None
       ELSE /\ s[i].token = Under(s, i - 1, d)
            /\ s[i].token # None
            /\ s[i].home = t

LEMMA ChainAppended ==
  ASSUME NEW s \in Seq(Blocks), NEW b \in Blocks, NEW t, NEW d, Chained(t, s, d),
         IF b.late THEN b.token = None
         ELSE b.token = Under(s, Len(s), d) /\ b.token # None /\ b.home = t
  PROVE  /\ Chained(t, Append(s, b), d)
         /\ Under(Append(s, b), Len(Append(s, b)), d)
               = IF b.late THEN Under(s, Len(s), d) ELSE b.bound
<1> DEFINE n == Len(s)
           r == Append(s, b)
<1>1. n \in Nat /\ Len(r) = n + 1 /\ r[n + 1] = b /\ \A i \in 1..n : r[i] = s[i]
  BY LenProperties, AppendProperties
<1> HIDE DEF n, r
<1>2. ASSUME NEW k \in 0..n PROVE Under(r, k, d) = Under(s, k, d)
  <2>1. k \in Nat /\ \A i \in 1..k : r[i] = s[i]
    BY <1>1
  <2> QED
    BY <2>1, UnderAgrees
<1>3. Under(r, n + 1, d) = IF b.late THEN Under(s, n, d) ELSE b.bound
  BY <1>1, <1>2, UnderNext
<1>4. ASSUME NEW i \in 1..(n + 1)
      PROVE  IF r[i].late THEN r[i].token = None
             ELSE r[i].token = Under(r, i - 1, d) /\ r[i].token # None /\ r[i].home = t
  <2>1. CASE i = n + 1
    <3>1. Under(r, i - 1, d) = Under(s, n, d)
      BY <1>1, <1>2, <2>1
    <3> QED
      BY <1>1, <2>1, <3>1 DEF n
  <2>2. CASE i # n + 1
    <3>1. i \in 1..n /\ i - 1 \in 0..n
      BY <1>1, <2>2
    <3>2. r[i] = s[i] /\ Under(r, i - 1, d) = Under(s, i - 1, d)
      BY <1>1, <1>2, <3>1
    <3> QED
      BY <3>1, <3>2 DEF Chained, n
  <2> QED
    BY <2>1, <2>2
<1> QED
  BY <1>1, <1>3, <1>4 DEF Chained, n, r

LEMMA FrontOf ==
  ASSUME NEW s \in Seq(Blocks), s # <<>>
  PROVE  /\ Front(s) \in Seq(Blocks)
         /\ Len(s) \in Nat \ {0}
         /\ Len(Front(s)) = Len(s) - 1
         /\ \A i \in 1..(Len(s) - 1) : Front(s)[i] = s[i]
         /\ Last(s) = s[Len(s)] /\ Last(s) \in Blocks
<1> DEFINE n == Len(s)
           r == Front(s)
<1>1. n \in Nat \ {0} /\ \A i \in 1..n : s[i] \in Blocks
  BY EmptySeq, ElementOfSeq
<1>2. \A i \in 1..(n - 1) : s[i] \in Blocks
  BY <1>1
<1>3. /\ r \in Seq(Blocks)
      /\ Len(r) = IF 1 <= n - 1 THEN (n - 1) - 1 + 1 ELSE 0
      /\ \A i \in 1..((n - 1) - 1 + 1) : r[i] = s[1 + i - 1]
  BY <1>1, <1>2, SubSeqProperties DEF Front
<1>4. Last(s) = s[n]
  BY DEF Last
<1> HIDE DEF n, r
<1>5. (n - 1) - 1 + 1 = n - 1 /\ \A i \in 1..(n - 1) : 1 + i - 1 = i
  BY <1>1
<1>6. Len(r) = n - 1
  BY <1>1, <1>3
<1>7. \A i \in 1..(n - 1) : r[i] = s[i]
  BY <1>3, <1>5
<1> QED
  BY <1>1, <1>3, <1>4, <1>6, <1>7 DEF n, r

LEMMA ChainShortened ==
  ASSUME NEW s \in Seq(Blocks), s # <<>>, NEW t, NEW d, Chained(t, s, d)
  PROVE  /\ Front(s) \in Seq(Blocks)
         /\ Chained(t, Front(s), d)
         /\ Last(s) \in Blocks
         /\ IF Last(s).late
              THEN /\ Last(s).token = None
                   /\ Under(Front(s), Len(Front(s)), d) = Under(s, Len(s), d)
              ELSE /\ Last(s).token # None /\ Last(s).home = t
                   /\ Under(Front(s), Len(Front(s)), d) = Last(s).token
<1> DEFINE n == Len(s)
           r == Front(s)
<1>1. n \in Nat \ {0}
  BY FrontOf
<1>2. r \in Seq(Blocks) /\ Len(r) = n - 1 /\ \A i \in 1..(n - 1) : r[i] = s[i]
  BY FrontOf
<1>3. Last(s) = s[n] /\ Last(s) \in Blocks
  BY FrontOf
<1> HIDE DEF n, r
<1>4. ASSUME NEW k \in 0..(n - 1) PROVE Under(r, k, d) = Under(s, k, d)
  <2>1. k \in Nat /\ \A i \in 1..k : r[i] = s[i]
    BY <1>1, <1>2
  <2> QED
    BY <2>1, UnderAgrees
<1>5. Under(s, n, d) = IF s[n].late THEN Under(s, n - 1, d) ELSE s[n].bound
  <2>1. n - 1 \in Nat /\ (n - 1) + 1 = n
    BY <1>1
  <2>2. Under(s, (n - 1) + 1, d)
           = IF s[(n - 1) + 1].late THEN Under(s, n - 1, d) ELSE s[(n - 1) + 1].bound
    BY <2>1, UnderNext
  <2> QED
    BY <2>1, <2>2
<1>6. Under(r, n - 1, d) = Under(s, n - 1, d)
  BY <1>1, <1>4
<1>7. IF s[n].late THEN s[n].token = None
      ELSE s[n].token = Under(s, n - 1, d) /\ s[n].token # None /\ s[n].home = t
  BY <1>1 DEF Chained, n
<1>8. ASSUME NEW i \in 1..(n - 1)
      PROVE  IF r[i].late THEN r[i].token = None
             ELSE r[i].token = Under(r, i - 1, d) /\ r[i].token # None /\ r[i].home = t
  <2>1. i \in 1..n /\ i - 1 \in 0..(n - 1) /\ r[i] = s[i]
    BY <1>1, <1>2
  <2>2. Under(r, i - 1, d) = Under(s, i - 1, d)
    BY <1>4, <2>1
  <2> QED
    BY <2>1, <2>2 DEF Chained, n
<1>9. Chained(t, r, d)
  BY <1>2, <1>8 DEF Chained
<1> QED
  BY <1>1, <1>2, <1>3, <1>5, <1>6, <1>7, <1>9 DEF n, r
-----------------------------------------------------------------------------
(* The body of a call with the keyword either enters a block or leaves the
   context alone.                                                        *)
LEMMA TaggedCallOpens ==
  ASSUME TypeOK, NEW t \in Tasks, (\E b \in Bindings : Enter(t, b)) \/ CallTagged(t)
  PROVE  \E b \in Blocks :
            /\ Open(t, b) /\ b.home = t
            /\ IF b.late THEN b.token = None /\ UNCHANGED ctx
               ELSE b.token = ctx[t] /\ ctx' = [ctx EXCEPT ![t] = b.bound]
<1>1. ASSUME NEW b \in Bindings, Enter(t, b)
      PROVE  \E c \in Blocks :
                /\ Open(t, c) /\ c.home = t
                /\ IF c.late THEN c.token = None /\ UNCHANGED ctx
                   ELSE c.token = ctx[t] /\ ctx' = [ctx EXCEPT ![t] = c.bound]
  <2> DEFINE c == [bound |-> b, token |-> ctx[t], home |-> t, late |-> FALSE]
  <2>1. c \in Blocks /\ c.home = t /\ ~c.late /\ c.token = ctx[t] /\ c.bound = b
    BY DEF Blocks, TypeOK
  <2>2. Open(t, c) /\ ctx' = [ctx EXCEPT ![t] = b]
    BY <1>1 DEF Enter, Bind
  <2> HIDE DEF c
  <2> QED
    BY <2>1, <2>2
<1>2. ASSUME NEW b \in Bindings, UNCHANGED ctx,
             Open(t, [bound |-> b, token |-> None, home |-> t, late |-> TRUE])
      PROVE  \E c \in Blocks :
                /\ Open(t, c) /\ c.home = t
                /\ IF c.late THEN c.token = None /\ UNCHANGED ctx
                   ELSE c.token = ctx[t] /\ ctx' = [ctx EXCEPT ![t] = c.bound]
  <2> DEFINE c == [bound |-> b, token |-> None, home |-> t, late |-> TRUE]
  <2>1. c \in Blocks /\ c.home = t /\ c.late /\ c.token = None
    BY DEF Blocks
  <2>2. Open(t, c)
    BY <1>2
  <2> HIDE DEF c
  <2> QED
    BY <1>2, <2>1, <2>2
<1>3. CASE CallTagged(t)
  <2>1. PICK b \in Bindings, k \in Kinds :
           \/ RunsInside(k) /\ Enter(t, b)
           \/ /\ ~RunsInside(k)
              /\ Open(t, [bound |-> b, token |-> None, home |-> t, late |-> k = "late"])
              /\ UNCHANGED ctx
    BY <1>3 DEF CallTagged
  <2>2. ~RunsInside(k) => (k = "late") = TRUE
    BY DEF Kinds, RunsInside, AsyncWrapper
  <2> QED
    BY <1>1, <1>2, <2>1, <2>2
<1> QED
  BY <1>1, <1>3

(* No two tasks execute the same frame; a task that is not created yet has
   entered nothing.                                                      *)
Apart ==
    /\ \A t, u \in Tasks : running[t] = running[u] => t = u
    /\ \A t \in Tasks \ born : running[t] = t /\ blocks[t] = <<>>

Shape == TypeOK /\ Apart

LEMMA TypesKept == ASSUME Shape, [Next]_vars PROVE TypeOK'
<1> USE ContextAssumption DEF Frames
<1> USE DEF TypeOK, Shape
<1>1. CASE UNCHANGED vars
  BY <1>1 DEF vars
<1>2. ASSUME NEW t \in Tasks, (\E b \in Bindings : Enter(t, b)) \/ CallTagged(t)
      PROVE  TypeOK'
  <2>1. PICK b \in Blocks :
           /\ Open(t, b) /\ b.home = t
           /\ IF b.late THEN b.token = None /\ UNCHANGED ctx
              ELSE b.token = ctx[t] /\ ctx' = [ctx EXCEPT ![t] = b.bound]
    BY <1>2, TaggedCallOpens
  <2>2. ctx' \in [Tasks -> Bindings \cup {Unbound}]
    BY <2>1 DEF Blocks
  <2> DEFINE f == running[t]
  <2>3. /\ t \in born /\ f \in Frames /\ UNCHANGED <<born, running, heir, leaked>>
        /\ blocks' = [blocks EXCEPT ![f] = Append(blocks[f], b)]
    BY <2>1 DEF Open
  <2>4. /\ Append(blocks[f], b) \in Seq(Blocks)
        /\ \A i \in DOMAIN Append(blocks[f], b) : Append(blocks[f], b)[i].home \in born
    <3>1. blocks[f] \in Seq(Blocks)
      BY <2>3
    <3>2. /\ Append(blocks[f], b) \in Seq(Blocks)
          /\ Len(Append(blocks[f], b)) = Len(blocks[f]) + 1
          /\ \A i \in 1..Len(blocks[f]) : Append(blocks[f], b)[i] = blocks[f][i]
          /\ Append(blocks[f], b)[Len(blocks[f]) + 1] = b
      BY <3>1, AppendProperties
    <3>3. /\ DOMAIN blocks[f] = 1..Len(blocks[f]) /\ Len(blocks[f]) \in Nat
          /\ DOMAIN Append(blocks[f], b) = 1..(Len(blocks[f]) + 1)
      BY <3>1, <3>2, LenProperties
    <3>4. \A i \in 1..Len(blocks[f]) : Append(blocks[f], b)[i].home \in born
      BY <2>3, <3>2, <3>3
    <3>5. Append(blocks[f], b)[Len(blocks[f]) + 1].home \in born
      BY <2>1, <2>3, <3>2
    <3> QED
      BY <3>2, <3>3, <3>4, <3>5
  <2> HIDE DEF f
  <2> QED
    BY <2>2, <2>3, <2>4
<1>3. ASSUME NEW t \in Tasks, Exit(t) PROVE TypeOK'
  <2> DEFINE f == running[t]
  <2>1. /\ t \in born /\ f \in Frames /\ UNCHANGED <<born, running, heir, leaked>>
        /\ blocks' = [blocks EXCEPT ![f] = Front(blocks[f])]
        /\ blocks[f] # <<>> /\ blocks[f] \in Seq(Blocks)
    BY <1>3 DEF Exit
  <2>2. /\ Front(blocks[f]) \in Seq(Blocks)
        /\ \A i \in DOMAIN Front(blocks[f]) : Front(blocks[f])[i].home \in born
    <3>1. /\ Len(blocks[f]) \in Nat \ {0}
          /\ Front(blocks[f]) \in Seq(Blocks)
          /\ Len(Front(blocks[f])) = Len(blocks[f]) - 1
          /\ \A i \in 1..(Len(blocks[f]) - 1) : Front(blocks[f])[i] = blocks[f][i]
      BY <2>1, FrontOf
    <3>2. /\ DOMAIN blocks[f] = 1..Len(blocks[f])
          /\ DOMAIN Front(blocks[f]) = 1..(Len(blocks[f]) - 1)
      BY <2>1, <3>1, LenProperties
    <3>3. \A i \in DOMAIN Front(blocks[f]) :
             i \in DOMAIN blocks[f] /\ Front(blocks[f])[i] = blocks[f][i]
      BY <3>1, <3>2
    <3> QED
      BY <2>1, <3>1, <3>3
  <2>3. ctx' \in [Tasks -> Bindings \cup {Unbound}]
    <3>1. Last(blocks[f]) \in Blocks
      BY <2>1, FrontOf
    <3>2. Unbind(t, Last(blocks[f]))
      BY <1>3 DEF Exit
    <3> HIDE DEF f
    <3> QED
      BY <3>1, <3>2 DEF Unbind, Blocks
  <2> HIDE DEF f
  <2> QED
    BY <2>1, <2>2, <2>3
<1>4. ASSUME NEW t \in Tasks, NEW u \in Tasks, Spawn(t, u) PROVE TypeOK'
  <2>1. InForce(t) \in Bindings \cup {Unbound}
    <3>1. ASSUME NEW f \in Frames, Binding(f) # {} PROVE Innermost(f) \in Bindings
      <4>1. blocks[f] \in Seq(Blocks)
        OBVIOUS
      <4>2. DOMAIN blocks[f] = 1..Len(blocks[f]) /\ Len(blocks[f]) \in Nat
        BY <4>1, LenProperties
      <4>3. Binding(f) \in SUBSET (1..Len(blocks[f]))
        BY <4>2 DEF Binding
      <4>4. Max(Binding(f)) \in 1..Len(blocks[f])
        BY <3>1, <4>2, <4>3, HasMax
      <4>5. blocks[f][Max(Binding(f))] \in Blocks
        BY <4>1, <4>4, ElementOfSeq
      <4> QED
        BY <4>5 DEF Innermost, Blocks
    <3> QED
      BY <3>1 DEF InForce
  <2> QED
    BY <1>4, <2>1 DEF Spawn
<1>5. ASSUME NEW t \in Tasks, NEW g \in Gens, Resume(t, g) PROVE TypeOK'
  BY <1>5 DEF Resume
<1>6. ASSUME NEW t \in Tasks, Yield(t) PROVE TypeOK'
  <2>1. t \in born
    BY <1>6 DEF Yield, Apart
  <2> QED
    BY <1>6, <2>1 DEF Yield
<1> QED
  BY <1>1, <1>2, <1>3, <1>4, <1>5, <1>6 DEF Next, Step

LEMMA ApartKept == ASSUME Shape, [Next]_vars PROVE Apart'
<1> USE ContextAssumption DEF Frames, Shape, TypeOK, Apart
<1>1. CASE UNCHANGED vars
  BY <1>1 DEF vars
<1>2. ASSUME NEW t \in Tasks, UNCHANGED <<born, running>>, t \in born,
             NEW s, blocks' = [blocks EXCEPT ![running[t]] = s]
      PROVE  Apart'
  <2>1. \A u \in Tasks \ born : running[t] # u
    BY <1>2
  <2> QED
    BY <1>2, <2>1
<1>3. ASSUME NEW t \in Tasks, (\E b \in Bindings : Enter(t, b)) \/ CallTagged(t)
      PROVE  Apart'
  <2>1. PICK b \in Blocks : Open(t, b)
    BY <1>3, TaggedCallOpens
  <2> QED
    BY <1>2, <2>1 DEF Open
<1>4. ASSUME NEW t \in Tasks, Exit(t) PROVE Apart'
  BY <1>2, <1>4 DEF Exit
<1>5. ASSUME NEW t \in Tasks, NEW u \in Tasks, Spawn(t, u) PROVE Apart'
  BY <1>5 DEF Spawn
<1>6. ASSUME NEW t \in Tasks, NEW g \in Gens, Resume(t, g) PROVE Apart'
  BY <1>6 DEF Resume, Executing
<1>7. ASSUME NEW t \in Tasks, Yield(t) PROVE Apart'
  BY <1>7 DEF Yield
<1> QED
  BY <1>1, <1>3, <1>4, <1>5, <1>6, <1>7 DEF Next, Step

LEMMA InitHasShape == Init => Shape
<1> SUFFICES ASSUME Init PROVE Shape
  OBVIOUS
<1>1. <<>> \in Seq(Blocks) /\ DOMAIN <<>> = {}
  BY EmptySeq
<1> QED
  BY <1>1, ContextAssumption DEF Init, Shape, TypeOK, Apart, Frames

LEMMA ShapeInvariant == Spec => []Shape
<1>1. Init => Shape
  BY InitHasShape
<1>2. Shape /\ [Next]_vars => Shape'
  BY TypesKept, ApartKept DEF Shape
<1> QED
  BY <1>1, <1>2, PTL DEF Spec

(* The variables have their types in every reachable state. *)
THEOREM TypeCorrect == Spec => []TypeOK
  BY ShapeInvariant, PTL DEF Shape
-----------------------------------------------------------------------------
(* What is in force around the frame a task executes: for a generator, what
   the task's own blocks bind.                                           *)
Outer(t) == Under(blocks[t], Len(blocks[t]), heir[t])

Around(t) == IF running[t] = t THEN heir[t] ELSE Outer(t)

Nested ==
    \A t \in born \ leaked :
       /\ Chained(t, blocks[t], heir[t])
       /\ Chained(t, blocks[running[t]], Around(t))

InForceIsUnder ==
    \A t \in Tasks :
       InForce(t) = Under(blocks[running[t]], Len(blocks[running[t]]), Around(t))

LEMMA InForceMeans == Shape => InForceIsUnder
<1> SUFFICES ASSUME Shape, NEW t \in Tasks
             PROVE  InForce(t) = Under(blocks[running[t]], Len(blocks[running[t]]), Around(t))
  BY DEF InForceIsUnder
<1>1. ASSUME NEW f \in Frames PROVE Binding(f) = BindingOf(blocks[f], Len(blocks[f]))
  <2>1. DOMAIN blocks[f] = 1..Len(blocks[f])
    BY LenProperties DEF Shape, TypeOK
  <2> QED
    BY <2>1 DEF Binding, BindingOf
<1>2. t \in Frames /\ running[t] \in Frames
  BY DEF Shape, TypeOK, Frames
<1> QED
  BY <1>1, <1>2 DEF InForce, Innermost, Around, Outer, Under

IInv == Nested /\ InnermostBlockRules

(* A step of task t that leaves the blocks s in the frame it executes
   changes nothing around the other tasks.                               *)
LEMMA OthersKeepTheirs ==
  ASSUME Shape, Shape', IInv, NEW t \in Tasks, t \in born,
         UNCHANGED <<born, running, heir, leaked>>,
         \A u \in Tasks \ {t} : ctx'[u] = ctx[u],
         NEW s, blocks' = [blocks EXCEPT ![running[t]] = s],
         t \notin leaked => /\ Chained(t, s, Around(t))
                            /\ ctx'[t] = Under(s, Len(s), Around(t))
  PROVE  IInv'
<1>1. InForceIsUnder /\ InForceIsUnder'
  <2>1. Shape' => InForceIsUnder'
    BY InForceMeans, PTL
  <2> QED
    BY <2>1, InForceMeans
<1>2. /\ blocks'[running[t]] = s
      /\ running[t] # t => blocks'[t] = blocks[t]
  BY ContextAssumption DEF Shape, TypeOK, Apart, Frames
<1>3. Around(t)' = Around(t)
  BY <1>2 DEF Around, Outer
<1>4. ASSUME NEW u \in Tasks \ {t}
      PROVE  /\ blocks'[u] = blocks[u]
             /\ blocks'[running[u]] = blocks[running[u]]
             /\ Around(u)' = Around(u)
  <2>1. running[t] # u /\ running[t] # running[u] /\ running[u] \in Frames /\ u \in Frames
    BY <1>4, ContextAssumption DEF Shape, TypeOK, Apart, Frames
  <2>2. blocks'[u] = blocks[u] /\ blocks'[running[u]] = blocks[running[u]]
    BY <2>1 DEF Shape, TypeOK
  <2> QED
    BY <2>2 DEF Around, Outer
<1>5. ASSUME NEW u \in Tasks \ {t}
      PROVE  InForce(u)' = InForce(u)
  BY <1>1, <1>4, <1>5 DEF InForceIsUnder
<1>6. InForce(t)' = Under(s, Len(s), Around(t))
  <2>1. running'[t] = running[t]
    OBVIOUS
  <2> QED
    BY <1>1, <1>2, <1>3, <2>1 DEF InForceIsUnder
<1>7. ASSUME NEW u \in born \ leaked
      PROVE  /\ Chained(u, blocks'[u], heir'[u])
             /\ Chained(u, blocks'[running'[u]], Around(u)')
             /\ ctx'[u] = InForce(u)'
  <2>1. /\ Chained(u, blocks[u], heir[u])
        /\ Chained(u, blocks[running[u]], Around(u))
        /\ ctx[u] = InForce(u)
    BY <1>7 DEF IInv, Nested, InnermostBlockRules
  <2>2. u \in Tasks
    BY <1>7 DEF Shape, TypeOK
  <2>3. CASE u # t
    BY <1>4, <1>5, <2>1, <2>2, <2>3
  <2>4. CASE u = t /\ running[t] = t
    <3>1. Around(t) = heir[t]
      BY <2>4 DEF Around
    <3> QED
      BY <1>2, <1>3, <1>6, <1>7, <2>4, <3>1
  <2>5. CASE u = t /\ running[t] # t
    BY <1>2, <1>3, <1>6, <1>7, <2>1, <2>5
  <2> QED
    BY <2>3, <2>4, <2>5
<1> QED
  BY <1>7 DEF IInv, Nested, InnermostBlockRules

(* A new block binds; its token remembers what was in force. *)
LEMMA OpeningKeeps ==
  ASSUME Shape, Shape', IInv, NEW t \in Tasks, NEW b \in Blocks, Open(t, b), b.home = t,
         IF b.late THEN b.token = None /\ UNCHANGED ctx
         ELSE b.token = ctx[t] /\ ctx' = [ctx EXCEPT ![t] = b.bound]
  PROVE  IInv'
<1> DEFINE s == blocks[running[t]]
           r == Append(s, b)
<1>1. /\ t \in born /\ UNCHANGED <<born, running, heir, leaked>>
      /\ blocks' = [blocks EXCEPT ![running[t]] = r]
      /\ running[t] \in Frames
  BY DEF Open, Shape, TypeOK, Frames
<1>2. /\ s \in Seq(Blocks) /\ ctx \in [Tasks -> Bindings \cup {Unbound}]
      /\ ctx[t] # None
  BY <1>1, ContextAssumption DEF Shape, TypeOK
<1>3. ASSUME t \notin leaked
      PROVE  /\ Chained(t, r, Around(t))
             /\ ctx'[t] = Under(r, Len(r), Around(t))
  <2>1. Chained(t, s, Around(t)) /\ ctx[t] = InForce(t)
    BY <1>1, <1>3 DEF IInv, Nested, InnermostBlockRules
  <2>2. ctx[t] = Under(s, Len(s), Around(t))
    BY <2>1, InForceMeans DEF InForceIsUnder
  <2> HIDE DEF s
  <2>3. /\ Chained(t, r, Around(t))
        /\ Under(r, Len(r), Around(t))
              = IF b.late THEN Under(s, Len(s), Around(t)) ELSE b.bound
    BY <1>2, <2>1, <2>2, ChainAppended
  <2> HIDE DEF r
  <2> QED
    BY <1>2, <2>2, <2>3
<1>4. \A u \in Tasks \ {t} : ctx'[u] = ctx[u]
  BY <1>2
<1> HIDE DEF s, r
<1> QED
  BY <1>1, <1>3, <1>4, OthersKeepTheirs

(* The end of a block gives back what was in force when it was entered. *)
LEMMA ExitKeeps ==
  ASSUME Shape, Shape', IInv, NEW t \in Tasks, Exit(t)
  PROVE  IInv'
<1> DEFINE s == blocks[running[t]]
           r == Front(s)
<1>1. /\ t \in born /\ UNCHANGED <<born, running, heir, leaked>>
      /\ blocks' = [blocks EXCEPT ![running[t]] = r]
      /\ running[t] \in Frames
      /\ Unbind(t, Last(s)) /\ s # <<>>
  BY DEF Exit, Shape, TypeOK, Frames
<1>2. s \in Seq(Blocks) /\ ctx \in [Tasks -> Bindings \cup {Unbound}]
  BY <1>1 DEF Shape, TypeOK
<1>3. ASSUME t \notin leaked
      PROVE  /\ Chained(t, r, Around(t))
             /\ ctx'[t] = Under(r, Len(r), Around(t))
  <2>1. Chained(t, s, Around(t)) /\ ctx[t] = InForce(t)
    BY <1>1, <1>3 DEF IInv, Nested, InnermostBlockRules
  <2>2. ctx[t] = Under(s, Len(s), Around(t))
    BY <2>1, InForceMeans DEF InForceIsUnder
  <2>3. Unbind(t, Last(s)) /\ s # <<>>
    BY <1>1
  <2> HIDE DEF s
  <2>4. /\ Chained(t, r, Around(t))
        /\ IF Last(s).late
             THEN /\ Last(s).token = None
                  /\ Under(r, Len(r), Around(t)) = Under(s, Len(s), Around(t))
             ELSE /\ Last(s).token # None /\ Last(s).home = t
                  /\ Under(r, Len(r), Around(t)) = Last(s).token
    BY <1>2, <2>1, <2>3, ChainShortened
  <2> HIDE DEF r
  <2> QED
    BY <1>2, <2>2, <2>3, <2>4 DEF Unbind
<1>4. \A u \in Tasks \ {t} : ctx'[u] = ctx[u]
  BY <1>1, <1>2 DEF Unbind
<1> HIDE DEF s, r
<1> QED
  BY <1>1, <1>3, <1>4, OthersKeepTheirs

(* A task starts with its creator's context, which is what is in force. *)
LEMMA SpawnKeeps ==
  ASSUME Shape, Shape', IInv, NEW t \in Tasks, NEW u \in Tasks, Spawn(t, u)
  PROVE  IInv'
<1>1. InForceIsUnder /\ InForceIsUnder'
  <2>1. Shape' => InForceIsUnder'
    BY InForceMeans, PTL
  <2> QED
    BY <2>1, InForceMeans
<1>2. /\ born' = born \cup {u} /\ leaked' \in {leaked, leaked \cup {u}}
      /\ t \in leaked => u \in leaked'
      /\ t \in born /\ u \notin born /\ UNCHANGED <<running, blocks>>
      /\ running[u] = u /\ blocks[u] = <<>>
  BY DEF Spawn, Shape, Apart
<1>3. heir'[u] = InForce(t) /\ ctx'[u] = ctx[t]
  BY DEF Spawn, Shape, TypeOK
<1>4. ASSUME NEW v \in Tasks \ {u} PROVE heir'[v] = heir[v] /\ ctx'[v] = ctx[v]
  BY DEF Spawn, Shape, TypeOK
<1>5. ASSUME NEW v \in Tasks \ {u} PROVE Around(v)' = Around(v)
  BY <1>2, <1>4 DEF Around, Outer
<1>6. ASSUME NEW v \in born \ leaked, v # u
      PROVE  /\ Chained(v, blocks'[v], heir'[v])
             /\ Chained(v, blocks'[running'[v]], Around(v)')
             /\ ctx'[v] = InForce(v)'
  <2>1. v \in Tasks \ {u}
    BY <1>6 DEF Shape, TypeOK
  <2>2. InForce(v)' = InForce(v)
    BY <1>1, <1>2, <1>5, <2>1 DEF InForceIsUnder
  <2>3. /\ Chained(v, blocks[v], heir[v])
        /\ Chained(v, blocks[running[v]], Around(v))
        /\ ctx[v] = InForce(v)
    BY <1>6 DEF IInv, Nested, InnermostBlockRules
  <2> QED
    BY <1>2, <1>4, <1>5, <2>1, <2>2, <2>3
<1>7. ASSUME u \notin leaked'
      PROVE  /\ Chained(u, blocks'[u], heir'[u])
             /\ Chained(u, blocks'[running'[u]], Around(u)')
             /\ ctx'[u] = InForce(u)'
  <2>1. blocks'[u] = <<>> /\ running'[u] = u /\ Len(<<>>) = 0
    BY <1>2, EmptySeq
  <2>2. Chained(u, <<>>, heir'[u]) /\ Around(u)' = heir'[u]
    BY <2>1 DEF Chained, Around
  <2>3. InForce(u)' = Under(<<>>, 0, heir'[u])
    BY <1>1, <2>1, <2>2 DEF InForceIsUnder
  <2>4. InForce(u)' = heir'[u]
    BY <2>3, UnderNone
  <2>5. ctx[t] = InForce(t)
    BY <1>2, <1>7 DEF IInv, InnermostBlockRules
  <2> QED
    BY <1>3, <2>1, <2>2, <2>4, <2>5
<1>8. ASSUME NEW v \in born' \ leaked'
      PROVE  /\ Chained(v, blocks'[v], heir'[v])
             /\ Chained(v, blocks'[running'[v]], Around(v)')
             /\ ctx'[v] = InForce(v)'
  <2>1. v \notin leaked
    BY <1>2, <1>8
  <2> QED
    BY <1>2, <1>6, <1>7, <1>8, <2>1
<1> QED
  BY <1>8 DEF IInv, Nested, InnermostBlockRules

(* Entering or leaving a frame without open blocks changes nothing in force;
   with one, the task is excepted from then on.                          *)
LEMMA SwitchKeeps ==
  ASSUME Shape, Shape', IInv, NEW t \in Tasks, UNCHANGED <<born, ctx, blocks, heir>>,
         NEW f, running' = [running EXCEPT ![t] = f],
         NEW g, {running[t], f} = {t, g}, g \in Gens,
         leaked' = IF blocks[g] = <<>> THEN leaked ELSE leaked \cup {t}
  PROVE  IInv'
<1>1. InForceIsUnder /\ InForceIsUnder'
  <2>1. Shape' => InForceIsUnder'
    BY InForceMeans, PTL
  <2> QED
    BY <2>1, InForceMeans
<1>2. ASSUME NEW v \in Tasks \ {t}
      PROVE  running'[v] = running[v] /\ Around(v)' = Around(v)
  <2>1. running'[v] = running[v]
    BY DEF Shape, TypeOK
  <2> QED
    BY <2>1 DEF Around, Outer
<1>3. ASSUME NEW v \in born \ leaked, v # t
      PROVE  /\ Chained(v, blocks'[v], heir'[v])
             /\ Chained(v, blocks'[running'[v]], Around(v)')
             /\ ctx'[v] = InForce(v)'
  <2>1. v \in Tasks \ {t}
    BY <1>3 DEF Shape, TypeOK
  <2>2. InForce(v)' = InForce(v)
    BY <1>1, <1>2, <2>1 DEF InForceIsUnder
  <2>3. /\ Chained(v, blocks[v], heir[v])
        /\ Chained(v, blocks[running[v]], Around(v))
        /\ ctx[v] = InForce(v)
    BY <1>3 DEF IInv, Nested, InnermostBlockRules
  <2> QED
    BY <1>2, <2>1, <2>2, <2>3
<1>4. ASSUME t \in born \ leaked, blocks[g] = <<>>
      PROVE  /\ Chained(t, blocks'[t], heir'[t])
             /\ Chained(t, blocks'[running'[t]], Around(t)')
             /\ ctx'[t] = InForce(t)'
  <2>1. t # g /\ running[t] \in {t, g} /\ running'[t] \in {t, g}
    <3>1. t # g
      BY ContextAssumption
    <3>2. running'[t] = f
      BY DEF Shape, TypeOK
    <3>3. running[t] \in {t, g} /\ f \in {t, g}
      OBVIOUS
    <3> QED
      BY <3>1, <3>2, <3>3
  <2>2. Chained(t, blocks[t], heir[t]) /\ ctx[t] = InForce(t)
    BY <1>4 DEF IInv, Nested, InnermostBlockRules
  <2>3. Outer(t)' = Outer(t)
    BY DEF Outer
  <2>4. Len(blocks[g]) = 0
    BY <1>4, EmptySeq
  <2>5. Under(blocks[g], Len(blocks[g]), Outer(t)) = Outer(t)
    BY <2>4, UnderNone
  <2>6. InForce(t) = Outer(t)
    BY <1>1, <2>1, <2>5 DEF InForceIsUnder, Around, Outer
  <2>7. InForce(t)' = Outer(t)
    <3>1. CASE running'[t] = t
      <4>1. Around(t)' = heir[t]
        BY <3>1 DEF Around
      <4>2. InForce(t)' = Under(blocks[t], Len(blocks[t]), heir[t])
        BY <1>1, <3>1, <4>1 DEF InForceIsUnder
      <4> QED
        BY <4>2 DEF Outer
    <3>2. CASE running'[t] = g
      <4>1. Around(t)' = Outer(t)
        BY <2>1, <2>3, <3>2 DEF Around
      <4>2. InForce(t)' = Under(blocks[g], Len(blocks[g]), Outer(t))
        BY <1>1, <3>2, <4>1 DEF InForceIsUnder
      <4> QED
        BY <2>5, <4>2
    <3> QED
      BY <2>1, <3>1, <3>2
  <2>8. Chained(t, blocks[running'[t]], Around(t)')
    <3>1. CASE running'[t] = t
      BY <2>2, <3>1 DEF Around
    <3>2. CASE running'[t] = g
      BY <2>4, <3>2 DEF Chained
    <3> QED
      BY <2>1, <3>1, <3>2
  <2> QED
    BY <2>2, <2>6, <2>7, <2>8
<1>5. ASSUME NEW v \in born' \ leaked'
      PROVE  /\ Chained(v, blocks'[v], heir'[v])
             /\ Chained(v, blocks'[running'[v]], Around(v)')
             /\ ctx'[v] = InForce(v)'
  <2>1. v \in born \ leaked /\ (v = t => blocks[g] = <<>>)
    BY <1>5
  <2> QED
    BY <1>3, <1>4, <2>1
<1> QED
  BY <1>5 DEF IInv, Nested, InnermostBlockRules
-----------------------------------------------------------------------------
(* current_subject() is the innermost block's subject around the caller, at
   every point and however tasks and generators interleave, except in the
   tasks that ran a generator paused inside a block.                     *)
THEOREM InnermostRules == Spec => []InnermostBlockRules
<1>1. Init => IInv
  <2> SUFFICES ASSUME Init PROVE IInv
    OBVIOUS
  <2>1. Shape
    BY InitHasShape
  <2>2. InForceIsUnder
    BY <2>1, InForceMeans
  <2>3. ASSUME NEW t \in Tasks
        PROVE  /\ blocks[t] = <<>> /\ running[t] = t /\ Len(blocks[t]) = 0
               /\ Around(t) = heir[t] /\ heir[t] = ctx[t]
    BY EmptySeq DEF Init, Around, Frames
  <2>4. ASSUME NEW t \in Tasks
        PROVE  /\ Chained(t, blocks[t], heir[t])
               /\ Chained(t, blocks[running[t]], Around(t))
               /\ ctx[t] = InForce(t)
    <3>1. InForce(t) = Under(blocks[t], 0, heir[t])
      BY <2>2, <2>3 DEF InForceIsUnder
    <3>2. InForce(t) = heir[t]
      BY <3>1, UnderNone
    <3> QED
      BY <2>3, <3>2 DEF Chained
  <2> QED
    BY <2>1, <2>4 DEF IInv, Nested, InnermostBlockRules, Shape, TypeOK
<1>2. Shape /\ Shape' /\ IInv /\ [Next]_vars => IInv'
  <2> SUFFICES ASSUME Shape, Shape', IInv, [Next]_vars PROVE IInv'
    OBVIOUS
  <2>1. CASE UNCHANGED vars
    <3>1. \A t \in Tasks : Around(t)' = Around(t) /\ InForce(t)' = InForce(t)
      BY <2>1 DEF vars, Around, Outer, InForce, Binding, Innermost
    <3>2. born' \subseteq Tasks
      BY DEF Shape, TypeOK
    <3> QED
      BY <2>1, <3>1, <3>2 DEF vars, IInv, Nested, InnermostBlockRules
  <2>2. ASSUME NEW t \in Tasks, (\E b \in Bindings : Enter(t, b)) \/ CallTagged(t)
        PROVE  IInv'
    <3>1. PICK b \in Blocks :
             /\ Open(t, b) /\ b.home = t
             /\ IF b.late THEN b.token = None /\ UNCHANGED ctx
                ELSE b.token = ctx[t] /\ ctx' = [ctx EXCEPT ![t] = b.bound]
      BY <2>2, TaggedCallOpens DEF Shape
    <3> QED
      BY <3>1, OpeningKeeps
  <2>3. ASSUME NEW t \in Tasks, Exit(t) PROVE IInv'
    BY <2>3, ExitKeeps
  <2>4. ASSUME NEW t \in Tasks, NEW u \in Tasks, Spawn(t, u) PROVE IInv'
    BY <2>4, SpawnKeeps
  <2>5. ASSUME NEW t \in Tasks, NEW g \in Gens, Resume(t, g) PROVE IInv'
    BY <2>5, SwitchKeeps DEF Resume
  <2>6. ASSUME NEW t \in Tasks, Yield(t) PROVE IInv'
    <3>1. running[t] \in Gens /\ {running[t], t} = {t, running[t]}
      BY <2>6 DEF Yield
    <3> QED
      BY <2>6, <3>1, SwitchKeeps DEF Yield
  <2> QED
    BY <2>1, <2>2, <2>3, <2>4, <2>5, <2>6 DEF Next, Step
<1>3. IInv => InnermostBlockRules
  BY DEF IInv
<1> QED
  BY <1>1, <1>2, <1>3, ShapeInvariant, PTL DEF Spec
=============================================================================
