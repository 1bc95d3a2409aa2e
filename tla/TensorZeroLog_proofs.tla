------------------------ MODULE TensorZeroLog_proofs ------------------------
(***************************************************************************)
(* Proofs about TensorZeroLog, for every set of subjects, rows, tables and *)
(* calls and every bound on the faults.                                    *)
(*                                                                         *)
(* The argument: the frozen ids cover the bodies a call took up (Frozen),  *)
(* its counts run ahead of its deletes (Counting), a delete past a table   *)
(* leaves none of the call's rows in it (Deleting), and no inference goes, *)
(* now or by a mutation still pending, while a body of it is held, unless  *)
(* one of the two came too late for an erase (Bodies).                     *)
(***************************************************************************)
EXTENDS TensorZeroLog, SequenceTheorems, TLAPS

N == Len(TagTables)

(* A count visits every table: the tag-scoped ones, then ModelInference. *)
LEMMA CountPlanCovers ==
  /\ N \in Nat \ {0}
  /\ Len(CountPlan) = N + 1
  /\ \A r \in Rows : \E j \in 1..(N + 1) : CountPlan[j] = TableOf[r]
<1>1. TagTables \in Seq(Tables) /\ TagTables # <<>>
  BY TablesAssumption
<1>2. N \in Nat \ {0} /\ DOMAIN TagTables = 1..N
  BY <1>1, EmptySeq, LenProperties DEF N
<1>3. TagTables \in Seq(Tables \cup {ModelInference})
  BY <1>1, SeqMonotonic
<1>4. /\ Len(CountPlan) = N + 1
      /\ \A j \in 1..N : CountPlan[j] = TagTables[j]
      /\ CountPlan[N + 1] = ModelInference
  BY <1>3, AppendProperties DEF CountPlan, N
<1>5. ASSUME NEW r \in Rows PROVE \E j \in 1..(N + 1) : CountPlan[j] = TableOf[r]
  <2>1. TableOf[r] = ModelInference \/ \E j \in 1..N : TagTables[j] = TableOf[r]
    BY <1>2, TablesAssumption DEF Tables
  <2> QED
    BY <1>2, <1>4, <2>1
<1> QED
  BY <1>2, <1>4, <1>5

(* With ids a delete visits ModelInference and then the tag-scoped tables;
   without, only those.                                                  *)
LEMMA DeletePlanShape ==
  ASSUME NEW c \in Calls
  PROVE  /\ N \in Nat \ {0}
         /\ Tables = {TagTables[j] : j \in 1..N}
         /\ Len(DeletePlan(c)) \in 1..(N + 1)
         /\ ids[c] = {} => DeletePlan(c) = TagTables
         /\ ids[c] # {} => /\ Len(DeletePlan(c)) = N + 1
                           /\ DeletePlan(c)[1] = ModelInference
                           /\ \A j \in 1..N : DeletePlan(c)[j + 1] = TagTables[j]
<1>1. TagTables \in Seq(Tables) /\ TagTables # <<>>
  BY TablesAssumption
<1>2. N \in Nat \ {0} /\ DOMAIN TagTables = 1..N
  BY <1>1, EmptySeq, LenProperties DEF N
<1>3. TagTables \in Seq(Tables \cup {ModelInference})
  BY <1>1, SeqMonotonic
<1>4. ASSUME ids[c] # {}
      PROVE  /\ Len(DeletePlan(c)) = N + 1
             /\ DeletePlan(c)[1] = ModelInference
             /\ \A j \in 1..N : DeletePlan(c)[j + 1] = TagTables[j]
  <2>1. DeletePlan(c) = <<ModelInference>> \o TagTables
    BY <1>4 DEF DeletePlan
  <2>2. /\ <<ModelInference>> \in Seq(Tables \cup {ModelInference})
        /\ Len(<<ModelInference>>) = 1 /\ <<ModelInference>>[1] = ModelInference
    OBVIOUS
  <2>3. /\ Len(DeletePlan(c)) = 1 + N
        /\ \A i \in 1..(1 + N) : DeletePlan(c)[i] =
              IF i <= 1 THEN <<ModelInference>>[i] ELSE TagTables[i - 1]
    BY <1>3, <2>1, <2>2, ConcatProperties DEF N
  <2> QED
    BY <1>2, <2>2, <2>3
<1>5. ids[c] = {} => DeletePlan(c) = TagTables /\ Len(DeletePlan(c)) = N
  BY DEF DeletePlan, N
<1>6. Len(DeletePlan(c)) \in 1..(N + 1)
  BY <1>2, <1>4, <1>5
<1> QED
  BY <1>2, <1>4, <1>5, <1>6 DEF Tables
-----------------------------------------------------------------------------
(* What a statement matches is held and about the call's subject. *)
LEMMA MatchIsOwn ==
  ASSUME TypeOK, NEW c \in Calls, NEW t
  PROVE  Match(c, t) \subseteq {r \in held : SubjectOf[r] = CallSubject[c]}
BY TablesAssumption DEF TypeOK, Match, Cascaded, Tagged, Models

(* The table a delete is at is one of the seven. *)
LEMMA TargetTableIsATable ==
  ASSUME TypeOK, NEW c \in Calls, next[c] <= Len(DeletePlan(c))
  PROVE  TargetTable(c) \in Tables \cup {ModelInference}
<1>1. N \in Nat \ {0} /\ next[c] \in 1..(N + 1)
  BY CountPlanCovers DEF TypeOK, N
<1>2. CASE ids[c] = {}
  <2>1. next[c] \in 1..N /\ TargetTable(c) = TagTables[next[c]]
    BY <1>1, <1>2, DeletePlanShape DEF TargetTable, N
  <2> QED
    BY <2>1, DeletePlanShape
<1>3. CASE ids[c] # {} /\ next[c] = 1
  BY <1>3, DeletePlanShape DEF TargetTable
<1>4. CASE ids[c] # {} /\ next[c] # 1
  <2>1. PICK j \in 1..N : next[c] = j + 1
    BY <1>1, <1>4
  <2> QED
    BY <1>4, <2>1, DeletePlanShape DEF TargetTable
<1> QED
  BY <1>2, <1>3, <1>4

(* The position in a plan stays within the longest one. *)
LEMMA PlaceKept ==
  ASSUME TypeOK, NEW c \in Calls, NEW L \in 1..(N + 1),
         next' = [next EXCEPT ![c] = IF next[c] < L THEN @ + 1 ELSE 1]
  PROVE  next' \in [Calls -> 1..(Len(TagTables) + 1)]
<1>1. N \in Nat /\ next \in [Calls -> 1..(N + 1)]
  BY CountPlanCovers DEF TypeOK, N
<1>2. (IF next[c] < L THEN next[c] + 1 ELSE 1) \in 1..(N + 1)
  BY <1>1
<1>3. next' \in [Calls -> 1..(N + 1)]
  BY <1>1, <1>2
<1> QED
  BY <1>3 DEF N

(* A delete is at a statement of its plan. *)
InPlan == \A c \in Calls : pc[c] = "delete" => next[c] <= Len(DeletePlan(c))

LEMMA TypesAndPlaces == Spec => [](TypeOK /\ InPlan)
<1> USE TablesAssumption, CallsAssumption
<1>1. Init => TypeOK /\ InPlan
  BY CountPlanCovers DEF Init, TypeOK, PCs, N, InPlan
<1>2. TypeOK /\ InPlan /\ [Next]_vars => TypeOK' /\ InPlan'
  <2> SUFFICES ASSUME TypeOK, InPlan, [Next]_vars PROVE TypeOK' /\ InPlan'
    OBVIOUS
  <2> USE DEF TypeOK, PCs, Busy
  <2>plan. ASSUME UNCHANGED ids PROVE \A d \in Calls : DeletePlan(d)' = DeletePlan(d)
    BY <2>plan DEF DeletePlan
  <2>1. CASE UNCHANGED vars
    BY <2>1, <2>plan DEF vars, store, local, InPlan
  <2>2. ASSUME NEW r \in Rows, Infer(r) \/ Body(r) \/ Feedback(r) PROVE TypeOK' /\ InPlan'
    <3>1. /\ held' = held \cup {r} /\ written' = written \cup {r}
          /\ raced' \subseteq raced \cup {r}
          /\ UNCHANGED <<inflight, local, faults>>
      BY <2>2 DEF Infer, Body, Feedback, Arrive, Race
    <3>2. InPlan'
      BY <2>plan, <3>1 DEF InPlan, local
    <3> QED
      BY <3>1, <3>2 DEF local
  <2>4. ASSUME NEW q \in inflight, Land(q) PROVE TypeOK' /\ InPlan'
    BY <2>4, <2>plan DEF Land, local, InPlan
  <2>5. ASSUME NEW c \in Calls, Resolve(c) PROVE TypeOK' /\ InPlan'
    <3>1. ASSUME NEW d \in Calls \ {c} PROVE DeletePlan(d)' = DeletePlan(d)
      BY <2>5 DEF Resolve, DeletePlan
    <3>2. InPlan'
      BY <2>5, <3>1 DEF Resolve, InPlan
    <3> QED
      BY <2>5, <3>2 DEF Resolve, store, Tagged, OfSubject, Reach
  <2>6. ASSUME NEW c \in Calls, CountRows(c) PROVE TypeOK' /\ InPlan'
    <3>1. next' \in [Calls -> 1..(Len(TagTables) + 1)]
      <4>1. Len(CountPlan) \in 1..(N + 1)
        BY CountPlanCovers
      <4> QED
        BY <2>6, <4>1, PlaceKept DEF CountRows, Proceed
    <3>2. Match(c, CountPlan[next[c]]) \subseteq written
      BY MatchIsOwn
    <3>3. InPlan'
      <4>1. pc'[c] = "delete" => next'[c] = 1
        BY <2>6 DEF CountRows, Proceed
      <4>2. \A d \in Calls \ {c} : pc'[d] = pc[d] /\ next'[d] = next[d]
        BY <2>6 DEF CountRows, Proceed
      <4>3. \A d \in Calls : Len(DeletePlan(d)') >= 1 /\ DeletePlan(d)' = DeletePlan(d)
        BY <2>6, <2>plan, DeletePlanShape DEF CountRows
      <4> QED
        BY <4>1, <4>2, <4>3 DEF InPlan
    <3> QED
      BY <2>6, <3>1, <3>2, <3>3 DEF CountRows, Proceed, store
  <2>7. ASSUME NEW c \in Calls, Mutate(c) PROVE TypeOK' /\ InPlan'
    <3>1. Len(DeletePlan(c)) \in 1..(N + 1) /\ N \in Nat
      BY DeletePlanShape
    <3>2. next' \in [Calls -> 1..(Len(TagTables) + 1)]
      BY <2>7, <3>1, PlaceKept DEF Mutate, Proceed
    <3>3. Target(c) \subseteq written
      BY MatchIsOwn DEF Target
    <3>4. InPlan'
      <4>1. next[c] \in Nat /\ (pc'[c] = "delete" => next'[c] <= Len(DeletePlan(c)))
        BY <2>7, <3>1 DEF Mutate, Proceed
      <4>2. \A d \in Calls \ {c} : pc'[d] = pc[d] /\ next'[d] = next[d]
        BY <2>7 DEF Mutate, Proceed
      <4> QED
        BY <2>7, <2>plan, <4>1, <4>2 DEF InPlan, Mutate
    <3> QED
      BY <2>7, <3>2, <3>3, <3>4 DEF Mutate, Proceed
  <2>8. ASSUME NEW c \in Calls, Fail(c) PROVE TypeOK' /\ InPlan'
    BY <2>8, <2>plan DEF Fail, Fault, store, InPlan
  <2>9. ASSUME NEW c \in Calls, TimeOut(c) PROVE TypeOK' /\ InPlan'
    <3>1. TargetTable(c) \in Tables \cup {ModelInference}
      BY <2>9, TargetTableIsATable DEF TimeOut, InPlan
    <3>2. InPlan'
      BY <2>9, <2>plan DEF TimeOut, InPlan
    <3> QED
      BY <2>9, <3>1, <3>2 DEF TimeOut, Fault
  <2> QED
    BY <2>1, <2>2, <2>4, <2>5, <2>6, <2>7, <2>8, <2>9 DEF Next, Traffic, Advance
<1> QED
  BY <1>1, <1>2, PTL DEF Spec

(* The variables have their types in every reachable state. *)
THEOREM TypeCorrect == Spec => []TypeOK
  BY TypesAndPlaces, PTL

(* No call counts or removes a row about anybody else. *)
THEOREM OwnRows == Spec => []OwnRowsOnly
<1>1. Init => OwnRowsOnly
  BY DEF Init, OwnRowsOnly
<1>2. TypeOK /\ OwnRowsOnly /\ [Next]_vars => OwnRowsOnly'
  <2> SUFFICES ASSUME TypeOK, OwnRowsOnly, [Next]_vars PROVE OwnRowsOnly'
    OBVIOUS
  <2> USE DEF OwnRowsOnly
  <2>1. CASE UNCHANGED <<counted, removed>>
    BY <2>1
  <2>2. ASSUME NEW c \in Calls, CountRows(c) PROVE OwnRowsOnly'
    BY <2>2, MatchIsOwn DEF CountRows, TypeOK
  <2>3. ASSUME NEW c \in Calls, Mutate(c) PROVE OwnRowsOnly'
    BY <2>3, MatchIsOwn DEF Mutate, Target, TypeOK
  <2> QED
    BY <2>1, <2>2, <2>3 DEF Next, Traffic, Advance, Infer, Body, Feedback, Arrive, Land,
       Resolve, Fail, TimeOut, vars, local
<1> QED
  BY <1>1, <1>2, TypeCorrect, PTL DEF Spec
-----------------------------------------------------------------------------
(* The ids frozen by a call cover the bodies it took up, and an erase has
   frozen, from its subject's inferences, all but those that raced it.   *)
FrozenBy(c) ==
    /\ pc[c] = "idle" => next[c] = 1 /\ base[c] = {} /\ removed[c] = {}
    /\ \A r \in base[c] : SubjectOf[r] = CallSubject[c]
    /\ \A m \in base[c] \cap Models : InferenceOf[m] \in ids[c]
    /\ c \notin DryRuns /\ pc[c] \in Busy =>
          \A i \in held : TableOf[i] \in InferenceTables /\ SubjectOf[i] = CallSubject[c]
                             => i \in ids[c] \cup raced

Frozen == \A c \in Calls : FrozenBy(c)

(* Rows a call took up and is still to delete are in its counts, and so are
   those it removed.                                                     *)
CountedBy(c) ==
    /\ pc[c] = "count" =>
          \A r \in base[c] \cap held, j \in 1..(N + 1) :
             j < next[c] /\ TableOf[r] = CountPlan[j] => r \in counted[c]
    /\ pc[c] = "delete" => base[c] \cap held \subseteq counted[c]
    /\ removed[c] \cap base[c] \subseteq counted[c]

Counting == \A c \in Calls : CountedBy(c)

(* A delete past a table has removed from it all the call took up, and the
   bodies first, but for those that came meanwhile; at its end nothing is
   left.                                                                 *)
DeletedBy(c) ==
    /\ pc[c] = "delete" =>
          /\ c \notin DryRuns
          /\ next[c] <= Len(DeletePlan(c))
          /\ \A r \in base[c] \cap held, j \in 1..(N + 1) :
                j < next[c] => TableOf[r] # DeletePlan(c)[j]
          /\ next[c] > 1 /\ ids[c] # {} => Cascaded(ids[c]) \subseteq raced
    /\ c \notin DryRuns /\ pc[c] = "done" => base[c] \cap held = {}

Deleting == \A c \in Calls : DeletedBy(c)

(* Nothing removes an inference and leaves its body, unless one of them came
   too late: no step so far, and no mutation that is still pending.      *)
Bodies ==
    /\ StrandedOnlyByRace
    /\ \A q \in inflight :
          /\ q.call \in Calls \ DryRuns /\ pc[q.call] = "failed"
          /\ q.table \in InferenceTables =>
                \A m \in held \cap Models :
                   InferenceOf[m] \in Match(q.call, q.table) => CameTooLate(m)

IInv == TypeOK /\ Frozen /\ Counting /\ Deleting /\ Bodies

(* One row arrives at a time, and never one a call has taken up. *)
LEMMA OneNewRowArrives ==
  ASSUME TypeOK, NEW r \in Rows, Infer(r) \/ Body(r) \/ Feedback(r)
  PROVE  /\ held' = held \cup {r} /\ written' = written \cup {r}
         /\ r \notin written
         /\ raced \subseteq raced'
         /\ TableOf[r] \in InferenceTables \cup {ModelInference} /\ Overtaken(r) => r \in raced'
         /\ UNCHANGED <<inflight, local>>
BY TablesAssumption DEF TypeOK, Infer, Body, Feedback, Arrive, Race, Models

LEMMA FrozenInvariant == Spec => []Frozen
<1>1. Init => Frozen
  BY DEF Init, Frozen, FrozenBy, Busy
<1>2. TypeOK /\ Frozen /\ [Next]_vars => Frozen'
  <2> SUFFICES ASSUME TypeOK, Frozen, [Next]_vars PROVE Frozen'
    OBVIOUS
  <2> USE DEF Frozen, FrozenBy, Busy
  <2>1. CASE UNCHANGED vars
    BY <2>1 DEF vars, store, local
  <2>2. ASSUME NEW r \in Rows, Infer(r) \/ Body(r) \/ Feedback(r) PROVE Frozen'
    <3>1. ASSUME NEW c \in Calls \ DryRuns, pc[c] \in Busy, CallSubject[c] = SubjectOf[r],
                 TableOf[r] \in InferenceTables
          PROVE  r \in raced'
      BY <2>2, <3>1, OneNewRowArrives DEF Overtaken, UnderErasure
    <3> QED
      BY <2>2, <3>1, OneNewRowArrives DEF local
  <2>4. ASSUME NEW q \in inflight, Land(q) PROVE Frozen'
    BY <2>4 DEF Land, local
  <2>5. ASSUME NEW c \in Calls, Resolve(c) PROVE Frozen'
    <3>1. ids'[c] = {i \in held : TableOf[i] \in InferenceTables
                                   /\ SubjectOf[i] = CallSubject[c]}
      BY <2>5 DEF Resolve, Tagged, TypeOK
    <3>2. ASSUME NEW m \in OfSubject(CallSubject[c]) \cap Models PROVE InferenceOf[m] \in ids'[c]
      BY <3>1, TablesAssumption DEF OfSubject, Reach, Unresolved, Models, TypeOK
    <3>3. base'[c] = OfSubject(CallSubject[c]) /\ pc'[c] = "count"
      BY <2>5 DEF Resolve, TypeOK
    <3>4. FrozenBy(c)'
      BY <2>5, <3>1, <3>2, <3>3 DEF Resolve, store, OfSubject
    <3>5. ASSUME NEW d \in Calls \ {c} PROVE FrozenBy(d)'
      BY <2>5 DEF Resolve, store, TypeOK
    <3> QED
      BY <3>4, <3>5
  <2>6. ASSUME NEW c \in Calls, CountRows(c) PROVE Frozen'
    BY <2>6 DEF CountRows, Proceed, store, TypeOK
  <2>7. ASSUME NEW c \in Calls, Mutate(c) PROVE Frozen'
    BY <2>7 DEF Mutate, Proceed, TypeOK
  <2>8. ASSUME NEW c \in Calls, Fail(c) \/ TimeOut(c) PROVE Frozen'
    BY <2>8 DEF Fail, TimeOut, store, TypeOK
  <2> QED
    BY <2>1, <2>2, <2>4, <2>5, <2>6, <2>7, <2>8 DEF Next, Traffic, Advance
<1> QED
  BY <1>1, <1>2, TypeCorrect, PTL DEF Spec
-----------------------------------------------------------------------------
(* A statement matches whatever its table holds of the rows its call took up. *)
LEMMA MatchCoversBase ==
  ASSUME TypeOK, Frozen, NEW c \in Calls, NEW r \in base[c] \cap held
  PROVE  r \in Match(c, TableOf[r])
BY TablesAssumption DEF TypeOK, Frozen, FrozenBy, Match, Cascaded, Tagged, Models

LEMMA CountingInvariant == Spec => []Counting
<1> USE DEF Counting, CountedBy
<1>1. Init => Counting
  BY DEF Init
<1>2. TypeOK /\ Frozen /\ Counting /\ [Next]_vars => Counting'
  <2> SUFFICES ASSUME TypeOK, Frozen, Counting, [Next]_vars PROVE Counting'
    OBVIOUS
  <2>1. CASE UNCHANGED vars
    BY <2>1 DEF vars, store, local
  <2>2. ASSUME NEW r \in Rows, Infer(r) \/ Body(r) \/ Feedback(r) PROVE Counting'
    BY <2>2, OneNewRowArrives DEF TypeOK, local
  <2>3. ASSUME NEW q \in inflight, Land(q) PROVE Counting'
    BY <2>3 DEF Land, local
  <2>4. ASSUME NEW c \in Calls, Resolve(c) PROVE Counting'
    <3>1. CountedBy(c)'
      BY <2>4, CountPlanCovers DEF Resolve, store, TypeOK, Frozen, FrozenBy
    <3>2. ASSUME NEW d \in Calls \ {c} PROVE CountedBy(d)'
      BY <2>4 DEF Resolve, store, TypeOK
    <3> QED
      BY <3>1, <3>2
  <2>5. ASSUME NEW c \in Calls, CountRows(c) PROVE Counting'
    <3>1. ASSUME NEW d \in Calls \ {c} PROVE CountedBy(d)'
      BY <2>5 DEF CountRows, Proceed, store, TypeOK
    <3>2. /\ counted'[c] = counted[c] \cup Match(c, CountPlan[next[c]])
          /\ UNCHANGED <<held, base, removed>>
      BY <2>5 DEF CountRows, store, TypeOK
    <3>3. ASSUME NEW r \in base[c] \cap held, NEW j \in 1..(N + 1),
                 j <= next[c], TableOf[r] = CountPlan[j]
          PROVE  r \in counted'[c]
      <4>1. CASE j = next[c]
        BY <3>2, <3>3, <4>1, MatchCoversBase
      <4>2. CASE j < next[c]
        BY <2>5, <3>2, <3>3, <4>2 DEF CountRows
      <4> QED
        BY <3>3, <4>1, <4>2, CountPlanCovers DEF TypeOK, N
    <3>4. CASE next[c] < N + 1
      <4>1. pc'[c] = "count" /\ next'[c] = next[c] + 1
        BY <2>5, <3>4, CountPlanCovers DEF CountRows, Proceed, TypeOK
      <4>2. \A j \in 1..(N + 1) : j < next'[c] => j <= next[c]
        BY <4>1, CountPlanCovers DEF TypeOK, N
      <4> QED
        BY <3>1, <3>2, <3>3, <4>1, <4>2
    <3>5. CASE next[c] = N + 1
      <4>1. pc'[c] # "count"
        BY <2>5, <3>5, CountPlanCovers DEF CountRows, Proceed, TypeOK
      <4>2. \A j \in 1..(N + 1) : j <= next[c]
        BY <3>5, CountPlanCovers
      <4>3. base[c] \cap held \subseteq counted'[c]
        BY <3>3, <4>2, CountPlanCovers DEF TypeOK
      <4> QED
        BY <3>1, <3>2, <4>1, <4>3
    <3> QED
      BY <3>4, <3>5, CountPlanCovers DEF TypeOK, N
  <2>6. ASSUME NEW c \in Calls, Mutate(c) PROVE Counting'
    <3>1. /\ \A d \in Calls : pc'[d] = "count" => pc[d] = "count" /\ d # c
          /\ \A d \in Calls : pc'[d] = "delete" => pc[d] = "delete"
          /\ \A d \in Calls \ {c} : next'[d] = next[d] /\ removed'[d] = removed[d]
      BY <2>6 DEF Mutate, Proceed, TypeOK
    <3>2. Target(c) \subseteq held
      BY MatchIsOwn DEF Target
    <3>3. removed'[c] = removed[c] \cup Target(c) /\ held' \subseteq held
          /\ UNCHANGED <<counted, base>>
      BY <2>6 DEF Mutate, TypeOK
    <3>4. base[c] \cap Target(c) \subseteq counted[c]
      BY <2>6, <3>2 DEF Mutate
    <3> QED
      BY <3>1, <3>3, <3>4
  <2>7. ASSUME NEW c \in Calls, Fail(c) \/ TimeOut(c) PROVE Counting'
    BY <2>7 DEF Fail, TimeOut, store, TypeOK
  <2> QED
    BY <2>1, <2>2, <2>3, <2>4, <2>5, <2>6, <2>7 DEF Next, Traffic, Advance
<1> QED
  BY <1>1, <1>2, TypeCorrect, FrozenInvariant, PTL DEF Spec

(* Of the rows a call took up, those it removes are in its counts. *)
THEOREM CountsCover == Spec => []CountsCoverRemovals
<1>1. Counting => CountsCoverRemovals
  BY DEF Counting, CountedBy, CountsCoverRemovals
<1> QED
  BY <1>1, CountingInvariant, PTL
-----------------------------------------------------------------------------
(* A delete leaves nothing the call took up in the table it is at, and if it
   is at its last, nothing at all.                                       *)
LEMMA MutateClearsTable ==
  ASSUME TypeOK, Frozen, Deleting, NEW c \in Calls, Mutate(c)
  PROVE  /\ \A r \in base[c] \cap held', j \in 1..(N + 1) :
               j <= next[c] => TableOf[r] # DeletePlan(c)[j]
         /\ next[c] = Len(DeletePlan(c)) => base[c] \cap held' = {}
<1>1. held' = held \ Match(c, DeletePlan(c)[next[c]])
  BY DEF Mutate, Target, TargetTable
<1>2. N \in Nat \ {0} /\ next[c] \in 1..(N + 1)
  BY CountPlanCovers DEF TypeOK, N
<1>3. ASSUME NEW r \in base[c] \cap held', NEW j \in 1..(N + 1), j <= next[c]
      PROVE  TableOf[r] # DeletePlan(c)[j]
  <2>1. CASE j = next[c]
    BY <1>1, <1>3, <2>1, MatchCoversBase
  <2>2. CASE j < next[c]
    BY <1>1, <1>3, <2>2 DEF Mutate, Deleting, DeletedBy
  <2> QED
    BY <1>2, <1>3, <2>1, <2>2
<1>4. ASSUME next[c] = Len(DeletePlan(c)), NEW r \in base[c] \cap held' PROVE FALSE
  <2>1. r \in Rows /\ (TableOf[r] \in Tables \/ TableOf[r] = ModelInference)
    BY TablesAssumption DEF TypeOK
  <2>2. CASE ids[c] = {}
    <3>1. TableOf[r] \in Tables
      BY <2>1, <2>2 DEF Frozen, FrozenBy, Models
    <3>2. PICK j \in 1..N : TableOf[r] = TagTables[j]
      BY <3>1, DeletePlanShape
    <3>3. next[c] = N /\ DeletePlan(c)[j] = TagTables[j]
      BY <1>4, <2>2, DeletePlanShape DEF N
    <3>4. j \in 1..(N + 1) /\ j <= next[c]
      BY <1>2, <3>3
    <3> QED
      BY <1>3, <3>2, <3>3, <3>4
  <2>3. CASE ids[c] # {}
    <3>1. PICK j \in 1..(N + 1) : TableOf[r] = DeletePlan(c)[j]
      <4>1. CASE TableOf[r] = ModelInference
        BY <1>2, <2>3, <4>1, DeletePlanShape
      <4>2. CASE TableOf[r] \in Tables
        <5>1. PICK j \in 1..N : TableOf[r] = TagTables[j]
          BY <4>2, DeletePlanShape
        <5>2. j + 1 \in 1..(N + 1) /\ DeletePlan(c)[j + 1] = TagTables[j]
          BY <1>2, <2>3, DeletePlanShape
        <5> QED
          BY <5>1, <5>2
      <4> QED
        BY <2>1, <4>1, <4>2
    <3>2. next[c] = N + 1
      BY <1>4, <2>3, DeletePlanShape
    <3> QED
      BY <1>2, <1>3, <3>1, <3>2
  <2> QED
    BY <2>2, <2>3
<1> QED
  BY <1>3, <1>4

(* What a step of the delete does to the call's place. *)
LEMMA MutateProceeds ==
  ASSUME TypeOK, Deleting, NEW c \in Calls, Mutate(c)
  PROVE  \/ /\ next[c] < Len(DeletePlan(c)) /\ next'[c] = next[c] + 1
            /\ pc' = pc
         \/ /\ next[c] = Len(DeletePlan(c))
            /\ pc' = [pc EXCEPT ![c] = "done"]
<1>1. Len(DeletePlan(c)) \in 1..(N + 1) /\ N \in Nat
  BY DeletePlanShape
<1>2. next[c] \in Nat /\ next[c] <= Len(DeletePlan(c))
  BY <1>1 DEF Mutate, Deleting, DeletedBy, TypeOK
<1>3. CASE next[c] < Len(DeletePlan(c))
  BY <1>3 DEF Mutate, Proceed, TypeOK
<1>4. CASE next[c] = Len(DeletePlan(c))
  BY <1>1, <1>4 DEF Mutate, Proceed, TypeOK
<1> QED
  BY <1>1, <1>2, <1>3, <1>4

LEMMA DeletingInvariant == Spec => []Deleting
<1> USE DEF Deleting, DeletedBy
<1>1. Init => Deleting
  BY DEF Init
<1>2. TypeOK /\ Frozen /\ Deleting /\ [Next]_vars => Deleting'
  <2> SUFFICES ASSUME TypeOK, Frozen, Deleting, [Next]_vars PROVE Deleting'
    OBVIOUS
  <2> USE DEF Cascaded
  <2>plan. ASSUME NEW d \in Calls, ids'[d] = ids[d] PROVE DeletePlan(d)' = DeletePlan(d)
    BY <2>plan DEF DeletePlan
  <2>rest. ASSUME NEW d \in Calls, held' \subseteq held, base'[d] = base[d], ids'[d] = ids[d],
               raced \subseteq raced',
               (pc'[d] = pc[d] /\ next'[d] = next[d]) \/ pc'[d] \notin {"delete", "done"}
        PROVE  DeletedBy(d)'
    BY <2>plan, <2>rest
  <2>1. CASE UNCHANGED vars
    BY <2>1, <2>rest DEF vars, store, local
  <2>2. ASSUME NEW r \in Rows, Infer(r) \/ Body(r) \/ Feedback(r) PROVE Deleting'
    <3>1. ASSUME NEW c \in Calls, pc[c] = "delete", Cascaded(ids[c]) \subseteq raced
          PROVE  Cascaded(ids[c])' \subseteq raced'
      <4>1. ASSUME r \in Models, InferenceOf[r] \in ids[c] PROVE r \in raced'
        <5>1. SubjectOf[r] = CallSubject[c]
          BY <4>1, TablesAssumption DEF TypeOK
        <5>2. UnderErasure(SubjectOf[r])
          BY <3>1, <5>1 DEF Busy, UnderErasure
        <5> QED
          BY <2>2, <4>1, <5>2, OneNewRowArrives DEF Overtaken, Models
      <4> QED
        BY <2>2, <3>1, <4>1, OneNewRowArrives DEF local
    <3>2. /\ held' = held \cup {r} /\ r \notin written
          /\ UNCHANGED <<pc, next, base, ids>>
      BY <2>2, OneNewRowArrives DEF local
    <3>3. ASSUME NEW c \in Calls PROVE DeletedBy(c)'
      <4>1. base[c] \cap held' = base[c] \cap held
        BY <3>2 DEF TypeOK
      <4>2. DeletePlan(c)' = DeletePlan(c)
        BY <2>plan, <3>2
      <4> QED
        BY <3>1, <3>2, <4>1, <4>2
    <3> QED
      BY <3>3
  <2>3. ASSUME NEW q \in inflight, Land(q) PROVE Deleting'
    BY <2>3, <2>rest DEF Land, local
  <2>4. ASSUME NEW c \in Calls, Resolve(c) PROVE Deleting'
    <3>1. ASSUME NEW d \in Calls \ {c} PROVE DeletedBy(d)'
      BY <2>4, <2>rest DEF Resolve, store, TypeOK
    <3>2. pc'[c] = "count"
      BY <2>4 DEF Resolve, TypeOK
    <3> QED
      BY <3>1, <3>2
  <2>5. ASSUME NEW c \in Calls, CountRows(c) PROVE Deleting'
    <3>1. ASSUME NEW d \in Calls \ {c} PROVE DeletedBy(d)'
      BY <2>5, <2>rest DEF CountRows, Proceed, store, TypeOK
    <3>2. /\ pc'[c] = "delete" => c \notin DryRuns /\ next'[c] = 1
          /\ pc'[c] = "done" => c \in DryRuns
      BY <2>5 DEF CountRows, Proceed, TypeOK
    <3>3. DeletePlan(c)' = DeletePlan(c) /\ Len(DeletePlan(c)) >= 1
      BY <2>5, <2>plan, DeletePlanShape DEF CountRows
    <3>4. DeletedBy(c)'
      BY <3>2, <3>3, DeletePlanShape
    <3> QED
      BY <3>1, <3>4
  <2>6. ASSUME NEW c \in Calls, Mutate(c) PROVE Deleting'
    <3>1. UNCHANGED <<ids, base>> /\ held' \subseteq held
      BY <2>6 DEF Mutate
    <3>2. ASSUME NEW d \in Calls \ {c} PROVE DeletedBy(d)'
      BY <2>6, <2>rest, <3>1 DEF Mutate, Proceed, TypeOK
    <3>3. ids[c] # {} => Cascaded(ids[c])' \subseteq raced'
      <4>1. CASE next[c] = 1 /\ ids[c] # {}
        BY <2>6, <3>1, <4>1, DeletePlanShape DEF Mutate, Target, TargetTable, Match
      <4>2. CASE next[c] > 1
        BY <2>6, <3>1, <4>2 DEF Mutate
      <4> QED
        BY <4>1, <4>2 DEF TypeOK
    <3>4. CASE next[c] < Len(DeletePlan(c)) /\ next'[c] = next[c] + 1 /\ pc' = pc
      <4>1. \A j \in 1..(N + 1) : j < next'[c] => j <= next[c]
        BY <3>4, CountPlanCovers DEF TypeOK
      <4>2. next'[c] <= Len(DeletePlan(c))
        BY <3>4, DeletePlanShape DEF TypeOK
      <4>3. DeletedBy(c)'
        BY <2>6, <2>plan, <3>1, <3>3, <3>4, <4>1, <4>2, MutateClearsTable DEF Mutate
      <4> QED
        BY <3>2, <4>3
    <3>5. CASE next[c] = Len(DeletePlan(c)) /\ pc' = [pc EXCEPT ![c] = "done"]
      <4>1. DeletedBy(c)'
        BY <2>6, <3>1, <3>5, MutateClearsTable DEF TypeOK
      <4> QED
        BY <3>2, <4>1
    <3> QED
      BY <2>6, <3>4, <3>5, MutateProceeds
  <2>7. ASSUME NEW c \in Calls, Fail(c) \/ TimeOut(c) PROVE Deleting'
    BY <2>7, <2>rest DEF Fail, TimeOut, store, TypeOK
  <2> QED
    BY <2>1, <2>2, <2>3, <2>4, <2>5, <2>6, <2>7 DEF Next, Traffic, Advance
<1> QED
  BY <1>1, <1>2, TypeCorrect, FrozenInvariant, PTL DEF Spec

(* An erase that reports success has removed all it took up. *)
THEOREM DoneIsGone == Spec => []DoneMeansGone
<1>1. Deleting => DoneMeansGone
  BY DEF Deleting, DeletedBy, DoneMeansGone
<1> QED
  BY <1>1, DeletingInvariant, PTL
-----------------------------------------------------------------------------
(* A tag-scoped delete meets an inference with bodies only if one of the two
   came too late.                                                        *)
LEMMA DeletedBeforeItsBodies ==
  ASSUME TypeOK, Frozen, Deleting, NEW c \in Calls, pc[c] = "delete",
         NEW m \in held \cap Models, InferenceOf[m] \in Target(c)
  PROVE  CameTooLate(m)
<1> DEFINE i == InferenceOf[m]
           t == TargetTable(c)
<1>1. TableOf[m] = ModelInference /\ TableOf[i] \in InferenceTables
  BY TablesAssumption DEF TypeOK, Models
<1>2. TableOf[i] # ModelInference
  BY <1>1, TablesAssumption
<1>3. t # ModelInference /\ i \in held /\ SubjectOf[i] = CallSubject[c]
  BY <1>2 DEF Target, Match, Cascaded, Tagged, Models
<1>4. i \in ids[c] \cup raced
  BY <1>1, <1>3 DEF Frozen, FrozenBy, Busy, Deleting, DeletedBy
<1>5. ASSUME i \in ids[c] PROVE m \in raced
  <2>1. next[c] # 1
    BY <1>3, <1>5, DeletePlanShape DEF TargetTable
  <2>2. Cascaded(ids[c]) \subseteq raced
    BY <1>5, <2>1 DEF TypeOK, Deleting, DeletedBy
  <2> QED
    BY <1>5, <2>2 DEF Cascaded
<1> QED
  BY <1>4, <1>5 DEF CameTooLate

(* What a pending mutation may remove, seen from the body: an inference of
   the subject it was sent for.                                          *)
LEMMA MatchedInference ==
  ASSUME TypeOK, NEW q \in inflight, NEW m \in Models, InferenceOf[m] \in Match(q.call, q.table)
  PROVE  /\ q.table \in InferenceTables
         /\ InferenceOf[m] \in held
         /\ SubjectOf[m] = CallSubject[q.call]
<1>1. TableOf[InferenceOf[m]] \in InferenceTables /\ TableOf[InferenceOf[m]] # ModelInference
  BY TablesAssumption DEF Models
<1>2. SubjectOf[InferenceOf[m]] = SubjectOf[m]
  BY TablesAssumption
<1> QED
  BY <1>1, <1>2 DEF Match, Cascaded, Tagged, Models

LEMMA BodiesInvariant == Spec => []Bodies
<1> USE DEF Bodies, StrandedOnlyByRace, Stranded, Unresolved, CameTooLate
<1>1. Init => Bodies
  BY DEF Init
<1>2. TypeOK /\ InPlan /\ Frozen /\ Deleting /\ Bodies /\ [Next]_vars => Bodies'
  <2> SUFFICES ASSUME TypeOK, InPlan, Frozen, Deleting, Bodies, [Next]_vars
               PROVE  Bodies'
    OBVIOUS
  <2>match. ASSUME NEW q \in inflight, ids'[q.call] = ids[q.call], held' \subseteq held,
                   NEW m \in held' \cap Models, InferenceOf[m] \in Match(q.call, q.table)'
            PROVE  InferenceOf[m] \in Match(q.call, q.table)
    BY <2>match DEF Match, Cascaded, Tagged
  <2>1. CASE UNCHANGED vars
    BY <2>1, <2>match DEF vars, store, local
  <2>2. ASSUME NEW r \in Rows, Infer(r) \/ Body(r) \/ Feedback(r) PROVE Bodies'
    <3>1. /\ held' = held \cup {r} /\ written' = written \cup {r} /\ r \notin written
          /\ raced \subseteq raced' /\ UNCHANGED <<inflight, pc, ids>>
      BY <2>2, OneNewRowArrives DEF local
    <3>2. ASSUME NEW m \in Models, r \in {m, InferenceOf[m]}, Overtaken(r)
          PROVE  m \in raced' \/ InferenceOf[m] \in raced'
      <4>1. TableOf[r] \in InferenceTables \cup {ModelInference}
        BY <3>2, TablesAssumption DEF Models
      <4> QED
        BY <2>2, <3>2, <4>1, OneNewRowArrives
    <3>3. ASSUME NEW m \in held' \cap Models, InferenceOf[m] \notin held', InferenceOf[m] \in written'
          PROVE  m \in raced' \/ InferenceOf[m] \in raced'
      <4>1. InferenceOf[m] # r /\ InferenceOf[m] \in written \ held
        BY <3>1, <3>3
      <4>2. CASE m = r
        BY <3>2, <3>3, <4>1, <4>2 DEF Overtaken
      <4>3. CASE m # r
        BY <3>1, <3>3, <4>1, <4>3
      <4> QED
        BY <4>2, <4>3
    <3>4. ASSUME NEW q \in inflight, q.table \in InferenceTables,
                 NEW m \in held' \cap Models, InferenceOf[m] \in Match(q.call, q.table)'
          PROVE  m \in raced' \/ InferenceOf[m] \in raced'
      <4>1. q.table # ModelInference
        BY <3>4, TablesAssumption
      <4>2. /\ InferenceOf[m] \in held' /\ TableOf[InferenceOf[m]] = q.table
            /\ SubjectOf[InferenceOf[m]] = CallSubject[q.call]
        BY <3>4, <4>1 DEF Match, Tagged
      <4>3. SubjectOf[m] = CallSubject[q.call]
        BY <4>2, TablesAssumption
      <4>4. CASE r \in {m, InferenceOf[m]}
        <5>1. UnderMutation(SubjectOf[r])
          BY <3>4, <4>2, <4>3, <4>4 DEF UnderMutation
        <5> QED
          BY <3>2, <4>4, <5>1 DEF Overtaken
      <4>5. CASE r \notin {m, InferenceOf[m]}
        <5>1. m \in held /\ InferenceOf[m] \in Match(q.call, q.table)
          BY <3>1, <4>1, <4>2, <4>5, <3>4 DEF Match, Tagged
        <5> QED
          BY <3>1, <3>4, <5>1
      <4> QED
        BY <4>4, <4>5
    <3> QED
      BY <3>1, <3>3, <3>4
  <2>4. ASSUME NEW q \in inflight, Land(q) PROVE Bodies'
    <3>1. PICK R \in SUBSET Match(q.call, q.table) : held' = held \ R
      BY <2>4 DEF Land
    <3>2. inflight' = inflight \ {q} /\ UNCHANGED <<written, raced, pc, ids>>
      BY <2>4 DEF Land, local
    <3>3. ASSUME NEW m \in held \cap Models, InferenceOf[m] \in R PROVE CameTooLate(m)
      BY <3>1, <3>3, MatchedInference
    <3> QED
      BY <3>1, <3>2, <3>3, <2>match
  <2>5. ASSUME NEW c \in Calls, Resolve(c) \/ CountRows(c) \/ Fail(c) PROVE Bodies'
    <3>1. \A d \in Calls : pc[d] = "failed" => pc'[d] = "failed" /\ ids'[d] = ids[d]
      BY <2>5 DEF Resolve, CountRows, Proceed, Fail, Busy, TypeOK
    <3> QED
      BY <2>5, <3>1, <2>match DEF Resolve, CountRows, Fail, store
  <2>6. ASSUME NEW c \in Calls, Mutate(c) PROVE Bodies'
    <3>1. \A d \in Calls : pc[d] = "failed" => pc'[d] = "failed"
      BY <2>6 DEF Mutate, Proceed, TypeOK
    <3>2. held' = held \ Target(c) /\ UNCHANGED <<written, inflight, raced, ids>>
      BY <2>6 DEF Mutate
    <3>3. \A m \in held \cap Models : InferenceOf[m] \in Target(c) => CameTooLate(m)
      BY <2>6, DeletedBeforeItsBodies DEF Mutate
    <3> QED
      BY <3>1, <3>2, <3>3, <2>match
  <2>7. ASSUME NEW c \in Calls, TimeOut(c) PROVE Bodies'
    <3> DEFINE late == [call |-> c, table |-> TargetTable(c)]
    <3>1. /\ \A d \in Calls : pc[d] = "failed" => pc'[d] = "failed"
          /\ pc'[c] = "failed" /\ c \notin DryRuns
      BY <2>7 DEF TimeOut, TypeOK, Deleting, DeletedBy
    <3>2. inflight' = inflight \cup {late} /\ UNCHANGED <<held, written, raced, ids>>
      BY <2>7 DEF TimeOut
    <3>3. \A m \in held \cap Models : InferenceOf[m] \in Target(c) => CameTooLate(m)
      BY <2>7, DeletedBeforeItsBodies DEF TimeOut
    <3>4. ASSUME NEW q \in inflight', q = late, NEW m \in held' \cap Models,
                 InferenceOf[m] \in Match(q.call, q.table)'
          PROVE  CameTooLate(m)
      <4>1. q.call = c /\ q.table = TargetTable(c)
        BY <3>4
      <4>2. InferenceOf[m] \in Match(c, TargetTable(c))
        BY <3>2, <3>4, <4>1 DEF Match, Cascaded, Tagged
      <4> QED
        BY <3>2, <3>3, <3>4, <4>2 DEF Target
    <3>5. ASSUME NEW q \in inflight, q.table \in InferenceTables,
                 NEW m \in held' \cap Models, InferenceOf[m] \in Match(q.call, q.table)'
          PROVE  CameTooLate(m)
      BY <3>2, <3>5, <2>match
    <3>6. ASSUME NEW q \in inflight' PROVE q \in inflight \/ (q = late /\ q.call = c)
      BY <3>2
    <3> HIDE DEF late
    <3>7. StrandedOnlyByRace'
      BY <3>2
    <3> QED
      BY <3>1, <3>2, <3>4, <3>5, <3>6, <3>7
  <2> QED
    BY <2>1, <2>2, <2>4, <2>5, <2>6, <2>7 DEF Next, Traffic, Advance
<1> QED
  BY <1>1, <1>2, TypesAndPlaces, FrozenInvariant, DeletingInvariant, PTL DEF Spec

(* A provider body loses its inference only if one of the two came too late
   for an erase of their subject.                                        *)
THEOREM OnlyRacesStrand == Spec => []StrandedOnlyByRace
<1>1. Bodies => StrandedOnlyByRace
  BY DEF Bodies
<1> QED
  BY <1>1, BodiesInvariant, PTL

LEMMA Invariants == Spec => []IInv
  BY TypeCorrect, FrozenInvariant, CountingInvariant, DeletingInvariant,
     BodiesInvariant, PTL DEF IInv
-----------------------------------------------------------------------------
(* Every statement is a step of the port or changes nothing it speaks of. *)
LEMMA StepKeepsPort ==
  ASSUME IInv, IInv', [Next]_vars
  PROVE  [Port!Next]_<<held, CallSubject, base, [c \in Calls |-> Phase(c)]>>
<1> DEFINE ph == [c \in Calls |-> Phase(c)]
<1> USE DEF IInv
<1>1. ASSUME UNCHANGED <<pc, base>> PROVE UNCHANGED <<CallSubject, base, ph>>
  BY <1>1 DEF Phase
<1>2. ASSUME NEW c \in Calls, NEW q \in PCs, pc' = [pc EXCEPT ![c] = q]
      PROVE  /\ ph[c] = Phase(c)
             /\ q \in Busy => ph' = [ph EXCEPT ![c] = "running"]
             /\ q \in {"done", "failed"} => ph' = [ph EXCEPT ![c] = q]
  BY <1>2 DEF Phase, PCs, Busy, TypeOK
<1>3. CASE UNCHANGED vars
  BY <1>1, <1>3 DEF vars, store, local
<1>4. ASSUME NEW r \in Rows, Infer(r) \/ Body(r) \/ Feedback(r) PROVE Port!Store
  BY <1>1, <1>4, OneNewRowArrives DEF TypeOK, local, Port!Store
<1>5. ASSUME NEW q \in inflight, Land(q) PROVE Port!Next
  <2> DEFINE c == q.call
  <2>1. /\ c \in Calls \ DryRuns /\ pc[c] = "failed"
        /\ \A r \in Match(c, q.table) : SubjectOf[r] = CallSubject[c]
    BY MatchIsOwn DEF Bodies
  <2>2. ph[c] = "failed"
    BY <2>1 DEF Phase, Busy
  <2>3. /\ \E R \in SUBSET Match(c, q.table) : held' = held \ R
        /\ UNCHANGED <<CallSubject, base, ph>>
    BY <1>1, <1>5 DEF Land, local
  <2>4. Port!Remove(c)
    BY <2>1, <2>2, <2>3 DEF Port!Remove, Port!Removes, Port!OfSubject
  <2> QED
    BY <2>1, <2>4 DEF Port!Next
<1>6. ASSUME NEW c \in Calls, Resolve(c) PROVE Port!Next
  <2>1. ph[c] = "waiting" /\ ph' = [ph EXCEPT ![c] = "running"]
    BY <1>2, <1>6 DEF Resolve, Phase, PCs, Busy
  <2>2. base' = [base EXCEPT ![c] = Port!OfSubject(c, Reach)] /\ UNCHANGED <<held, CallSubject>>
    BY <1>6 DEF Resolve, store, OfSubject, Port!OfSubject
  <2>3. Port!TakeUp(c)
    BY <2>1, <2>2 DEF Port!TakeUp
  <2> QED
    BY <2>3 DEF Port!Next
<1>7. ASSUME NEW c \in Calls, CountRows(c)
      PROVE  [Port!Next]_<<held, CallSubject, base, ph>>
  <2>1. UNCHANGED <<held, CallSubject, base>> /\ ph[c] = "running"
    BY <1>7 DEF CountRows, store, Phase, Busy
  <2>2. \/ pc' = pc
        \/ pc' = [pc EXCEPT ![c] = "delete"]
        \/ pc' = [pc EXCEPT ![c] = "done"] /\ c \in DryRuns
    BY <1>7 DEF CountRows, Proceed, TypeOK
  <2>3. CASE pc' = pc
    BY <1>1, <2>1, <2>3
  <2>4. CASE pc' = [pc EXCEPT ![c] = "delete"]
    <3>1. ph' = [ph EXCEPT ![c] = "running"]
      BY <1>2, <2>4 DEF PCs, Busy
    <3>2. ph' = ph
      BY <2>1, <3>1
    <3> QED
      BY <2>1, <3>2
  <2>5. CASE pc' = [pc EXCEPT ![c] = "done"] /\ c \in DryRuns
    <3>1. ph' = [ph EXCEPT ![c] = "done"]
      BY <1>2, <2>5 DEF PCs
    <3>2. Port!Confirm(c)
      BY <2>1, <2>5, <3>1 DEF Port!Confirm, Port!Removes
    <3> QED
      BY <3>2 DEF Port!Next
  <2> QED
    BY <2>2, <2>3, <2>4, <2>5
<1>8. ASSUME NEW c \in Calls, Mutate(c) PROVE Port!Next
  <2>1. UNCHANGED <<CallSubject, base>> /\ ph[c] = "running" /\ c \notin DryRuns
    BY <1>8 DEF Mutate, Phase, Busy, Deleting, DeletedBy
  <2>2. Port!Removes(c)
    BY <1>8, <2>1, MatchIsOwn DEF Mutate, Target, Port!Removes, Port!OfSubject
  <2>3. CASE pc' = pc
    <3>1. Port!Remove(c)
      BY <1>1, <2>1, <2>2, <2>3 DEF Port!Remove
    <3> QED
      BY <3>1 DEF Port!Next
  <2>4. CASE pc' = [pc EXCEPT ![c] = "done"]
    <3>1. ph' = [ph EXCEPT ![c] = "done"]
      BY <1>2, <2>4 DEF PCs
    <3>2. base[c] \cap held' = {}
      BY <2>1, <2>4 DEF Deleting, DeletedBy, TypeOK
    <3>3. Port!Confirm(c)
      BY <2>1, <2>2, <3>1, <3>2 DEF Port!Confirm
    <3> QED
      BY <3>3 DEF Port!Next
  <2> QED
    BY <1>8, <2>3, <2>4, MutateProceeds
<1>9. ASSUME NEW c \in Calls, Fail(c) \/ TimeOut(c) PROVE Port!Next
  <2>1. UNCHANGED <<held, CallSubject, base>> /\ ph[c] \in {"waiting", "running"}
    BY <1>9 DEF Fail, TimeOut, store, Phase, Busy
  <2>2. ph' = [ph EXCEPT ![c] = "failed"]
    BY <1>2, <1>9 DEF Fail, TimeOut, PCs
  <2>3. Port!Raise(c)
    BY <2>1, <2>2 DEF Port!Raise, Port!Removes
  <2> QED
    BY <2>3 DEF Port!Next
<1> QED
  BY <1>3, <1>4, <1>5, <1>6, <1>7, <1>8, <1>9 DEF Next, Traffic, Advance, Port!Next

(* The adapter refines the port every adapter implements. *)
THEOREM KeepsPort == Spec => ImplementsPort
<1>1. Init => Port!Init
  <2> SUFFICES ASSUME Init PROVE Port!Init
    OBVIOUS
  <2>1. \A c \in Calls : Phase(c) = "waiting"
    BY DEF Init, Phase, Busy
  <2>2. [c \in Calls |-> Phase(c)] = [c \in Calls |-> "waiting"]
    BY <2>1
  <2>3. held \subseteq Rows /\ base = [c \in Calls |-> {}]
    BY TablesAssumption DEF Init
  <2> QED
    BY <2>2, <2>3 DEF Port!Init
<1>2. IInv /\ IInv' /\ [Next]_vars
         => [Port!Next]_<<held, CallSubject, base, [c \in Calls |-> Phase(c)]>>
  BY StepKeepsPort
<1> QED
  BY <1>1, <1>2, Invariants, PTL DEF Spec, ImplementsPort, Port!Spec
=============================================================================
