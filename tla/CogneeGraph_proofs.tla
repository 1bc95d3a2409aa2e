------------------------- MODULE CogneeGraph_proofs -------------------------
(***************************************************************************)
(* Proofs about CogneeGraph, for every set of subjects, texts, entities and *)
(* calls and every bound on the faults.                                    *)
(*                                                                         *)
(* The argument: a chunk bears the tag of its own text and no other, and   *)
(* comes into the graph once, with the text (Placing); a call counted only *)
(* chunks of its subject, all of them materialized by then (Calling).      *)
(***************************************************************************)
EXTENDS CogneeGraph, Sums

(* What the graph is made of: finitely many nodes and relationships, the
   chunks of materialized texts, each with its own text's tag at most.   *)
Placing ==
    /\ IsFiniteSet(graph) /\ IsFiniteSet(edges)
    /\ edges \subseteq Items \X Entities
    /\ graph \cap Items \subseteq cognified
    /\ \A i \in Items : tags[i] \subseteq TagsOf(i)

(* What a call knows: the chunks it counted are its subject's and were
   materialized by then; only an erase goes on to delete.                *)
Calling ==
    \A c \in Calls :
       /\ pre[c] \cap Items \subseteq cognified \cap OfSubject(CallSubject[c])
       /\ dealt[c] \subseteq cognified
       /\ pc[c] = "delete" => c \notin DryRuns

(* A text's tags are its subject's, and only of a tagged text. *)
LEMMA TagsAreSubjects ==
  ASSUME NEW i \in Items
  PROVE  /\ TagsOf(i) \in SUBSET Subjects
         /\ \A s \in Subjects : s \in TagsOf(i) <=> i \in OfSubject(s)
BY GraphAssumption DEF TagsOf, OfSubject

(* The nodes and relationships a delete takes are finite in number. *)
LEMMA DeletedAreFinite ==
  ASSUME Placing, NEW s
  PROVE  /\ Cardinality(Tagged(s)) \in Nat
         /\ Cardinality(Touching(Tagged(s))) \in Nat
<1>1. IsFiniteSet(Tagged(s)) /\ IsFiniteSet(Touching(Tagged(s)))
  <2>1. Tagged(s) \in SUBSET graph /\ Touching(Tagged(s)) \in SUBSET edges
    BY DEF Tagged, Touching
  <2> QED
    BY <2>1, FS_Subset DEF Placing
<1> QED
  BY <1>1, FS_CardinalityType

(* Materializing a text brings finitely many nodes and relationships. *)
LEMMA CognifiedAreFinite ==
  ASSUME Placing, NEW i \in Items
  PROVE  /\ IsFiniteSet(graph \cup ({i} \cup Mentions[i]))
         /\ IsFiniteSet(edges \cup {<<i, e>> : e \in Mentions[i]})
         /\ Cardinality(({i} \cup Mentions[i]) \ graph) \in Nat
<1>1. IsFiniteSet({i}) /\ IsFiniteSet(Mentions[i])
  BY GraphAssumption, FS_Singleton
<1>2. IsFiniteSet({i} \cup Mentions[i])
  BY <1>1, FS_Union
<1>3. IsFiniteSet({i} \X Mentions[i])
  BY <1>1, FS_Product
<1>4. {<<i, e>> : e \in Mentions[i]} \in SUBSET ({i} \X Mentions[i])
  OBVIOUS
<1>5. IsFiniteSet({<<i, e>> : e \in Mentions[i]})
  BY <1>3, <1>4, FS_Subset
<1>6. ({i} \cup Mentions[i]) \ graph \in SUBSET ({i} \cup Mentions[i])
  OBVIOUS
<1>7. Cardinality(({i} \cup Mentions[i]) \ graph) \in Nat
  BY <1>2, <1>6, FS_Subset, FS_CardinalityType
<1> QED
  BY <1>2, <1>5, <1>7, FS_Union DEF Placing

Shape == TypeOK /\ Placing

LEMMA ShapeInvariant == Spec => []Shape
<1> USE GraphAssumption DEF Shape
<1>1. Init => Shape
  BY FS_EmptySet DEF Init, TypeOK, Placing, Nodes
<1>2. Shape /\ [Next]_vars => Shape'
  <2> SUFFICES ASSUME Shape, [Next]_vars PROVE Shape'
    OBVIOUS
  <2> USE DEF TypeOK, Placing, Nodes
  <2>1. CASE UNCHANGED vars
    BY <2>1 DEF vars, data, calls, TagsOf
  <2>2. ASSUME NEW i \in Items, Add(i) PROVE Shape'
    BY <2>2 DEF Add, calls, TagsOf
  <2>3. ASSUME NEW i \in Items, Cognify(i) PROVE Shape'
    <3> DEFINE new == {i} \cup Mentions[i]
    <3>1. IsFiniteSet(graph') /\ IsFiniteSet(edges') /\ created' \in Nat
      <4>1. /\ IsFiniteSet(graph \cup new)
            /\ IsFiniteSet(edges \cup {<<i, e>> : e \in Mentions[i]})
            /\ Cardinality(new \ graph) \in Nat
        BY CognifiedAreFinite
      <4>2. /\ graph' = graph \cup new
            /\ edges' = edges \cup {<<i, e>> : e \in Mentions[i]}
            /\ created' = created + Cardinality(new \ graph)
        BY <2>3 DEF Cognify
      <4> QED
        BY <4>1, <4>2
    <3>2. /\ graph' \subseteq Nodes /\ graph' \cap Items \subseteq cognified'
          /\ cognified' \subseteq added' /\ added' \subseteq Items
      BY <2>3 DEF Cognify
    <3>3. tags' \in [Nodes -> SUBSET Subjects] /\ \A n \in Nodes \ graph' : tags'[n] = {}
      BY <2>3, TagsAreSubjects DEF Cognify
    <3>4. \A j \in Items : tags'[j] \subseteq TagsOf(j)
      BY <2>3 DEF Cognify
    <3>5. /\ edges' \subseteq Items \X Entities
          /\ \A e \in edges' : e[1] \in graph' \cap Items /\ e[2] \in graph' \cap Entities
      BY <2>3 DEF Cognify
    <3> QED
      BY <2>3, <3>1, <3>2, <3>3, <3>4, <3>5 DEF Cognify, calls, TagsOf
  <2>4. ASSUME NEW c \in Calls, Detach(Tagged(CallSubject[c])) PROVE
          /\ graph' \subseteq graph /\ edges' \subseteq edges
          /\ IsFiniteSet(graph') /\ IsFiniteSet(edges')
          /\ tags' \in [Nodes -> SUBSET Subjects]
          /\ \A n \in Nodes : tags'[n] \subseteq tags[n]
          /\ \A n \in Nodes \ graph' : tags'[n] = {}
          /\ \A e \in edges' : e[1] \in graph' \cap Items /\ e[2] \in graph' \cap Entities
    BY <2>4, FS_Subset DEF Detach, Tagged, Touching
  <2>5. ASSUME NEW c \in Calls, CountByClass(c) PROVE Shape'
    BY <2>5 DEF CountByClass, Tagged, data, TagsOf
  <2>6. ASSUME NEW c \in Calls, DeleteByNodeSet(c) PROVE Shape'
    <3>1. nodesDel' \in [Calls -> Nat] /\ edgesDel' \in [Calls -> Nat]
      BY <2>6, DeletedAreFinite DEF DeleteByNodeSet
    <3> QED
      BY <2>4, <2>6, <3>1 DEF DeleteByNodeSet, Detach, TagsOf
  <2>7. ASSUME NEW c \in Calls, Fail(c) PROVE Shape'
    BY <2>7 DEF Fail, Fault, data, TagsOf
  <2>8. ASSUME NEW c \in Calls, LoseAnswer(c) PROVE Shape'
    <3>1. lost' \in Nat /\ faults' \in 0..MaxFaults
      BY <2>8, DeletedAreFinite DEF LoseAnswer, Fault
    <3> QED
      BY <2>4, <2>8, <3>1 DEF LoseAnswer, Detach, TagsOf
  <2> QED
    BY <2>1, <2>2, <2>3, <2>5, <2>6, <2>7, <2>8 DEF Next, Ingest, CallStep
<1> QED
  BY <1>1, <1>2, PTL DEF Spec

(* The variables have their types in every reachable state, and no
   relationship hangs at a node that was deleted.                        *)
THEOREM TypeCorrect == Spec => []TypeOK
  BY ShapeInvariant, PTL DEF Shape
-----------------------------------------------------------------------------
LEMMA CallingInvariant == Spec => []Calling
<1> USE GraphAssumption DEF Calling
<1>1. Init => Calling
  BY DEF Init
<1>2. Shape /\ Calling /\ [Next]_vars => Calling'
  <2> SUFFICES ASSUME Shape, Calling, [Next]_vars PROVE Calling'
    OBVIOUS
  <2> USE DEF Shape, TypeOK, Placing
  <2>1. CASE UNCHANGED vars
    BY <2>1 DEF vars, data, calls, OfSubject
  <2>2. ASSUME NEW i \in Items, Add(i) \/ Cognify(i) PROVE Calling'
    BY <2>2 DEF Add, Cognify, calls, OfSubject
  <2>3. ASSUME NEW c \in Calls, CountByClass(c) PROVE Calling'
    <3>1. Tagged(CallSubject[c]) \cap Items \subseteq cognified \cap OfSubject(CallSubject[c])
      BY TagsAreSubjects DEF Tagged
    <3> QED
      BY <2>3, <3>1 DEF CountByClass, data, OfSubject
  <2>4. ASSUME NEW c \in Calls, DeleteByNodeSet(c) PROVE Calling'
    BY <2>4 DEF DeleteByNodeSet, Detach, OfSubject
  <2>5. ASSUME NEW c \in Calls, Fail(c) PROVE Calling'
    BY <2>5 DEF Fail, data, OfSubject
  <2>6. ASSUME NEW c \in Calls, LoseAnswer(c) PROVE Calling'
    BY <2>6 DEF LoseAnswer, Detach, OfSubject
  <2> QED
    BY <2>1, <2>2, <2>3, <2>4, <2>5, <2>6 DEF Next, Ingest, CallStep
<1> QED
  BY <1>1, <1>2, ShapeInvariant, PTL DEF Spec
-----------------------------------------------------------------------------
(* Whatever is still in the graph of a tagged text bears its tag. *)
THEOREM Reachable == Spec => []TextIsReachable
<1> USE GraphAssumption DEF TextIsReachable, Touching
<1>1. Init => TextIsReachable
  BY DEF Init
<1>2. Shape /\ TextIsReachable /\ [Next]_vars => TextIsReachable'
  <2> SUFFICES ASSUME Shape, TextIsReachable, [Next]_vars PROVE TextIsReachable'
    OBVIOUS
  <2> USE DEF Shape, TypeOK, Placing, Nodes
  <2>1. CASE UNCHANGED <<graph, tags, edges>>
    BY <2>1 DEF TagsOf
  <2>2. ASSUME NEW i \in Items, Cognify(i) PROVE TextIsReachable'
    <3> SUFFICES ASSUME NEW j \in graph' \cap Items,
                        NEW n \in {j} \cup {e[2] : e \in {e \in edges' : e[1] \in {j} \/ e[2] \in {j}}}
                 PROVE  TagsOf(j) \subseteq tags'[n]
      BY DEF TagsOf
    <3>1. n \in Nodes /\ (n = j \/ <<j, n>> \in edges')
      BY <2>2 DEF Cognify
    <3>2. CASE j = i
      BY <2>2, <3>1, <3>2 DEF Cognify
    <3>3. CASE j # i
      <4>1. j \in graph /\ (n = j \/ <<j, n>> \in edges)
        BY <2>2, <3>1, <3>3 DEF Cognify
      <4>2. TagsOf(j) \subseteq tags[n]
        BY <4>1
      <4> QED
        BY <2>2, <3>1, <4>2 DEF Cognify
    <3> QED
      BY <3>2, <3>3
  <2>3. ASSUME NEW N, Detach(N) PROVE TextIsReachable'
    <3> SUFFICES ASSUME NEW j \in graph' \cap Items,
                        NEW n \in {j} \cup {e[2] : e \in {e \in edges' : e[1] \in {j} \/ e[2] \in {j}}}
                 PROVE  TagsOf(j) \subseteq tags'[n]
      BY DEF TagsOf
    <3>1. j \in graph /\ n \in Nodes /\ n \notin N /\ (n = j \/ <<j, n>> \in edges)
      BY <2>3 DEF Detach
    <3>2. TagsOf(j) \subseteq tags[n]
      BY <3>1
    <3> QED
      BY <2>3, <3>1, <3>2 DEF Detach
  <2> QED
    BY <2>1, <2>2, <2>3 DEF Next, Ingest, CallStep, Add, CountByClass, DeleteByNodeSet,
       Fail, LoseAnswer, vars, data
<1> QED
  BY <1>1, <1>2, ShapeInvariant, PTL DEF Spec

(* After a successful erase, what carries the subject's tag was put there by
   a text materialized later.                                            *)
THEOREM DoneIsForgotten == Spec => []DoneMeansForgotten
<1> USE GraphAssumption DEF DoneMeansForgotten, Tagged, OfSubject
<1>1. Init => DoneMeansForgotten
  BY DEF Init
<1>2. Shape /\ Calling /\ DoneMeansForgotten /\ [Next]_vars => DoneMeansForgotten'
  <2> SUFFICES ASSUME Shape, Calling, DoneMeansForgotten, [Next]_vars
               PROVE  DoneMeansForgotten'
    OBVIOUS
  <2> USE DEF Shape, TypeOK, Placing, Calling, Nodes
  <2>1. CASE UNCHANGED vars
    BY <2>1 DEF vars, data, calls
  <2>2. ASSUME NEW i \in Items, Add(i) PROVE DoneMeansForgotten'
    BY <2>2 DEF Add, calls
  <2>3. ASSUME NEW i \in Items, Cognify(i) PROVE DoneMeansForgotten'
    <3>0. UNCHANGED <<pc, dealt>>
      BY <2>3 DEF Cognify, calls
    <3> SUFFICES ASSUME NEW c \in Calls \ DryRuns, pc[c] = "done",
                        NEW n \in graph', CallSubject[c] \in tags'[n]
                 PROVE  \E j \in (cognified' \cap OfSubject(CallSubject[c])) \ dealt[c] :
                           n = j \/ n \in Mentions[j]
      BY <3>0
    <3>1. n \in Nodes
      BY <2>3 DEF Cognify
    <3>2. CASE CallSubject[c] \in tags[n]
      <4>1. n \in graph
        BY <3>1, <3>2
      <4> QED
        BY <2>3, <3>2, <4>1 DEF Cognify
    <3>3. CASE CallSubject[c] \notin tags[n]
      <4>1. n \in {i} \cup Mentions[i] /\ CallSubject[c] \in TagsOf(i)
        BY <2>3, <3>1, <3>3 DEF Cognify
      <4>2. i \in OfSubject(CallSubject[c])
        BY <4>1, TagsAreSubjects
      <4>3. i \notin dealt[c] /\ i \in cognified'
        BY <2>3 DEF Cognify
      <4> QED
        BY <4>1, <4>2, <4>3
    <3> QED
      BY <3>2, <3>3
  <2>4. ASSUME NEW c \in Calls, CountByClass(c) PROVE DoneMeansForgotten'
    BY <2>4 DEF CountByClass, data
  <2>5. ASSUME NEW c \in Calls, DeleteByNodeSet(c) PROVE DoneMeansForgotten'
    <3>1. \A n \in graph' : CallSubject[c] \notin tags'[n]
      BY <2>5 DEF DeleteByNodeSet, Detach
    <3>2. \A n \in graph' : n \in graph /\ tags'[n] \subseteq tags[n]
      BY <2>5 DEF DeleteByNodeSet, Detach
    <3> QED
      BY <2>5, <3>1, <3>2 DEF DeleteByNodeSet, Detach
  <2>6. ASSUME NEW c \in Calls, Fail(c) PROVE DoneMeansForgotten'
    BY <2>6 DEF Fail, data
  <2>7. ASSUME NEW c \in Calls, LoseAnswer(c) PROVE DoneMeansForgotten'
    <3>1. \A n \in graph' : n \in graph /\ tags'[n] \subseteq tags[n]
      BY <2>7 DEF LoseAnswer, Detach
    <3> QED
      BY <2>7, <3>1 DEF LoseAnswer, Detach
  <2> QED
    BY <2>1, <2>2, <2>3, <2>4, <2>5, <2>6, <2>7 DEF Next, Ingest, CallStep
<1> QED
  BY <1>1, <1>2, ShapeInvariant, CallingInvariant, PTL DEF Spec
-----------------------------------------------------------------------------
(* A call reports deletions when its delete returns, and only then. *)
Reporting == \A c \in Calls : pc[c] \in {"idle", "delete"} => nodesDel[c] = 0

LEMMA ReportingInvariant == Spec => []Reporting
<1>1. Init => Reporting
  BY DEF Init, Reporting
<1>2. Shape /\ Reporting /\ [Next]_vars => Reporting'
  <2> USE DEF Shape, TypeOK, Reporting
  <2> QED
    BY DEF Next, Ingest, CallStep, Add, Cognify, CountByClass, DeleteByNodeSet, Fail,
       LoseAnswer, vars, data, calls
<1> QED
  BY <1>1, <1>2, ShapeInvariant, PTL DEF Spec

(* New nodes raise the count of the graph by as many, deleted ones lower it. *)
LEMMA CountOfGraph ==
  ASSUME Shape
  PROVE  /\ Cardinality(graph) \in Nat
         /\ \A i \in Items :
               /\ Cardinality(({i} \cup Mentions[i]) \ graph) \in Nat
               /\ Cardinality(graph \cup ({i} \cup Mentions[i]))
                     = Cardinality(graph) + Cardinality(({i} \cup Mentions[i]) \ graph)
         /\ \A s \in Subjects :
               /\ Cardinality(Tagged(s)) \in Nat
               /\ Cardinality(graph \ Tagged(s)) \in Nat
               /\ Cardinality(graph \ Tagged(s)) + Cardinality(Tagged(s)) = Cardinality(graph)
<1> USE DEF Shape
<1>1. IsFiniteSet(graph) /\ Cardinality(graph) \in Nat
  BY FS_CardinalityType DEF Placing
<1>2. ASSUME NEW i \in Items
      PROVE  /\ Cardinality(({i} \cup Mentions[i]) \ graph) \in Nat
             /\ Cardinality(graph \cup ({i} \cup Mentions[i]))
                   = Cardinality(graph) + Cardinality(({i} \cup Mentions[i]) \ graph)
  <2> DEFINE fresh == ({i} \cup Mentions[i]) \ graph
  <2>1. IsFiniteSet(graph \cup ({i} \cup Mentions[i])) /\ Cardinality(fresh) \in Nat
    BY CognifiedAreFinite
  <2>2. fresh \in SUBSET (graph \cup ({i} \cup Mentions[i]))
    OBVIOUS
  <2>3. IsFiniteSet(fresh)
    BY <2>1, <2>2, FS_Subset
  <2>4. /\ graph \cup fresh = graph \cup ({i} \cup Mentions[i])
        /\ graph \cap fresh = {}
    OBVIOUS
  <2> HIDE DEF fresh
  <2>5. Cardinality(graph \cup fresh)
           = Cardinality(graph) + Cardinality(fresh) - Cardinality(graph \cap fresh)
    BY <1>1, <2>3, FS_Union
  <2>6. Cardinality(graph \cap fresh) = 0
    BY <2>4, FS_EmptySet
  <2>7. Cardinality(graph \cup fresh) = Cardinality(graph) + Cardinality(fresh)
    BY <1>1, <2>1, <2>5, <2>6
  <2> QED
    BY <2>1, <2>4, <2>7 DEF fresh
<1>3. ASSUME NEW s \in Subjects
      PROVE  /\ Cardinality(Tagged(s)) \in Nat
             /\ Cardinality(graph \ Tagged(s)) \in Nat
             /\ Cardinality(graph \ Tagged(s)) + Cardinality(Tagged(s)) = Cardinality(graph)
  <2>1. Cardinality(Tagged(s)) \in Nat
    BY DeletedAreFinite
  <2>2. graph \cap Tagged(s) = Tagged(s)
    BY DEF Tagged
  <2>3. /\ Cardinality(graph \ Tagged(s)) \in Nat
        /\ Cardinality(graph \ Tagged(s)) = Cardinality(graph) - Cardinality(graph \cap Tagged(s))
    BY <1>1, FS_Difference, FS_CardinalityType
  <2> QED
    BY <1>1, <2>1, <2>2, <2>3
<1> QED
  BY <1>1, <1>2, <1>3

Balanced == created = Cardinality(graph) + lost + Total(nodesDel, Calls)

LEMMA BalancedMeans == DeletionsAddUp <=> Balanced
BY DEF DeletionsAddUp, Balanced, Total

(* The node counts of the receipts add up: with the nodes of the graph and
   those deleted by calls that raised, they are all that ever existed.   *)
THEOREM CountsAddUp == Spec => []DeletionsAddUp
<1> USE GraphAssumption
<1>1. Init => Balanced
  <2> SUFFICES ASSUME Init PROVE Balanced
    OBVIOUS
  <2>1. Total(nodesDel, Calls) = 0
    BY TotalOfNone DEF Init
  <2> QED
    BY <2>1, FS_EmptySet DEF Init, Balanced
<1>2. Shape /\ Reporting /\ Balanced /\ [Next]_vars => Balanced'
  <2> SUFFICES ASSUME Shape, Reporting, [Next]_vars,
                      created = Cardinality(graph) + lost + Total(nodesDel, Calls)
               PROVE  created' = Cardinality(graph') + lost' + Total(nodesDel', Calls)
    BY DEF Balanced
  <2>1. /\ Cardinality(graph) \in Nat /\ lost \in Nat /\ created \in Nat
        /\ nodesDel \in [Calls -> Nat]
    BY CountOfGraph DEF Shape, TypeOK
  <2>2. CASE UNCHANGED <<created, graph, lost, nodesDel>>
    BY <2>2
  <2>3. ASSUME NEW i \in Items, Cognify(i)
        PROVE  created' = Cardinality(graph') + lost' + Total(nodesDel', Calls)
    <3> DEFINE n == Cardinality(({i} \cup Mentions[i]) \ graph)
    <3>1. /\ created' = created + n /\ graph' = graph \cup ({i} \cup Mentions[i])
          /\ lost' = lost /\ nodesDel' = nodesDel
      BY <2>3 DEF Cognify, calls
    <3>2. n \in Nat /\ Cardinality(graph') = Cardinality(graph) + n
      BY <3>1, CountOfGraph
    <3>3. Total(nodesDel, Calls) \in Nat
      BY <2>1, TotalIsNat
    <3> HIDE DEF n
    <3> QED
      BY <2>1, <3>1, <3>2, <3>3
  <2>4. ASSUME NEW c \in Calls, DeleteByNodeSet(c)
        PROVE  created' = Cardinality(graph') + lost' + Total(nodesDel', Calls)
    <3> DEFINE n == Cardinality(Tagged(CallSubject[c]))
    <3>1. /\ created' = created /\ graph' = graph \ Tagged(CallSubject[c])
          /\ lost' = lost /\ nodesDel' = [nodesDel EXCEPT ![c] = n]
          /\ nodesDel[c] = 0
      BY <2>4 DEF DeleteByNodeSet, Detach, Reporting
    <3>2. n \in Nat /\ Cardinality(graph') \in Nat /\ Cardinality(graph') + n = Cardinality(graph)
      BY <3>1, CountOfGraph
    <3> HIDE DEF n
    <3>3. Shifted(Calls, nodesDel, nodesDel', c, n)
      BY <2>1, <3>1, <3>2 DEF Shifted
    <3>4. /\ Total(nodesDel, Calls) \in Nat
          /\ Total(nodesDel', Calls) = Total(nodesDel, Calls) + n
      BY <2>1, <3>2, <3>3, TotalGrows
    <3> QED
      BY <2>1, <3>1, <3>2, <3>4
  <2>5. ASSUME NEW c \in Calls, LoseAnswer(c)
        PROVE  created' = Cardinality(graph') + lost' + Total(nodesDel', Calls)
    <3> DEFINE n == Cardinality(Tagged(CallSubject[c]))
    <3>1. /\ created' = created /\ graph' = graph \ Tagged(CallSubject[c])
          /\ lost' = lost + n /\ nodesDel' = nodesDel
      BY <2>5 DEF LoseAnswer, Detach
    <3>2. n \in Nat /\ Cardinality(graph') \in Nat /\ Cardinality(graph') + n = Cardinality(graph)
      BY <3>1, CountOfGraph
    <3>3. Total(nodesDel, Calls) \in Nat
      BY <2>1, TotalIsNat
    <3> HIDE DEF n
    <3> QED
      BY <2>1, <3>1, <3>2, <3>3
  <2> QED
    BY <2>2, <2>3, <2>4, <2>5 DEF Next, Ingest, CallStep, Add, CountByClass, Fail,
       vars, data, calls
<1> QED
  BY <1>1, <1>2, BalancedMeans, ShapeInvariant, ReportingInvariant, PTL DEF Spec
-----------------------------------------------------------------------------
IInv == Shape /\ Calling /\ TextIsReachable

LEMMA Invariants == Spec => []IInv
  BY ShapeInvariant, CallingInvariant, Reachable, PTL DEF IInv

(* The tag of a subject is on that subject's chunks and on no others. *)
LEMMA TagFindsChunks ==
  ASSUME IInv, NEW s \in Subjects
  PROVE  Tagged(s) \cap Items = graph \cap Items \cap OfSubject(s)
<1>1. \A i \in graph \cap Items : tags[i] = TagsOf(i)
  BY DEF IInv, Shape, Placing, TextIsReachable
<1> QED
  BY <1>1, TagsAreSubjects DEF Tagged

(* A delete takes chunks of its call's subject only, and all it counted. *)
LEMMA DeleteTakesSubject ==
  ASSUME IInv, NEW c \in Calls, Detach(Tagged(CallSubject[c]))
  PROVE  /\ graph' \cap Items \subseteq graph \cap Items
         /\ (graph \cap Items) \ (graph' \cap Items) \subseteq Port!OfSubject(c, graph \cap Items)
         /\ pre[c] \cap Items \cap graph' = {}
<1>1. Tagged(CallSubject[c]) \cap Items = graph \cap Items \cap OfSubject(CallSubject[c])
  BY TagFindsChunks, GraphAssumption
<1>2. graph' = graph \ Tagged(CallSubject[c])
  BY DEF Detach
<1>3. pre[c] \cap Items \subseteq OfSubject(CallSubject[c])
  BY DEF IInv, Calling
<1>4. graph' \cap Items \subseteq graph \cap Items
  BY <1>2
<1>5. (graph \cap Items) \ (graph' \cap Items) \subseteq Port!OfSubject(c, graph \cap Items)
  BY <1>1, <1>2 DEF OfSubject, Port!OfSubject
<1>6. pre[c] \cap Items \cap graph' = {}
  BY <1>1, <1>2, <1>3
<1> QED
  BY <1>4, <1>5, <1>6

(* Every step is a step of the port or changes nothing it speaks of. *)
LEMMA StepKeepsPort ==
  ASSUME IInv, [Next]_vars
  PROVE  [Port!Next]_<<graph \cap Items, CallSubject, [c \in Calls |-> pre[c] \cap Items],
                       [c \in Calls |-> Phase(c)]>>
<1> DEFINE held == graph \cap Items
           base == [c \in Calls |-> pre[c] \cap Items]
           ph == [c \in Calls |-> Phase(c)]
           reach == UNION {Tagged(s) \cap Items : s \in Subjects}
<1> USE GraphAssumption DEF IInv, Shape, TypeOK, Nodes
<1>1. ASSUME UNCHANGED pc PROVE ph' = ph
  BY <1>1 DEF Phase
<1>2. ASSUME NEW c \in Calls, NEW q \in {"delete", "done", "failed"},
             pc' = [pc EXCEPT ![c] = q]
      PROVE  ph' = [ph EXCEPT ![c] = IF q = "delete" THEN "running" ELSE q]
  BY <1>2 DEF Phase
<1>3. CASE UNCHANGED vars
  BY <1>1, <1>3 DEF vars, data, calls
<1>4. ASSUME NEW i \in Items, Add(i) PROVE UNCHANGED <<held, CallSubject, base, ph>>
  BY <1>1, <1>4 DEF Add, calls
<1>5. ASSUME NEW i \in Items, Cognify(i) PROVE Port!Next
  <2>1. held' = held \cup {i} /\ UNCHANGED <<base, ph>>
    BY <1>1, <1>5 DEF Cognify, calls
  <2>2. \A c \in Calls : i \notin base[c]
    BY <1>5 DEF Cognify, Calling
  <2>3. Port!Store
    BY <2>1, <2>2 DEF Port!Store
  <2> QED
    BY <2>3 DEF Port!Next
<1>6. ASSUME NEW c \in Calls, CountByClass(c) PROVE Port!Next
  <2>1. ph[c] = "waiting"
    BY <1>6 DEF CountByClass, Phase
  <2>2. \/ ph' = [ph EXCEPT ![c] = "running"]
        \/ c \in DryRuns /\ ph' = [ph EXCEPT ![c] = "done"]
    BY <1>2, <1>6 DEF CountByClass
  <2>3. Port!OfSubject(c, reach) = Tagged(CallSubject[c]) \cap Items
    BY TagsAreSubjects DEF Tagged, Placing, OfSubject, Port!OfSubject
  <2>4. base' = [base EXCEPT ![c] = Port!OfSubject(c, reach)] /\ UNCHANGED held
    BY <1>6, <2>3 DEF CountByClass, data
  <2>5. Port!TakeUp(c)
    BY <2>1, <2>2, <2>4 DEF Port!TakeUp
  <2> QED
    BY <2>5 DEF Port!Next
<1>7. ASSUME NEW c \in Calls, DeleteByNodeSet(c) PROVE Port!Next
  <2>1. ph[c] = "running" /\ c \notin DryRuns /\ UNCHANGED base
    BY <1>7 DEF DeleteByNodeSet, Phase, Calling
  <2>2. ph' = [ph EXCEPT ![c] = "done"]
    BY <1>2, <1>7 DEF DeleteByNodeSet
  <2>3. Port!Removes(c) /\ base[c] \cap held' = {}
    BY <1>7, <2>1, DeleteTakesSubject DEF DeleteByNodeSet, Port!Removes
  <2>4. Port!Confirm(c)
    BY <2>1, <2>2, <2>3 DEF Port!Confirm
  <2> QED
    BY <2>4 DEF Port!Next
<1>8. ASSUME NEW c \in Calls, Fail(c) \/ LoseAnswer(c) PROVE Port!Next
  <2>1. ph[c] \in {"waiting", "running"} /\ UNCHANGED base
    BY <1>8 DEF Fail, LoseAnswer, Phase
  <2>2. ph' = [ph EXCEPT ![c] = "failed"]
    BY <1>2, <1>8 DEF Fail, LoseAnswer
  <2>3. CASE Fail(c)
    BY <2>1, <2>2, <2>3 DEF Fail, data, Port!Raise, Port!Removes, Port!Next
  <2>4. CASE LoseAnswer(c)
    <3>1. c \notin DryRuns
      BY <2>4 DEF LoseAnswer, Calling
    <3>2. Port!Removes(c)
      BY <2>4, <3>1, DeleteTakesSubject DEF LoseAnswer, Port!Removes
    <3> QED
      BY <2>1, <2>2, <3>2 DEF Port!Raise, Port!Next
  <2> QED
    BY <1>8, <2>3, <2>4
<1> QED
  BY <1>3, <1>4, <1>5, <1>6, <1>7, <1>8 DEF Next, Ingest, CallStep

(* Over the chunks, the adapter refines the port every adapter implements. *)
THEOREM KeepsPort == Spec => ImplementsPort
<1>1. Init => Port!Init
  BY DEF Init, Phase, Port!Init
<1>2. IInv /\ [Next]_vars
         => [Port!Next]_<<graph \cap Items, CallSubject, [c \in Calls |-> pre[c] \cap Items],
                          [c \in Calls |-> Phase(c)]>>
  BY StepKeepsPort
<1> QED
  BY <1>1, <1>2, Invariants, PTL DEF Spec, ImplementsPort, Port!Spec
=============================================================================
