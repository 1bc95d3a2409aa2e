---------------------------- MODULE CogneeGraph ----------------------------
(***************************************************************************)
(* The graph layer: cognee_wrap.add and cognify on the way in, and         *)
(* CogneeGraphAdapter on the way out.  Cognee keeps an added item until    *)
(* cognify materializes it: a chunk of its own, and an entity node per name *)
(* it mentions, which items of any subject share (the entity id is a hash  *)
(* of the name).  Each node carries the NodeSet tags of its items.         *)
(***************************************************************************)
EXTENDS Naturals, FiniteSets, FiniteSetsExt

CONSTANTS
    Subjects,
    Items,        \* texts given to add(); an item also names its chunk node
    ItemSubject,  \* the subject bound when the item is added
    Entities,
    Mentions,     \* the entities cognify extracts from an item
    Untagged,     \* items added outside with_subject, with fail_loud=False
    Calls,        \* calls of the adapter
    CallSubject,
    DryRuns,      \* those in Mode.DRY_RUN, or of preview()
    MaxFaults     \* bound on failed calls

Nodes == Items \cup Entities

ASSUME GraphAssumption ==
    /\ ItemSubject \in [Items -> Subjects]
    /\ Mentions \in [Items -> SUBSET Entities]
    /\ \A i \in Items : IsFiniteSet(Mentions[i])
    /\ Items \cap Entities = {}
    /\ Untagged \subseteq Items
    /\ IsFiniteSet(Calls)
    /\ CallSubject \in [Calls -> Subjects]
    /\ DryRuns \subseteq Calls
    /\ MaxFaults \in Nat

VARIABLES
    added,     \* items Cognee has taken in
    cognified, \* those it has materialized
    graph,     \* nodes in Neo4j
    tags,      \* belongs_to_set of each node, as subjects
    edges,     \* <<chunk, entity>> relationships
    created,   \* nodes ever created (a node that comes back counts again)
    pc,        \* where each call is
    pre,       \* its count by class, before it deletes: the nodes it saw
    nodesDel,  \* nodes_deleted of its ResultSummary
    edgesDel,  \* relationships_deleted
    dealt,     \* the items materialized when its delete ran
    lost,      \* nodes deleted by calls that raised all the same
    faults

data  == <<added, cognified, graph, tags, edges, created>>
calls == <<pc, pre, nodesDel, edgesDel, dealt>>
vars  == <<data, calls, lost, faults>>

Init ==
    /\ added = {} /\ cognified = {}
    /\ graph = {} /\ edges = {} /\ created = 0
    /\ tags = [n \in Nodes |-> {}]
    /\ pc = [c \in Calls |-> "idle"]
    /\ pre = [c \in Calls |-> {}]
    /\ nodesDel = [c \in Calls |-> 0]
    /\ edgesDel = [c \in Calls |-> 0]
    /\ dealt = [c \in Calls |-> {}]
    /\ lost = 0
    /\ faults = 0

Fault == faults < MaxFaults /\ faults' = faults + 1

-----------------------------------------------------------------------------
(* Ingest.  add() without a subject raises unless fail_loud is off. *)

Add(i) ==
    /\ i \notin added
    /\ added' = added \cup {i}
    /\ UNCHANGED <<cognified, graph, tags, edges, created, calls, lost, faults>>

TagsOf(i) == IF i \in Untagged THEN {} ELSE {ItemSubject[i]}

(* Faulty: the entity nodes go untagged. *)
CognifyChunkTagOnly(i) ==
    LET new == {i} \cup Mentions[i] IN
    /\ i \in added \ cognified
    /\ cognified' = cognified \cup {i}
    /\ graph' = graph \cup new
    /\ tags' = [tags EXCEPT ![i] = @ \cup TagsOf(i)]
    /\ edges' = edges \cup {<<i, e>> : e \in Mentions[i]}
    /\ created' = created + Cardinality(new \ graph)
    /\ UNCHANGED <<added, calls, lost, faults>>

(* Cognee: the item's nodes are merged into the graph, tags united. *)
Cognify(i) ==
    LET new == {i} \cup Mentions[i] IN
    /\ i \in added \ cognified
    /\ cognified' = cognified \cup {i}
    /\ graph' = graph \cup new
    /\ tags' = [n \in Nodes |-> IF n \in new THEN tags[n] \cup TagsOf(i) ELSE tags[n]]
    /\ edges' = edges \cup {<<i, e>> : e \in Mentions[i]}
    /\ created' = created + Cardinality(new \ graph)
    /\ UNCHANGED <<added, calls, lost, faults>>
-----------------------------------------------------------------------------
(* The adapter. *)

(* MATCH (n:__Node__) WHERE $tag IN coalesce(n.belongs_to_set, []). *)
Tagged(s) == {n \in graph : s \in tags[n]}

OfSubject(s) == {i \in Items \ Untagged : ItemSubject[i] = s}

(* Faulty: the mode is not looked at, so a dry run goes on to delete. *)
CountInAnyMode(c) ==
    /\ pc[c] = "idle"
    /\ pre' = [pre EXCEPT ![c] = Tagged(CallSubject[c])]
    /\ pc' = [pc EXCEPT ![c] = "delete"]
    /\ UNCHANGED <<data, nodesDel, edgesDel, dealt, lost, faults>>

(* A preview ends with the counts. *)
CountByClass(c) ==
    /\ pc[c] = "idle"
    /\ pre' = [pre EXCEPT ![c] = Tagged(CallSubject[c])]
    /\ pc' = [pc EXCEPT ![c] = IF c \in DryRuns THEN "done" ELSE "delete"]
    /\ UNCHANGED <<data, nodesDel, edgesDel, dealt, lost, faults>>

Touching(N) == {e \in edges : e[1] \in N \/ e[2] \in N}

(* Faulty: DELETE without DETACH. *)
DetachNodesOnly(N) ==
    /\ graph' = graph \ N
    /\ tags' = [n \in Nodes |-> IF n \in N THEN {} ELSE tags[n]]
    /\ UNCHANGED <<added, cognified, edges, created>>

(* DETACH DELETE: the nodes and every relationship at them. *)
Detach(N) ==
    /\ graph' = graph \ N
    /\ tags' = [n \in Nodes |-> IF n \in N THEN {} ELSE tags[n]]
    /\ edges' = edges \ Touching(N)
    /\ UNCHANGED <<added, cognified, created>>

(* Faulty: the receipt's total taken from the count made before. *)
DeleteReportingPre(c) ==
    LET N == Tagged(CallSubject[c]) IN
    /\ pc[c] = "delete"
    /\ Detach(N)
    /\ nodesDel' = [nodesDel EXCEPT ![c] = Cardinality(pre[c])]
    /\ edgesDel' = [edgesDel EXCEPT ![c] = Cardinality(Touching(N))]
    /\ dealt' = [dealt EXCEPT ![c] = cognified]
    /\ pc' = [pc EXCEPT ![c] = "done"]
    /\ UNCHANGED <<pre, lost, faults>>

(* Faulty: only the nodes counted before are deleted. *)
DeleteCounted(c) ==
    /\ pc[c] = "delete"
    /\ Detach(pre[c])
    /\ nodesDel' = [nodesDel EXCEPT ![c] = Cardinality(pre[c] \cap graph)]
    /\ edgesDel' = [edgesDel EXCEPT ![c] = Cardinality(Touching(pre[c]))]
    /\ dealt' = [dealt EXCEPT ![c] = cognified]
    /\ pc' = [pc EXCEPT ![c] = "done"]
    /\ UNCHANGED <<pre, lost, faults>>

DeleteByNodeSet(c) ==
    LET N == Tagged(CallSubject[c]) IN
    /\ pc[c] = "delete"
    /\ Detach(N)
    /\ nodesDel' = [nodesDel EXCEPT ![c] = Cardinality(N)]
    /\ edgesDel' = [edgesDel EXCEPT ![c] = Cardinality(Touching(N))]
    /\ dealt' = [dealt EXCEPT ![c] = cognified]
    /\ pc' = [pc EXCEPT ![c] = "done"]
    /\ UNCHANGED <<pre, lost, faults>>

(* The session raises; the autocommitted delete may have run. *)
Fail(c) ==
    /\ pc[c] \in {"idle", "delete"}
    /\ Fault
    /\ pc' = [pc EXCEPT ![c] = "failed"]
    /\ UNCHANGED <<data, pre, nodesDel, edgesDel, dealt, lost>>

LoseAnswer(c) ==
    LET N == Tagged(CallSubject[c]) IN
    /\ pc[c] = "delete"
    /\ Fault
    /\ Detach(N)
    /\ lost' = lost + Cardinality(N)
    /\ pc' = [pc EXCEPT ![c] = "failed"]
    /\ UNCHANGED <<pre, nodesDel, edgesDel, dealt>>
-----------------------------------------------------------------------------
Ingest == \E i \in Items : Add(i) \/ Cognify(i)

CallStep(c) ==
    CountByClass(c) \/ DeleteByNodeSet(c) \/ Fail(c) \/ LoseAnswer(c)

Next == Ingest \/ \E c \in Calls : CallStep(c)

Spec == Init /\ [][Next]_vars
-----------------------------------------------------------------------------
(* Properties. *)

(* Types; a node out of the graph has no tags, and no relationship is left
   hanging at a node that was deleted.                                   *)
TypeOK ==
    /\ cognified \subseteq added /\ added \subseteq Items
    /\ graph \subseteq Nodes
    /\ tags \in [Nodes -> SUBSET Subjects]
    /\ \A n \in Nodes \ graph : tags[n] = {}
    /\ \A e \in edges : e[1] \in graph \cap Items /\ e[2] \in graph \cap Entities
    /\ pc \in [Calls -> {"idle", "delete", "done", "failed"}]
    /\ pre \in [Calls -> SUBSET Nodes]
    /\ nodesDel \in [Calls -> Nat] /\ edgesDel \in [Calls -> Nat]
    /\ dealt \in [Calls -> SUBSET Items]
    /\ created \in Nat /\ lost \in Nat /\ faults \in 0..MaxFaults

(* A successful erase leaves nothing in the graph that was materialized for
   its subject before: whatever carries the subject's tag afterwards, entity
   nodes that come back included, was put there by a text cognified later
   (possibly one added before, which a receipt does not exclude).        *)
DoneMeansForgotten ==
    \A c \in Calls \ DryRuns : pc[c] = "done" =>
       \A n \in Tagged(CallSubject[c]) :
          \E i \in (cognified \cap OfSubject(CallSubject[c])) \ dealt[c] :
             n = i \/ n \in Mentions[i]

(* The subject's text is never out of reach of the tag: the chunk of a
   tagged item carries it, and so does every entity of a chunk that is
   still there.                                                          *)
TextIsReachable ==
    \A i \in graph \cap Items : \A n \in {i} \cup {e[2] : e \in Touching({i})} :
       TagsOf(i) \subseteq tags[n]

(* The receipts' node counts add up: concurrent and repeated erasures never
   claim more deletions than there were nodes to delete.                 *)
DeletionsAddUp == created = Cardinality(graph) + lost + MapThenSumSet(LAMBDA c : nodesDel[c], Calls)

(* Deletion is for what is the subject's only (SPEC.md): no node tagged for
   somebody else as well is deleted with it.                             *)
OnlyOwnNodesDeleted ==
    [][\A n \in graph \ graph' : Cardinality(tags[n]) <= 1]_vars

(* The adapter keeps the port's contract over the chunks, which hold the
   texts: the tag reaches those that were added under with_subject.      *)
Phase(c) ==
    CASE pc[c] = "idle"   -> "waiting"
      [] pc[c] = "delete" -> "running"
      [] OTHER            -> pc[c]

Port == INSTANCE StoreAdapter WITH
    Rows <- Items, SubjectOf <- ItemSubject,
    held <- graph \cap Items,
    reach <- UNION {Tagged(s) \cap Items : s \in Subjects},
    subject <- CallSubject,
    base <- [c \in Calls |-> pre[c] \cap Items],
    phase <- [c \in Calls |-> Phase(c)]

ImplementsPort == Port!Spec
=================================================================
