--------------------------- MODULE TensorZeroLog ---------------------------
(***************************************************************************)
(* TensorZeroLogAdapter.preview and .erase, statement by statement, against *)
(* ClickHouse: several calls at once (concurrent requests, an operator's   *)
(* retries), the gateway's traffic between any two statements, statements  *)
(* that fail, and mutations that outlive the HTTP client's timeout.  An     *)
(* inference and the provider bodies it leads to are rows of different     *)
(* tables, with no common transaction: each arrives on its own.            *)
(* ModelInference has no tags column: its rows are found only through the  *)
(* inference they belong to.                                               *)
(***************************************************************************)
EXTENDS Naturals, Sequences, FiniteSets

CONSTANTS
    Subjects,
    Rows,             \* rows of the seven tables
    TableOf,
    SubjectOf,        \* whom a row is about (its tag, except in ModelInference)
    InferenceOf,      \* the inference a ModelInference or feedback row is about
    Seed,             \* rows the tables hold to begin with
    TagTables,        \* the tag-scoped tables, in TZ_TAG_SCOPED_TABLES order
    InferenceTables,  \* those whose ids ModelInference refers to
    ModelInference,
    Calls,            \* calls of the adapter
    DryRuns,          \* those in Mode.DRY_RUN, or of preview()
    CallSubject,      \* the subject of each call
    MaxFaults         \* bound on failed and timed-out statements

Tables == {TagTables[i] : i \in DOMAIN TagTables}
Models == {r \in Rows : TableOf[r] = ModelInference}

ASSUME TablesAssumption ==
    /\ TagTables \in Seq(Tables) /\ TagTables # <<>>
    /\ \A i, j \in DOMAIN TagTables : TagTables[i] = TagTables[j] => i = j
    /\ InferenceTables \subseteq Tables
    /\ ModelInference \notin Tables
    /\ TableOf \in [Rows -> Tables \cup {ModelInference}]
    /\ SubjectOf \in [Rows -> Subjects]
    /\ InferenceOf \in [{r \in Rows : TableOf[r] \notin InferenceTables} ->
                        {r \in Rows : TableOf[r] \in InferenceTables}]
    /\ \A m \in Models : SubjectOf[InferenceOf[m]] = SubjectOf[m]
    /\ Seed \subseteq Rows

ASSUME CallsAssumption ==
    /\ DryRuns \subseteq Calls
    /\ CallSubject \in [Calls -> Subjects]
    /\ MaxFaults \in Nat

VARIABLES
    held,      \* rows ClickHouse holds
    written,   \* rows ever written
    inflight,  \* mutations sent that no client waits for any more
    pc,        \* where each call is
    next,      \* how far it is in its counts, then in its deletes
    ids,       \* its frozen inference ids
    counted,   \* the rows its counts include
    removed,   \* the rows its own statements removed
    base,      \* the subject's rows within reach when it resolved the ids
    raced,     \* inferences and bodies that came too late for an erase
    faults

store == <<held, written, inflight, raced>>
local == <<pc, next, ids, counted, removed, base>>
vars  == <<store, local, faults>>

Busy == {"count", "delete"}
PCs  == {"idle", "done", "failed"} \cup Busy

(* WHERE tags['vismaran::subject_id'] = sid, in one table. *)
Tagged(s, t) == {r \in held : TableOf[r] = t /\ SubjectOf[r] = s}

(* WHERE inference_id IN (...), in ModelInference. *)
Cascaded(I) == {m \in held \cap Models : InferenceOf[m] \in I}

(* What the id query cannot lead to. *)
Unresolved == {m \in held \cap Models : InferenceOf[m] \notin held}

(* A raw provider body whose inference is gone: no query will resolve it. *)
Stranded == {m \in Unresolved : InferenceOf[m] \in written}

Reach == held \ Unresolved
OfSubject(s) == {r \in Reach : SubjectOf[r] = s}

Init ==
    /\ held = Seed /\ written = Seed /\ inflight = {} /\ raced = {}
    /\ pc = [c \in Calls |-> "idle"]
    /\ next = [c \in Calls |-> 1]
    /\ ids = [c \in Calls |-> {}]
    /\ counted = [c \in Calls |-> {}]
    /\ removed = [c \in Calls |-> {}]
    /\ base = [c \in Calls |-> {}]
    /\ faults = 0

Fault == faults < MaxFaults /\ faults' = faults + 1
-----------------------------------------------------------------------------
(* The gateway's traffic. *)

UnderErasure(s) == \E c \in Calls \ DryRuns : CallSubject[c] = s /\ pc[c] \in Busy

(* A mutation of the subject's inferences that may yet be carried out. *)
UnderMutation(s) ==
    \E q \in inflight : CallSubject[q.call] = s /\ q.table \in InferenceTables

Overtaken(r) ==
    \/ UnderErasure(SubjectOf[r])
    \/ UnderMutation(SubjectOf[r])
    \/ r \in Models /\ InferenceOf[r] \in written \ held

Arrive(r) ==
    /\ r \notin written
    /\ held' = held \cup {r}
    /\ written' = written \cup {r}
    /\ UNCHANGED <<inflight, local, faults>>

Race(r) == raced' = IF Overtaken(r) THEN raced \cup {r} ELSE raced

Infer(i) == TableOf[i] \in InferenceTables /\ Arrive(i) /\ Race(i)

(* The body of a provider call, before or after the row of its inference. *)
Body(m) == TableOf[m] = ModelInference /\ Arrive(m) /\ Race(m)

(* Feedback on an earlier inference, with a tag of its own. *)
Feedback(f) ==
    /\ TableOf[f] \in Tables \ InferenceTables
    /\ InferenceOf[f] \in written
    /\ Arrive(f)
    /\ UNCHANGED raced
-----------------------------------------------------------------------------
(* A call, one statement at a time: between two statements nothing is awaited. *)

(* Faulty: the tag predicate dropped from the id query. *)
ResolveUntagged(c) ==
    /\ pc[c] = "idle"
    /\ ids' = [ids EXCEPT ![c] = {r \in held : TableOf[r] \in InferenceTables}]
    /\ base' = [base EXCEPT ![c] = OfSubject(CallSubject[c])]
    /\ pc' = [pc EXCEPT ![c] = "count"]
    /\ UNCHANGED <<store, next, counted, removed, faults>>

(* The ids are resolved once, up front. *)
Resolve(c) ==
    /\ pc[c] = "idle"
    /\ ids' = [ids EXCEPT ![c] = UNION {Tagged(CallSubject[c], t) : t \in InferenceTables}]
    /\ base' = [base EXCEPT ![c] = OfSubject(CallSubject[c])]
    /\ pc' = [pc EXCEPT ![c] = "count"]
    /\ UNCHANGED <<store, next, counted, removed, faults>>

(* What a statement of this call about one table matches. *)
Match(c, t) ==
    IF t = ModelInference THEN Cascaded(ids[c]) ELSE Tagged(CallSubject[c], t)

(* A mutation whose client left.  The server takes it up some time later and
   carries it out later still: of the rows that match by then, those that
   were there when it took it up go.                                     *)
Land(q) ==
    /\ q \in inflight
    /\ \E R \in SUBSET Match(q.call, q.table) : held' = held \ R
    /\ inflight' = inflight \ {q}
    /\ UNCHANGED <<written, raced, local, faults>>

(* On to the next statement of a plan, or to what follows it. *)
Proceed(c, plan, then) ==
    LET more == next[c] < Len(plan) IN
    /\ next' = [next EXCEPT ![c] = IF more THEN @ + 1 ELSE 1]
    /\ pc' = [pc EXCEPT ![c] = IF more THEN @ ELSE then]

(* Faulty: ModelInference left out of the counts. *)
CountTagTables == TagTables

CountPlan == Append(TagTables, ModelInference)

(* Faulty: the mode is not looked at, so a dry run goes on to delete. *)
CountInAnyMode(c) ==
    /\ pc[c] = "count"
    /\ counted' = [counted EXCEPT ![c] = @ \cup Match(c, CountPlan[next[c]])]
    /\ Proceed(c, CountPlan, "delete")
    /\ UNCHANGED <<store, ids, removed, base, faults>>

(* A preview ends with the counts. *)
CountRows(c) ==
    /\ pc[c] = "count"
    /\ counted' = [counted EXCEPT ![c] = @ \cup Match(c, CountPlan[next[c]])]
    /\ Proceed(c, CountPlan, IF c \in DryRuns THEN "done" ELSE "delete")
    /\ UNCHANGED <<store, ids, removed, base, faults>>

(* Faulty: the cascade forgotten, or put last. *)
NoCascade(c) == TagTables
CascadeLast(c) == IF ids[c] = {} THEN TagTables ELSE Append(TagTables, ModelInference)

(* ModelInference first, while the tagged rows can still be resolved. *)
DeletePlan(c) == IF ids[c] = {} THEN TagTables ELSE <<ModelInference>> \o TagTables

TargetTable(c) == DeletePlan(c)[next[c]]

Target(c) == Match(c, TargetTable(c))

(* mutations_sync=1: the answer comes when the rows are gone. *)
Mutate(c) ==
    /\ pc[c] = "delete"
    /\ held' = held \ Target(c)
    /\ removed' = [removed EXCEPT ![c] = @ \cup Target(c)]
    /\ Proceed(c, DeletePlan(c), "done")
    /\ UNCHANGED <<written, inflight, raced, ids, counted, base, faults>>

(* A statement is refused or never arrives: _query raises, erase() with it. *)
Fail(c) ==
    /\ pc[c] \in {"idle"} \cup Busy
    /\ Fault
    /\ pc' = [pc EXCEPT ![c] = "failed"]
    /\ UNCHANGED <<store, next, ids, counted, removed, base>>

(* The client gives up on a mutation it has sent. *)
TimeOut(c) ==
    /\ pc[c] = "delete"
    /\ Fault
    /\ inflight' = inflight \cup {[call |-> c, table |-> TargetTable(c)]}
    /\ pc' = [pc EXCEPT ![c] = "failed"]
    /\ UNCHANGED <<held, written, raced, next, ids, counted, removed, base>>
-----------------------------------------------------------------------------
Traffic == \E r \in Rows : Infer(r) \/ Body(r) \/ Feedback(r)

Advance(c) == Resolve(c) \/ CountRows(c) \/ Mutate(c)

Next ==
    \/ Traffic
    \/ \E q \in inflight : Land(q)
    \/ \E c \in Calls : Advance(c) \/ Fail(c) \/ TimeOut(c)

Spec == Init /\ [][Next]_vars
-----------------------------------------------------------------------------
(* Properties. *)

(* Types; the frozen ids are inference ids of the call's subject. *)
TypeOK ==
    /\ held \subseteq written /\ written \subseteq Rows
    /\ inflight \subseteq [call : Calls, table : Tables \cup {ModelInference}]
    /\ pc \in [Calls -> PCs]
    /\ next \in [Calls -> 1..(Len(TagTables) + 1)]
    /\ ids \in [Calls -> SUBSET {r \in written : TableOf[r] \in InferenceTables}]
    /\ \A c \in Calls : \A i \in ids[c] : SubjectOf[i] = CallSubject[c]
    /\ counted \in [Calls -> SUBSET written]
    /\ removed \in [Calls -> SUBSET written]
    /\ base \in [Calls -> SUBSET written]
    /\ raced \subseteq written
    /\ faults \in 0..MaxFaults

(* A call never counts or removes a row about another subject, not even
   through the ModelInference cascade, which has no tag to match.        *)
OwnRowsOnly ==
    \A c \in Calls : \A r \in counted[c] \cup removed[c] : SubjectOf[r] = CallSubject[c]

(* An erase that reports success has removed everything about its subject
   that the seven tables held within reach when it resolved the ids, raw
   provider bodies included, whichever calls and traffic ran beside it or
   failed before it.                                                     *)
DoneMeansGone ==
    \A c \in Calls \ DryRuns : pc[c] = "done" => base[c] \cap held = {}

(* "Forget that join, leak the PII": whatever fails, times out or is carried
   out late, no raw provider body that was there, with its inference, before
   an erase of its subject began is left without it.  What is left without it
   came too late for an erase, itself or its inference: between the id query
   and the end of the erase, while a delete of the subject's inferences the
   erase gave up on was pending, or, a body, after its inference had gone. *)
CameTooLate(m) == m \in raced \/ InferenceOf[m] \in raced

StrandedOnlyByRace == \A m \in Stranded : CameTooLate(m)

(* Of the rows a call took up, it never removes one its counts miss: the
   receipt may overstate but not understate them.                        *)
CountsCoverRemovals == \A c \in Calls : removed[c] \cap base[c] \subseteq counted[c]

(* "Counts reflect what this operation removed" (tensorzero_log.py). *)
CountsAreRemovals ==
    \A c \in Calls \ DryRuns : pc[c] = "done" => counted[c] = removed[c]

(* Liveness: ClickHouse answers a statement or the client gives up, and the
   operator keeps calling.                                               *)
FairSpec == Spec /\ \A c \in Calls : WF_vars(Advance(c))

(* A wholesale retry completes what a failed call left (errors.py): from any
   partial state, and with traffic going on, an erase begun after the failure
   removes what the failed one had taken up, unless it fails as well; but
   for bodies that came too late for an erase in between.                *)
RetryCompletes ==
    \A c, d \in Calls \ DryRuns :
        CallSubject[c] = CallSubject[d] /\ pc[c] = "failed" /\ pc[d] = "idle"
            ~> pc[d] = "failed" \/ \A r \in base[c] \cap held : r \in Models /\ CameTooLate(r)

(* The adapter keeps the port's contract, statement by statement. *)
Phase(c) ==
    CASE pc[c] = "idle"    -> "waiting"
      [] pc[c] \in Busy -> "running"
      [] OTHER              -> pc[c]

Port == INSTANCE StoreAdapter WITH
    reach <- Reach, subject <- CallSubject, phase <- [c \in Calls |-> Phase(c)]

ImplementsPort == Port!Spec
=============================================================================
