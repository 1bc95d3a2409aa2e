---------------------------- MODULE Orchestrator ----------------------------
(***************************************************************************)
(* Orchestrator.erase and Orchestrator.preview as concurrent asyncio       *)
(* operations over the provenance ledger and the memory layers, with the   *)
(* agent's ingest running beside them.  Every await is a step boundary:    *)
(* ledger and layers may change between any two steps of an operation.     *)
(*                                                                         *)
(* A record is one row of one memory layer about one subject; its id is    *)
(* fresh when it is written and never reused.  A write outside any         *)
(* with_subject block is refused, or opts out and is about nobody.         *)
(***************************************************************************)
EXTENDS Naturals, FiniteSets

CONSTANTS
    Subjects,
    Records,
    SubjectOf,   \* the subject each record is about
    Adapters,    \* the registered adapters, one per memory layer
    LayerOf,     \* the layer each record lives in
    Lineage,     \* adapters that delete by the ids of the provenance list
                 \* (pgvector); the others match the subject's tag
    Deferred,    \* layers whose rows appear only at a later cognify() (the
                 \* cognee graph)
    Castless,    \* records of the Lineage layers that may be traced under
                 \* an id their store cannot cast (for pgvector: no UUID)
    Timed,       \* adapters whose client gives up in the end (TensorZero's)
    MaySilence,  \* stores, and perhaps "ledger", that may never answer
    EraseOps,    \* calls of erase()
    PreviewOps,  \* calls of preview()
    Quiesced,    \* TRUE: nobody ingests about a subject being erased
    MaxFaults    \* bound on store faults, lost answers and cancellations

Ops == EraseOps \cup PreviewOps

ASSUME ConstantsAssumption ==
    /\ SubjectOf \in [Records -> Subjects]
    /\ LayerOf \in [Records -> Adapters]
    /\ Adapters # {}
    /\ Lineage \subseteq Adapters
    /\ Deferred \subseteq Adapters \ Lineage
    /\ Timed \subseteq Adapters
    /\ MaySilence \subseteq Adapters \cup {"ledger"}
    /\ \A r \in Castless : r \in Records /\ LayerOf[r] \in Lineage
    /\ EraseOps \cap PreviewOps = {}
    /\ Quiesced \in BOOLEAN
    /\ MaxFaults \in Nat

VARIABLES
    live,     \* rows the layers hold
    pending,  \* rows handed to a Deferred layer, not in it yet
    written,  \* rows ever written (a history: ids are not reused)
    ledger,   \* rows the provenance table traces
    writing,  \* rows whose writer has not seen its provenance row stored
    untraced, \* rows whose writer never stored one (a history)
    malformed,\* those of Castless that are
    silent,   \* those of MaySilence that need not answer
    pc,       \* where each operation is
    subj,     \* its subject
    snap,     \* the provenance list its lookup returned
    present,  \* the subject's rows in the layers when it looked up
    stmt,     \* its statement to each store: "unsent", "queued", "done"
    res,      \* what each adapter's coroutine gave: "waiting", "ok", "failed"
    purged,   \* ledger rows its purge removed
    err,      \* the exception it raised
    faults    \* faults so far

rows  == <<written, writing, untraced>>
given == <<malformed, silent>>
world == <<live, pending, ledger, rows, given>>
call  == <<subj, snap, present>>
ops   == <<pc, call, stmt, res, purged, err>>
vars  == <<world, ops, faults>>

PCs == {"idle", "lookup", "fan_out", "purge", "sign",
        "previewed", "receipt", "error"}
Active == {"lookup", "fan_out", "purge", "sign"}
Errors == {"none", "PartialErasureError", "ConfigurationError", "raised"}

About(s, R) == {r \in R : SubjectOf[r] = s}
In(a, R)    == {r \in R : LayerOf[r] = a}

Init ==
    /\ live = {} /\ pending = {} /\ ledger = {}
    /\ written = {} /\ writing = {} /\ untraced = {}
    /\ malformed \in SUBSET Castless
    /\ silent \in SUBSET MaySilence
    /\ pc = [o \in Ops |-> "idle"]
    /\ subj \in [Ops -> Subjects]
    /\ snap = [o \in Ops |-> {}]
    /\ present = [o \in Ops |-> {}]
    /\ stmt = [o \in Ops |-> [a \in Adapters |-> "unsent"]]
    /\ res = [o \in Ops |-> [a \in Adapters |-> "waiting"]]
    /\ purged = [o \in Ops |-> {}]
    /\ err = [o \in Ops |-> "none"]
    /\ faults = 0

Fault == faults < MaxFaults /\ faults' = faults + 1

Raise(o, e) ==
    /\ pc' = [pc EXCEPT ![o] = "error"]
    /\ err' = [err EXCEPT ![o] = e]
-----------------------------------------------------------------------------
(* Ingest: the row goes to its layer first, its provenance row second. *)

Fresh(r) ==
    /\ r \notin written
    /\ Quiesced => \A o \in EraseOps : subj[o] = SubjectOf[r] => pc[o] \notin Active

Written(r) ==
    /\ written' = written \cup {r}
    /\ writing' = writing \cup {r}
    /\ UNCHANGED <<ledger, untraced, given, ops, faults>>

Insert(r) ==
    /\ LayerOf[r] \notin Deferred
    /\ Fresh(r)
    /\ live' = live \cup {r}
    /\ Written(r)
    /\ UNCHANGED pending

(* cognee_wrap.add: cognee takes the text, the graph has nothing of it yet. *)
Add(r) ==
    /\ LayerOf[r] \in Deferred
    /\ Fresh(r)
    /\ pending' = pending \cup {r}
    /\ Written(r)
    /\ UNCHANGED live

(* Any time later, whether or not its provenance row is there. *)
Cognify(r) ==
    /\ r \in pending
    /\ pending' = pending \ {r}
    /\ live' = live \cup {r}
    /\ UNCHANGED <<ledger, rows, given, ops, faults>>

(* Once per row; should the answer be lost, the writer raises all the same. *)
RecordProvenance(r) ==
    /\ r \in writing
    /\ ledger' = ledger \cup {r}
    /\ writing' = writing \ {r}
    /\ UNCHANGED <<live, pending, written, untraced, given, ops, faults>>

(* record_many: one implicit transaction. *)
RecordMany(R) ==
    /\ R \subseteq writing
    /\ ledger' = ledger \cup R
    /\ writing' = writing \ R
    /\ UNCHANGED <<live, pending, written, untraced, given, ops, faults>>

Untrace(r) ==
    /\ r \in writing
    /\ writing' = writing \ {r}
    /\ untraced' = untraced \cup {r}
    /\ UNCHANGED <<live, pending, ledger, written, given, ops>>

(* add() without a provenance store records nothing. *)
LeaveUntraced(r) ==
    /\ LayerOf[r] \notin Lineage
    /\ Untrace(r)
    /\ UNCHANGED faults

(* The process dies, or record() raises without effect, behind the row. *)
WriterDies(r) == Untrace(r) /\ Fault
-----------------------------------------------------------------------------
(* An operation up to the fan-out.  Quiesced, an erase starts when all of
   its subject's writes are traced, or never will be, and materialised.  *)

(* Faulty: a mark "in progress" that a failed attempt never clears. *)
StartOnce(o) ==
    /\ pc[o] = "idle"
    /\ \A p \in Ops \ {o} : subj[p] = subj[o] => pc[p] = "idle"
    /\ pc' = [pc EXCEPT ![o] = "lookup"]
    /\ UNCHANGED <<world, call, stmt, res, purged, err, faults>>

Start(o) ==
    /\ pc[o] = "idle"
    /\ Quiesced /\ o \in EraseOps => About(subj[o], writing \cup pending) = {}
    /\ pc' = [pc EXCEPT ![o] = "lookup"]
    /\ UNCHANGED <<world, call, stmt, res, purged, err, faults>>

Lookup(o) ==
    /\ pc[o] = "lookup"
    /\ snap' = [snap EXCEPT ![o] = About(subj[o], ledger)]
    /\ present' = [present EXCEPT ![o] = About(subj[o], live)]
    /\ pc' = [pc EXCEPT ![o] = "fan_out"]
    /\ stmt' = [stmt EXCEPT ![o] = [a \in Adapters |-> "queued"]]
    /\ UNCHANGED <<world, subj, res, purged, err, faults>>

LookupFails(o) ==
    /\ pc[o] = "lookup"
    /\ Fault
    /\ Raise(o, "raised")
    /\ UNCHANGED <<world, call, stmt, res, purged>>
-----------------------------------------------------------------------------
(* The adapters, in parallel.  A statement reaches its store even when the
   operation that sent it has stopped waiting.                            *)

Target(o, a) ==
    In(a, About(subj[o], IF a \in Lineage THEN snap[o] ELSE present[o]))

(* An id that cannot be cast fails the whole statement, before its effect. *)
Poisoned(o, a) == a \in Lineage /\ Target(o, a) \cap malformed # {}

(* Rows that arrived after the lookup: a tag-scoped statement may meet them. *)
Arrived(o, a) ==
    IF a \in Lineage THEN {} ELSE In(a, About(subj[o], live \ present[o]))

(* Faulty: Mode.DRY_RUN goes unnoticed. *)
ApplyInAnyMode(o, a) ==
    /\ stmt[o][a] = "queued"
    /\ ~Poisoned(o, a)
    /\ live' = live \ Target(o, a)
    /\ stmt' = [stmt EXCEPT ![o][a] = "done"]
    /\ UNCHANGED <<pending, ledger, rows, given, pc, call, res, purged, err,
                   faults>>

Apply(o, a) ==
    /\ o \in EraseOps
    /\ stmt[o][a] = "queued"
    /\ ~Poisoned(o, a)
    /\ \E late \in SUBSET Arrived(o, a) : live' = live \ (Target(o, a) \cup late)
    /\ stmt' = [stmt EXCEPT ![o][a] = "done"]
    /\ UNCHANGED <<pending, ledger, rows, given, pc, call, res, purged, err,
                   faults>>

(* A tag-scoped adapter issues several statements: some may have run. *)
ApplyPart(o, a) ==
    /\ o \in EraseOps
    /\ a \notin Lineage
    /\ stmt[o][a] = "queued"
    /\ \E part \in SUBSET In(a, About(subj[o], live)) : live' = live \ part
    /\ UNCHANGED <<pending, ledger, rows, given, ops, faults>>

(* A preview's statement only counts. *)
Count(o, a) ==
    /\ o \in PreviewOps
    /\ stmt[o][a] = "queued"
    /\ ~Poisoned(o, a)
    /\ stmt' = [stmt EXCEPT ![o][a] = "done"]
    /\ UNCHANGED <<world, pc, call, res, purged, err, faults>>

Awaited(o, a) == pc[o] = "fan_out" /\ res[o][a] = "waiting"

(* Faulty: the answer does not wait for the statement's effect. *)
ConfirmQueued(o, a) ==
    /\ Awaited(o, a)
    /\ stmt[o][a] # "unsent"
    /\ res' = [res EXCEPT ![o][a] = "ok"]
    /\ UNCHANGED <<world, pc, call, stmt, purged, err, faults>>

Confirm(o, a) ==
    /\ Awaited(o, a)
    /\ stmt[o][a] = "done"
    /\ res' = [res EXCEPT ![o][a] = "ok"]
    /\ UNCHANGED <<world, pc, call, stmt, purged, err, faults>>

(* Faulty: _erase_one swallows the exception and reports success. *)
FailAsSuccess(o, a) ==
    /\ Awaited(o, a)
    /\ Fault
    /\ res' = [res EXCEPT ![o][a] = "ok"]
    /\ UNCHANGED <<world, pc, call, stmt, purged, err>>

(* The adapter raises: rejected, unreachable, or the answer was lost, in
   which case the statement has run or may still run.                    *)
Fail(o, a) ==
    /\ Awaited(o, a)
    /\ Fault
    /\ res' = [res EXCEPT ![o][a] = "failed"]
    /\ UNCHANGED <<world, pc, call, stmt, purged, err>>

(* The client's timeout, where it has one: the statement may still run. *)
TimesOut(o, a) ==
    /\ a \in Timed \cap silent
    /\ Awaited(o, a)
    /\ res' = [res EXCEPT ![o][a] = "failed"]
    /\ UNCHANGED <<world, pc, call, stmt, purged, err, faults>>

Reject(o, a) ==
    /\ Awaited(o, a)
    /\ Poisoned(o, a)
    /\ res' = [res EXCEPT ![o][a] = "failed"]
    /\ UNCHANGED <<world, pc, call, stmt, purged, err, faults>>
-----------------------------------------------------------------------------
(* The operation after gather(). *)

(* Faulty: the gather is complete only when no adapter failed. *)
GatheredOk(o) == pc[o] = "fan_out" /\ \A a \in Adapters : res[o][a] = "ok"

Gathered(o) == pc[o] = "fan_out" /\ \A a \in Adapters : res[o][a] # "waiting"
(* Faulty: one confirmation is enough. *)
AnyConfirmed(o) == \E a \in Adapters : res[o][a] = "ok"

AllConfirmed(o) == \A a \in Adapters : res[o][a] = "ok"

RaisePartial(o) ==
    /\ o \in EraseOps
    /\ Gathered(o)
    /\ ~AllConfirmed(o)
    /\ Raise(o, "PartialErasureError")
    /\ UNCHANGED <<world, call, stmt, res, purged, faults>>

(* Faulty: the purge does not wait for a clean fan-out, or is skipped. *)
BeginPurgeAnyway(o) ==
    /\ o \in EraseOps
    /\ Gathered(o)
    /\ pc' = [pc EXCEPT ![o] = "purge"]
    /\ UNCHANGED <<world, call, stmt, res, purged, err, faults>>

SkipPurge(o) ==
    /\ o \in EraseOps
    /\ Gathered(o)
    /\ AllConfirmed(o)
    /\ pc' = [pc EXCEPT ![o] = "sign"]
    /\ UNCHANGED <<world, call, stmt, res, purged, err, faults>>

BeginPurge(o) ==
    /\ o \in EraseOps
    /\ Gathered(o)
    /\ AllConfirmed(o)
    /\ pc' = [pc EXCEPT ![o] = "purge"]
    /\ UNCHANGED <<world, call, stmt, res, purged, err, faults>>

(* A preview reports every adapter, the failed ones included. *)
ReturnPreview(o) ==
    /\ o \in PreviewOps
    /\ Gathered(o)
    /\ pc' = [pc EXCEPT ![o] = "previewed"]
    /\ UNCHANGED <<world, call, stmt, res, purged, err, faults>>

(* Faulty: rows_purged is the length of the list looked up earlier. *)
PurgeCountingSnapshot(o) ==
    /\ ledger' = ledger \ About(subj[o], ledger)
    /\ purged' = [purged EXCEPT ![o] = snap[o]]

PurgeLedger(o) ==
    /\ ledger' = ledger \ About(subj[o], ledger)
    /\ purged' = [purged EXCEPT ![o] = About(subj[o], ledger)]

Purge(o) ==
    /\ pc[o] = "purge"
    /\ PurgeLedger(o)
    /\ pc' = [pc EXCEPT ![o] = "sign"]
    /\ UNCHANGED <<live, pending, rows, given, call, stmt, res, err, faults>>

(* purge() raises; the DELETE may have committed all the same. *)
PurgeFails(o) ==
    /\ pc[o] = "purge"
    /\ Fault
    /\ Raise(o, "raised")
    /\ PurgeLedger(o) \/ UNCHANGED <<ledger, purged>>
    /\ UNCHANGED <<live, pending, rows, given, call, stmt, res>>

Sign(o) ==
    /\ pc[o] = "sign"
    /\ pc' = [pc EXCEPT ![o] = "receipt"]
    /\ UNCHANGED <<world, call, stmt, res, purged, err, faults>>

(* No key path or no readable file (ConfigurationError), or no key in it. *)
SignFails(o) ==
    /\ pc[o] = "sign"
    /\ Fault
    /\ \E e \in {"ConfigurationError", "raised"} : Raise(o, e)
    /\ UNCHANGED <<world, call, stmt, res, purged>>

(* Cancelled at an await, or the process dies. *)
Cancel(o) ==
    /\ pc[o] \in Active
    /\ Fault
    /\ Raise(o, "raised")
    /\ UNCHANGED <<world, call, stmt, res, purged>>
-----------------------------------------------------------------------------
Ingest ==
    \/ \E r \in Records : Insert(r) \/ Add(r) \/ Cognify(r)
    \/ \E r \in Records : RecordProvenance(r) \/ LeaveUntraced(r) \/ WriterDies(r)
    \/ \E R \in SUBSET Records : RecordMany(R)

StoreAnswers(o, a) == Apply(o, a) \/ Count(o, a)

AdapterStep(o, a) ==
    \/ StoreAnswers(o, a) \/ ApplyPart(o, a)
    \/ Confirm(o, a) \/ Fail(o, a) \/ TimesOut(o, a) \/ Reject(o, a)

OpStep(o) ==
    \/ Start(o) \/ Lookup(o) \/ LookupFails(o)
    \/ RaisePartial(o) \/ BeginPurge(o) \/ ReturnPreview(o)
    \/ Purge(o) \/ PurgeFails(o) \/ Sign(o) \/ SignFails(o) \/ Cancel(o)

Next ==
    \/ Ingest
    \/ \E o \in Ops : OpStep(o)
    \/ \E o \in Ops, a \in Adapters : AdapterStep(o, a)

Spec == Init /\ [][Next]_vars
-----------------------------------------------------------------------------
(* Properties. *)

Types ==
    /\ written \subseteq Records
    /\ live \subseteq written /\ pending \subseteq written \ live
    /\ \A r \in pending : LayerOf[r] \in Deferred
    /\ ledger \subseteq written /\ writing \subseteq written
    /\ untraced \subseteq written
    /\ malformed \subseteq Castless /\ silent \subseteq MaySilence
    /\ pc \in [Ops -> PCs]
    /\ subj \in [Ops -> Subjects]
    /\ snap \in [Ops -> SUBSET written]
    /\ present \in [Ops -> SUBSET written]
    /\ stmt \in [Ops -> [Adapters -> {"unsent", "queued", "done"}]]
    /\ res \in [Ops -> [Adapters -> {"waiting", "ok", "failed"}]]
    /\ purged \in [Ops -> SUBSET written]
    /\ err \in [Ops -> Errors]
    /\ faults \in 0..MaxFaults

Outcomes ==
    \A o \in Ops :
       /\ err[o] = "none" <=> pc[o] # "error"
       /\ pc[o] \in {"idle", "lookup"} =>
             \A a \in Adapters : stmt[o][a] = "unsent" /\ res[o][a] = "waiting"
       /\ pc[o] \in {"purge", "sign", "receipt"} \/ err[o] = "ConfigurationError" =>
             o \in EraseOps /\ \A a \in Adapters : res[o][a] = "ok"
       /\ pc[o] = "previewed" \/ err[o] = "PartialErasureError" =>
             \A a \in Adapters : res[o][a] # "waiting"
       /\ err[o] = "PartialErasureError" =>
             o \in EraseOps /\ \E a \in Adapters : res[o][a] = "failed"
       /\ purged[o] # {} => pc[o] \in {"sign", "receipt", "error"}

(* Every variable keeps its type, and what a caller is told comes only from
   the results that warrant it: a purge, a receipt and a signing error only
   after every adapter confirmed, a PartialErasureError only once all have
   answered and one of them failed, a preview only once all have answered. *)
TypeOK == Types /\ Outcomes

(* What a receipt attests (SPEC.md, threat model): nothing the provenance
   index traced to the subject when the erasure resolved it is left in a
   layer or in the index, whatever runs beside it and however late the
   statements of other operations land.                                  *)
ReceiptAttests ==
    \A o \in EraseOps : pc[o] = "receipt" => snap[o] \cap (live \cup ledger) = {}

(* The same of the layers alone, also while the agent keeps ingesting about
   the subject: what was traced when the erasure began is gone, but for
   texts the graph did not hold yet, which a later cognify() may add.    *)
ReceiptClearsStores ==
    \A o \in EraseOps : pc[o] = "receipt" =>
       \A r \in snap[o] \cap live : LayerOf[r] \in Deferred /\ r \notin present[o]

(* A row of a lineage layer can be found again through the ledger for as
   long as it exists: no failure, cancellation, lost answer or concurrent
   erasure leaves an embedding that nothing traces.  The one way to lose
   its trace is a writer that dies, or whose record() raises, between its
   two writes.                                                           *)
NoOrphan ==
    \A r \in live : LayerOf[r] \in Lineage => r \in ledger \cup writing \cup untraced

(* The purge forgets only rows that are gone: it runs after every adapter
   confirmed (orchestrator.py, point 4), so no row it drops from the index
   is still held by a layer.                                             *)
PurgeForgetsOnlyErased == [][live \cap (ledger \ ledger') = {}]_vars

(* rows_purged of two operations never counts the same ledger row twice,
   though both may have looked it up.                                    *)
RowsPurgedOnce ==
    \A o, p \in EraseOps : o # p => purged[o] \cap purged[p] = {}

(* The operations implement the abstract promise of an erasure. *)
Verdict(o) ==
    CASE pc[o] = "receipt" -> "receipt"
      [] pc[o] = "error"   -> "refused"
      [] OTHER             -> "pending"

Contract == INSTANCE ErasureContract WITH
    held <- live, traced <- ledger,
    scope <- [o \in EraseOps |-> snap[o]],
    verdict <- [o \in EraseOps |-> Verdict(o)]

ImplementsContract == Contract!Spec

(* What the orchestrator expects of a layer's adapter, and what it hands it,
   stay within the port: an adapter is taken up with the rows the lookup
   found, its "ok" stands for their removal, and statements that land late
   remove only what failed calls were for.                               *)
Phase(o, a) ==
    CASE res[o][a] = "ok"                                   -> "done"
      [] res[o][a] = "failed" \/ (res[o][a] = "waiting" /\ pc[o] = "error") -> "failed"
      [] res[o][a] = "waiting" /\ pc[o] \in {"idle", "lookup"} -> "waiting"
      [] OTHER                                              -> "running"

Layer(a) == INSTANCE StoreAdapter WITH
    Rows <- In(a, Records), Calls <- Ops, DryRuns <- PreviewOps,
    held <- In(a, live),
    reach <- In(a, IF a \in Lineage THEN ledger ELSE live),
    subject <- subj,
    base <- [o \in Ops |-> In(a, IF a \in Lineage THEN snap[o] ELSE present[o])],
    phase <- [o \in Ops |-> Phase(o, a)]

LayersKeepPort ==
    /\ \A a \in Adapters : Layer(a)!Init
    /\ [][\A a \in Adapters : Layer(a)!Next \/ Layer(a)!Idle]_vars
-----------------------------------------------------------------------------
(* Liveness.  The event loop runs a ready coroutine; a store that is not
   silent answers a statement; a client with a timeout gives up on one that
   is; a writer finishes; and the operator calls erase() again while the
   subject has no receipt.                                               *)

Receipted(s) == \E o \in EraseOps : subj[o] = s /\ pc[o] = "receipt"
Requested(s) == \E o \in EraseOps : subj[o] = s /\ pc[o] # "idle"

Retry(s) ==
    /\ Requested(s) /\ ~Receipted(s)
    /\ \A o \in EraseOps : subj[o] = s => pc[o] \notin Active
    /\ \E o \in EraseOps : subj[o] = s /\ Start(o)

Fairness ==
    /\ \A r \in Records : WF_vars("ledger" \notin silent /\ RecordProvenance(r))
    /\ \A o \in Ops :
          /\ WF_vars("ledger" \notin silent /\ Lookup(o))
          /\ WF_vars("ledger" \notin silent /\ Purge(o))
          /\ WF_vars(RaisePartial(o) \/ BeginPurge(o) \/ ReturnPreview(o) \/ Sign(o))
          /\ \A a \in Adapters :
                /\ WF_vars(a \notin silent /\ Awaited(o, a) /\ StoreAnswers(o, a))
                /\ WF_vars(a \notin silent /\ (Confirm(o, a) \/ Reject(o, a)))
                /\ WF_vars(TimesOut(o, a))
    /\ \A s \in Subjects : WF_vars(Retry(s))

FairSpec == Spec /\ Fairness

Hangs(o) ==
    \/ pc[o] \in {"lookup", "purge"} /\ "ledger" \in silent
    \/ /\ \E a \in Adapters : Awaited(o, a)
       /\ \A a \in Adapters : Awaited(o, a) => a \in silent \ Timed

(* Every call returns or raises, whatever the others do: no failure, timeout
   or late statement keeps the fan-out from being collected.  A call that
   never ends is one that waits for good for a silent store whose client
   sets no timeout, and for nothing else.                                *)
EveryCallEnds ==
    \A o \in Ops : <>[](pc[o] \in Active) => <>[]Hangs(o)

(* With an operator who retries (SPEC.md, failure semantics), stores that
   answer and faults that stop, a requested erasure ends with a receipt: no
   partial failure leaves the system where a wholesale retry cannot finish.
   What no retry gets past is a traced id the store cannot cast.         *)
Blocked(s) == \E o \in EraseOps : subj[o] = s /\ snap[o] \cap malformed # {}

RequestHonoured ==
    \A s \in Subjects :
        silent = {} /\ Requested(s) ~> Receipted(s) \/ Blocked(s)
=============================================================================
