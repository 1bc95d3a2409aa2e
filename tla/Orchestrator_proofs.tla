------------------------ MODULE Orchestrator_proofs ------------------------
(***************************************************************************)
(* Proofs about Orchestrator, for every set of subjects, records, adapters *)
(* and operations and every bound on the faults.                           *)
(*                                                                         *)
(* The argument: a statement that ran has removed its target (Erasing), an *)
(* adapter's "ok" follows its statement (Protocol), an operation reaches   *)
(* its purge only when every adapter said "ok" (Outcomes), and while       *)
(* nobody ingests about the subject the ledger never grows past what the   *)
(* operation looked up (Tracing).                                          *)
(***************************************************************************)
EXTENDS Orchestrator, TLAPS

(* Ingest runs beside the operations and touches none. *)
LEMMA IngestKeepsOps == Ingest => UNCHANGED ops
BY DEF Ingest, Insert, Add, Cognify, Written, RecordProvenance, RecordMany,
       LeaveUntraced, WriterDies, Untrace, ops

(* The variables have their types, and what callers are told its grounds
   (TypeOK), in every reachable state.                                   *)
THEOREM TypeCorrect == Spec => []TypeOK
<1> USE ConstantsAssumption DEF Ops
<1>1. Init => TypeOK
  BY DEF Init, TypeOK, Types, Outcomes, PCs, Errors
<1>2. Types /\ [Next]_vars => Types'
  <2> SUFFICES ASSUME Types, [Next]_vars PROVE Types'
    OBVIOUS
  <2> USE DEF Types, PCs, Errors, vars, world, rows, given, ops, call
  <2>1. CASE UNCHANGED vars
    BY <2>1 DEF vars
  <2>2. ASSUME NEW r \in Records, Insert(r) PROVE Types'
    BY <2>2 DEF Insert, Fresh, Written
  <2>3. ASSUME NEW r \in Records, Add(r) PROVE Types'
    BY <2>3 DEF Add, Fresh, Written
  <2>4. ASSUME NEW r \in Records, Cognify(r) PROVE Types'
    BY <2>4 DEF Cognify
  <2>5. ASSUME NEW r \in Records, RecordProvenance(r) PROVE Types'
    BY <2>5 DEF RecordProvenance
  <2>6. ASSUME NEW r \in Records, LeaveUntraced(r) PROVE Types'
    BY <2>6 DEF LeaveUntraced, Untrace
  <2>7. ASSUME NEW r \in Records, WriterDies(r) PROVE Types'
    BY <2>7 DEF WriterDies, Untrace, Fault
  <2>8. ASSUME NEW R \in SUBSET Records, RecordMany(R) PROVE Types'
    BY <2>8 DEF RecordMany
  <2>9. ASSUME NEW o \in Ops, OpStep(o) PROVE Types'
    <3>1. CASE Start(o)
      BY <3>1 DEF Start
    <3>2. CASE Lookup(o)
      BY <3>2 DEF Lookup, About
    <3>3. CASE LookupFails(o)
      BY <3>3 DEF LookupFails, Raise, Fault
    <3>4. CASE RaisePartial(o)
      BY <3>4 DEF RaisePartial, Raise
    <3>5. CASE BeginPurge(o)
      BY <3>5 DEF BeginPurge
    <3>6. CASE ReturnPreview(o)
      BY <3>6 DEF ReturnPreview
    <3>7. CASE Purge(o)
      BY <3>7 DEF Purge, PurgeLedger, About
    <3>8. CASE PurgeFails(o)
      BY <3>8 DEF PurgeFails, PurgeLedger, Raise, Fault, About
    <3>9. CASE Sign(o)
      BY <3>9 DEF Sign
    <3>10. CASE SignFails(o)
      BY <3>10 DEF SignFails, Raise, Fault
    <3>11. CASE Cancel(o)
      BY <3>11 DEF Cancel, Raise, Fault
    <3> QED
      BY <2>9, <3>1, <3>2, <3>3, <3>4, <3>5, <3>6, <3>7, <3>8, <3>9, <3>10, <3>11
         DEF OpStep
  <2>10. ASSUME NEW o \in Ops, NEW a \in Adapters, AdapterStep(o, a) PROVE Types'
    <3>1. CASE Apply(o, a)
      BY <3>1 DEF Apply, Target, Arrived
    <3>2. CASE ApplyPart(o, a)
      BY <3>2 DEF ApplyPart
    <3>3. CASE Count(o, a)
      BY <3>3 DEF Count
    <3>4. CASE Confirm(o, a)
      BY <3>4 DEF Confirm, Awaited
    <3>5. CASE Fail(o, a)
      BY <3>5 DEF Fail, Awaited, Fault
    <3>6. CASE TimesOut(o, a)
      BY <3>6 DEF TimesOut, Awaited
    <3>7. CASE Reject(o, a)
      BY <3>7 DEF Reject, Awaited
    <3> QED
      BY <2>10, <3>1, <3>2, <3>3, <3>4, <3>5, <3>6, <3>7
         DEF AdapterStep, StoreAnswers
  <2> QED
    BY <2>1, <2>2, <2>3, <2>4, <2>5, <2>6, <2>7, <2>8, <2>9, <2>10
       DEF Next, Ingest
<1>3. Types /\ Outcomes /\ [Next]_vars => Outcomes'
  <2> SUFFICES ASSUME Types, Outcomes, [Next]_vars PROVE Outcomes'
    OBVIOUS
  <2> USE DEF Types, Outcomes, vars, world, rows, given, ops, call
  <2>1. CASE UNCHANGED ops
    BY <2>1
  <2>2. CASE Ingest
    BY <2>1, <2>2, IngestKeepsOps
  <2>3. ASSUME NEW o \in Ops, OpStep(o) PROVE Outcomes'
    <3>1. CASE Start(o)
      BY <3>1 DEF Start
    <3>2. CASE Lookup(o)
      BY <3>2 DEF Lookup
    <3>3. CASE LookupFails(o)
      BY <3>3 DEF LookupFails, Raise, Fault
    <3>4. CASE RaisePartial(o)
      BY <3>4 DEF RaisePartial, Gathered, AllConfirmed, Raise
    <3>5. CASE BeginPurge(o)
      BY <3>5 DEF BeginPurge, Gathered, AllConfirmed
    <3>6. CASE ReturnPreview(o)
      BY <3>6 DEF ReturnPreview, Gathered
    <3>7. CASE Purge(o)
      BY <3>7 DEF Purge, PurgeLedger
    <3>8. CASE PurgeFails(o)
      BY <3>8 DEF PurgeFails, PurgeLedger, Raise, Fault
    <3>9. CASE Sign(o)
      BY <3>9 DEF Sign
    <3>10. CASE SignFails(o)
      BY <3>10 DEF SignFails, Raise, Fault
    <3>11. CASE Cancel(o)
      BY <3>11 DEF Cancel, Raise, Fault
    <3> QED
      BY <2>3, <3>1, <3>2, <3>3, <3>4, <3>5, <3>6, <3>7, <3>8, <3>9, <3>10, <3>11
         DEF OpStep
  <2>4. ASSUME NEW o \in Ops, NEW a \in Adapters, AdapterStep(o, a) PROVE Outcomes'
    <3>1. CASE Apply(o, a)
      BY <3>1 DEF Apply, Target, Arrived
    <3>2. CASE ApplyPart(o, a)
      BY <3>2 DEF ApplyPart
    <3>3. CASE Count(o, a)
      BY <3>3 DEF Count
    <3>4. CASE Confirm(o, a)
      BY <3>4 DEF Confirm, Awaited
    <3>5. CASE Fail(o, a)
      BY <3>5 DEF Fail, Awaited, Fault
    <3>6. CASE TimesOut(o, a)
      BY <3>6 DEF TimesOut, Awaited
    <3>7. CASE Reject(o, a)
      BY <3>7 DEF Reject, Awaited
    <3> QED
      BY <2>4, <3>1, <3>2, <3>3, <3>4, <3>5, <3>6, <3>7
         DEF AdapterStep, StoreAnswers
  <2> QED
    BY <2>1, <2>2, <2>3, <2>4 DEF Next
<1> QED
  BY <1>1, <1>2, <1>3, PTL DEF Spec, TypeOK
-----------------------------------------------------------------------------
(* What the order of the awaits gives: an operation has looked nothing up
   before its lookup, the layers held what it found there, and an adapter's
   "ok" comes after its statement ran.                                   *)
Protocol ==
    \A o \in Ops :
       /\ pc[o] \in {"idle", "lookup"} => snap[o] = {}
       /\ present[o] \cap pending = {}
       /\ \A a \in Adapters : res[o][a] = "ok" => stmt[o][a] = "done"

LEMMA ProtocolInvariant == Spec => []Protocol
<1> USE DEF Protocol
<1>1. Init => Protocol
  BY DEF Init
<1>2. TypeOK /\ Protocol /\ [Next]_vars => Protocol'
  <2> SUFFICES ASSUME TypeOK, Protocol, [Next]_vars PROVE Protocol'
    OBVIOUS
  <2> USE DEF TypeOK, Types, vars, world, rows, given, ops, call
  <2>1. CASE UNCHANGED vars
    BY <2>1 DEF vars
  <2>2. ASSUME NEW r \in Records, Insert(r) PROVE Protocol'
    BY <2>2 DEF Insert, Fresh, Written
  <2>3. ASSUME NEW r \in Records, Add(r) PROVE Protocol'
    BY <2>3 DEF Add, Fresh, Written
  <2>4. ASSUME NEW r \in Records, Cognify(r) PROVE Protocol'
    BY <2>4 DEF Cognify
  <2>5. ASSUME NEW r \in Records, RecordProvenance(r) PROVE Protocol'
    BY <2>5 DEF RecordProvenance
  <2>6. ASSUME NEW r \in Records, LeaveUntraced(r) PROVE Protocol'
    BY <2>6 DEF LeaveUntraced, Untrace
  <2>7. ASSUME NEW r \in Records, WriterDies(r) PROVE Protocol'
    BY <2>7 DEF WriterDies, Untrace, Fault
  <2>8. ASSUME NEW R \in SUBSET Records, RecordMany(R) PROVE Protocol'
    BY <2>8 DEF RecordMany
  <2>9. ASSUME NEW o \in Ops, OpStep(o) PROVE Protocol'
    <3>1. CASE Start(o)
      BY <3>1 DEF Start
    <3>2. CASE Lookup(o)
      BY <3>2 DEF Lookup, Outcomes, About
    <3>3. CASE LookupFails(o)
      BY <3>3 DEF LookupFails, Raise, Fault
    <3>4. CASE RaisePartial(o)
      BY <3>4 DEF RaisePartial, Raise
    <3>5. CASE BeginPurge(o)
      BY <3>5 DEF BeginPurge
    <3>6. CASE ReturnPreview(o)
      BY <3>6 DEF ReturnPreview
    <3>7. CASE Purge(o)
      BY <3>7 DEF Purge, PurgeLedger
    <3>8. CASE PurgeFails(o)
      BY <3>8 DEF PurgeFails, PurgeLedger, Raise, Fault
    <3>9. CASE Sign(o)
      BY <3>9 DEF Sign
    <3>10. CASE SignFails(o)
      BY <3>10 DEF SignFails, Raise, Fault
    <3>11. CASE Cancel(o)
      BY <3>11 DEF Cancel, Raise, Fault
    <3> QED
      BY <2>9, <3>1, <3>2, <3>3, <3>4, <3>5, <3>6, <3>7, <3>8, <3>9, <3>10, <3>11
         DEF OpStep
  <2>10. ASSUME NEW o \in Ops, NEW a \in Adapters, AdapterStep(o, a) PROVE Protocol'
    <3>1. CASE Apply(o, a)
      BY <3>1 DEF Apply, Target, Arrived
    <3>2. CASE ApplyPart(o, a)
      BY <3>2 DEF ApplyPart
    <3>3. CASE Count(o, a)
      BY <3>3 DEF Count
    <3>4. CASE Confirm(o, a)
      BY <3>4 DEF Confirm, Awaited
    <3>5. CASE Fail(o, a)
      BY <3>5 DEF Fail, Awaited, Fault
    <3>6. CASE TimesOut(o, a)
      BY <3>6 DEF TimesOut, Awaited
    <3>7. CASE Reject(o, a)
      BY <3>7 DEF Reject, Awaited
    <3> QED
      BY <2>10, <3>1, <3>2, <3>3, <3>4, <3>5, <3>6, <3>7
         DEF AdapterStep, StoreAnswers
  <2> QED
    BY <2>1, <2>2, <2>3, <2>4, <2>5, <2>6, <2>7, <2>8, <2>9, <2>10
       DEF Next, Ingest
<1> QED
  BY <1>1, <1>2, TypeCorrect, PTL DEF Spec
-----------------------------------------------------------------------------
(* What a statement that ran has done: no row its operation took up is left
   in the adapter's layer, and none comes back, ids being fresh.  What the
   operation looked up and no layer held then is still to be materialised
   or gone.                                                              *)
Erasing ==
    \A o \in EraseOps :
       /\ snap[o] \subseteq About(subj[o], written)
       /\ present[o] \subseteq About(subj[o], written)
       /\ \A r \in snap[o] \cap live : r \in present[o] \/ LayerOf[r] \in Deferred
       /\ \A a \in Adapters : stmt[o][a] = "done" =>
             In(a, IF a \in Lineage THEN snap[o] ELSE present[o]) \cap live = {}

LEMMA ErasingInvariant == Spec => []Erasing
<1> USE ConstantsAssumption DEF Erasing, About, In
<1>1. Init => Erasing
  BY DEF Init, Ops
<1>2. TypeOK /\ Protocol /\ Erasing /\ [Next]_vars => Erasing'
  <2> SUFFICES ASSUME TypeOK, Protocol, Erasing, [Next]_vars PROVE Erasing'
    OBVIOUS
  <2> USE DEF TypeOK, Types, Ops, vars, world, rows, given, ops, call
  <2>1. CASE UNCHANGED vars
    BY <2>1 DEF vars
  <2>2. ASSUME NEW r \in Records, Insert(r) PROVE Erasing'
    BY <2>2 DEF Insert, Fresh, Written
  <2>3. ASSUME NEW r \in Records, Add(r) PROVE Erasing'
    BY <2>3 DEF Add, Fresh, Written
  <2>4. ASSUME NEW r \in Records, Cognify(r) PROVE Erasing'
    BY <2>4 DEF Cognify, Protocol
  <2>5. ASSUME NEW r \in Records, RecordProvenance(r) PROVE Erasing'
    BY <2>5 DEF RecordProvenance
  <2>6. ASSUME NEW r \in Records, LeaveUntraced(r) PROVE Erasing'
    BY <2>6 DEF LeaveUntraced, Untrace
  <2>7. ASSUME NEW r \in Records, WriterDies(r) PROVE Erasing'
    BY <2>7 DEF WriterDies, Untrace, Fault
  <2>8. ASSUME NEW R \in SUBSET Records, RecordMany(R) PROVE Erasing'
    BY <2>8 DEF RecordMany
  <2>9. ASSUME NEW o \in Ops, OpStep(o) PROVE Erasing'
    <3>1. CASE Start(o)
      BY <3>1 DEF Start
    <3>2. CASE Lookup(o)
      BY <3>2 DEF Lookup
    <3>3. CASE LookupFails(o)
      BY <3>3 DEF LookupFails, Raise, Fault
    <3>4. CASE RaisePartial(o)
      BY <3>4 DEF RaisePartial, Raise
    <3>5. CASE BeginPurge(o)
      BY <3>5 DEF BeginPurge
    <3>6. CASE ReturnPreview(o)
      BY <3>6 DEF ReturnPreview
    <3>7. CASE Purge(o)
      BY <3>7 DEF Purge, PurgeLedger
    <3>8. CASE PurgeFails(o)
      BY <3>8 DEF PurgeFails, PurgeLedger, Raise, Fault
    <3>9. CASE Sign(o)
      BY <3>9 DEF Sign
    <3>10. CASE SignFails(o)
      BY <3>10 DEF SignFails, Raise, Fault
    <3>11. CASE Cancel(o)
      BY <3>11 DEF Cancel, Raise, Fault
    <3> QED
      BY <2>9, <3>1, <3>2, <3>3, <3>4, <3>5, <3>6, <3>7, <3>8, <3>9, <3>10, <3>11
         DEF OpStep
  <2>10. ASSUME NEW o \in Ops, NEW a \in Adapters, AdapterStep(o, a) PROVE Erasing'
    <3>1. CASE Apply(o, a)
      BY <3>1 DEF Apply, Target, Arrived
    <3>2. CASE ApplyPart(o, a)
      BY <3>2 DEF ApplyPart
    <3>3. CASE Count(o, a)
      BY <3>3 DEF Count
    <3>4. CASE Confirm(o, a)
      BY <3>4 DEF Confirm, Awaited
    <3>5. CASE Fail(o, a)
      BY <3>5 DEF Fail, Awaited, Fault
    <3>6. CASE TimesOut(o, a)
      BY <3>6 DEF TimesOut, Awaited
    <3>7. CASE Reject(o, a)
      BY <3>7 DEF Reject, Awaited
    <3> QED
      BY <2>10, <3>1, <3>2, <3>3, <3>4, <3>5, <3>6, <3>7
         DEF AdapterStep, StoreAnswers
  <2> QED
    BY <2>1, <2>2, <2>3, <2>4, <2>5, <2>6, <2>7, <2>8, <2>9, <2>10
       DEF Next, Ingest
<1> QED
  BY <1>1, <1>2, TypeCorrect, ProtocolInvariant, PTL DEF Spec

(* At a confirmed operation every layer has lost what it took up. *)
LEMMA ConfirmedIsErased ==
  ASSUME TypeOK, Protocol, Erasing, NEW o \in EraseOps, AllConfirmed(o),
         NEW r \in snap[o] \cap live
  PROVE  LayerOf[r] \in Deferred /\ r \notin present[o]
<1>1. r \in Records /\ LayerOf[r] \in Adapters
  BY ConstantsAssumption DEF TypeOK, Types, Ops
<1>2. stmt[o][LayerOf[r]] = "done"
  BY <1>1 DEF Protocol, AllConfirmed, Ops
<1> QED
  BY <1>1, <1>2, ConstantsAssumption DEF Erasing, In

(* A receipt means that the layers hold nothing of what the ledger traced
   and they held when the erasure began, even while the agent goes on
   ingesting; what else they hold of it, a later cognify() has added.    *)
THEOREM ReceiptClears == Spec => []ReceiptClearsStores
<1>1. TypeOK /\ Protocol /\ Erasing => ReceiptClearsStores
  <2> SUFFICES ASSUME TypeOK, Protocol, Erasing, NEW o \in EraseOps, pc[o] = "receipt",
                      NEW r \in snap[o] \cap live
               PROVE  LayerOf[r] \in Deferred /\ r \notin present[o]
    BY DEF ReceiptClearsStores
  <2>1. AllConfirmed(o)
    BY DEF TypeOK, Outcomes, AllConfirmed, Ops
  <2> QED
    BY <2>1, ConfirmedIsErased
<1> QED
  BY <1>1, TypeCorrect, ProtocolInvariant, ErasingInvariant, PTL

Inv == TypeOK /\ Protocol /\ Erasing

LEMMA Invariants == Spec => []Inv
  BY TypeCorrect, ProtocolInvariant, ErasingInvariant, PTL DEF Inv
-----------------------------------------------------------------------------
(* What the ledger knows while nobody ingests about a subject being erased:
   no writer is at work on it and no text of its waits for a cognify, so
   what the operation looks up is in the layers or gone; the ledger traces
   nothing it has not looked up, and what a purge forgot stays forgotten. *)
Tracing ==
    /\ NoOrphan
    /\ RowsPurgedOnce
    /\ \A o \in EraseOps :
          /\ pc[o] \in Active => About(subj[o], writing \cup pending) = {}
          /\ snap[o] \cap (writing \cup pending) = {}
          /\ snap[o] \cap live \subseteq present[o]
          /\ pc[o] \in {"fan_out", "purge"} => About(subj[o], ledger) \subseteq snap[o]
          /\ pc[o] \in {"sign", "receipt"} => snap[o] \cap ledger = {}
          /\ purged[o] \cap (ledger \cup writing) = {}

(* Every row a purge is about to forget is gone from the layers. *)
LEMMA PurgeIsSafe ==
  ASSUME Inv, Tracing, NEW o \in Ops, pc[o] = "purge"
  PROVE  o \in EraseOps /\ About(subj[o], ledger) \cap live = {}
<1> USE DEF Inv
<1>1. o \in EraseOps /\ AllConfirmed(o)
  BY DEF TypeOK, Outcomes, AllConfirmed
<1>2. About(subj[o], ledger) \subseteq snap[o] /\ snap[o] \cap live \subseteq present[o]
  BY <1>1 DEF Tracing
<1> QED
  BY <1>1, <1>2, ConfirmedIsErased

LEMMA TracingInvariant == ASSUME Quiesced PROVE Spec => []Tracing
<1> USE Quiesced DEF Tracing, NoOrphan, RowsPurgedOnce, About, Active
<1>1. Init => Tracing
  BY DEF Init, Ops
<1>2. Inv /\ Tracing /\ [Next]_vars => Tracing'
  <2> SUFFICES ASSUME Inv, Tracing, [Next]_vars PROVE Tracing'
    OBVIOUS
  <2> USE DEF Inv, TypeOK, Types, Ops, vars, world, rows, given, ops, call
  <2>1. CASE UNCHANGED vars
    BY <2>1 DEF vars
  <2>2. ASSUME NEW r \in Records, Insert(r) PROVE Tracing'
    BY <2>2, ConstantsAssumption DEF Insert, Fresh, Written, Erasing
  <2>3. ASSUME NEW r \in Records, Add(r) PROVE Tracing'
    BY <2>3, ConstantsAssumption DEF Add, Fresh, Written, Erasing
  <2>4. ASSUME NEW r \in Records, Cognify(r) PROVE Tracing'
    BY <2>4, ConstantsAssumption DEF Cognify
  <2>5. ASSUME NEW r \in Records, RecordProvenance(r) PROVE Tracing'
    BY <2>5 DEF RecordProvenance
  <2>6. ASSUME NEW r \in Records, LeaveUntraced(r) PROVE Tracing'
    BY <2>6, ConstantsAssumption DEF LeaveUntraced, Untrace
  <2>7. ASSUME NEW r \in Records, WriterDies(r) PROVE Tracing'
    BY <2>7 DEF WriterDies, Untrace, Fault
  <2>8. ASSUME NEW R \in SUBSET Records, RecordMany(R) PROVE Tracing'
    BY <2>8 DEF RecordMany
  <2>9. ASSUME NEW o \in Ops, OpStep(o) PROVE Tracing'
    <3>1. CASE Start(o)
      BY <3>1 DEF Start
    <3>2. CASE Lookup(o)
      BY <3>2 DEF Lookup
    <3>3. CASE LookupFails(o)
      BY <3>3 DEF LookupFails, Raise, Fault
    <3>4. CASE RaisePartial(o)
      BY <3>4 DEF RaisePartial, Gathered, Raise
    <3>5. CASE BeginPurge(o)
      BY <3>5 DEF BeginPurge, Gathered
    <3>6. CASE ReturnPreview(o)
      BY <3>6 DEF ReturnPreview, Gathered
    <3>7. CASE Purge(o)
      <4>1. o \in EraseOps /\ About(subj[o], ledger) \cap live = {}
        BY <3>7, PurgeIsSafe DEF Purge
      <4>2. NoOrphan'
        BY <3>7, <4>1 DEF Purge, PurgeLedger
      <4>3. RowsPurgedOnce'
        BY <3>7, <4>1 DEF Purge, PurgeLedger
      <4>4. ASSUME NEW p \in EraseOps
            PROVE  /\ (pc[p] \in Active => About(subj[p], writing \cup pending) = {})'
                   /\ (snap[p] \cap (writing \cup pending) = {})'
                   /\ (snap[p] \cap live \subseteq present[p])'
                   /\ (pc[p] \in {"fan_out", "purge"} =>
                           About(subj[p], ledger) \subseteq snap[p])'
        BY <3>7, <4>1, <4>4 DEF Purge, PurgeLedger
      <4>5. ASSUME NEW p \in EraseOps
            PROVE  (pc[p] \in {"sign", "receipt"} => snap[p] \cap ledger = {})'
        BY <3>7, <4>1, <4>5, ConstantsAssumption DEF Purge, PurgeLedger, Erasing
      <4>6. ASSUME NEW p \in EraseOps
            PROVE  (purged[p] \cap (ledger \cup writing) = {})'
        BY <3>7, <4>1, <4>6 DEF Purge, PurgeLedger
      <4> QED
        BY <4>2, <4>3, <4>4, <4>5, <4>6
    <3>8. CASE PurgeFails(o)
      BY <3>8, PurgeIsSafe DEF PurgeFails, PurgeLedger, Raise, Fault
    <3>9. CASE Sign(o)
      BY <3>9 DEF Sign
    <3>10. CASE SignFails(o)
      BY <3>10 DEF SignFails, Raise, Fault
    <3>11. CASE Cancel(o)
      BY <3>11 DEF Cancel, Raise, Fault
    <3> QED
      BY <2>9, <3>1, <3>2, <3>3, <3>4, <3>5, <3>6, <3>7, <3>8, <3>9, <3>10, <3>11
         DEF OpStep
  <2>10. ASSUME NEW o \in Ops, NEW a \in Adapters, AdapterStep(o, a) PROVE Tracing'
    <3>1. CASE Apply(o, a)
      BY <3>1 DEF Apply, Target, Arrived
    <3>2. CASE ApplyPart(o, a)
      BY <3>2 DEF ApplyPart
    <3>3. CASE Count(o, a)
      BY <3>3 DEF Count
    <3>4. CASE Confirm(o, a)
      BY <3>4 DEF Confirm, Awaited
    <3>5. CASE Fail(o, a)
      BY <3>5 DEF Fail, Awaited, Fault
    <3>6. CASE TimesOut(o, a)
      BY <3>6 DEF TimesOut, Awaited
    <3>7. CASE Reject(o, a)
      BY <3>7 DEF Reject, Awaited
    <3> QED
      BY <2>10, <3>1, <3>2, <3>3, <3>4, <3>5, <3>6, <3>7
         DEF AdapterStep, StoreAnswers
  <2> QED
    BY <2>1, <2>2, <2>3, <2>4, <2>5, <2>6, <2>7, <2>8, <2>9, <2>10
       DEF Next, Ingest
<1> QED
  BY <1>1, <1>2, Invariants, PTL DEF Spec

(* Nothing a lineage layer holds is ever out of the ledger's sight, but for
   what a writer left behind when it died.                               *)
THEOREM NothingOrphaned == ASSUME Quiesced PROVE Spec => []NoOrphan
<1>1. Tracing => NoOrphan
  BY DEF Tracing
<1> QED
  BY <1>1, TracingInvariant, PTL

(* No ledger row is counted in the rows_purged of two operations. *)
THEOREM PurgesAreDisjoint == ASSUME Quiesced PROVE Spec => []RowsPurgedOnce
<1>1. Tracing => RowsPurgedOnce
  BY DEF Tracing
<1> QED
  BY <1>1, TracingInvariant, PTL

(* The receipt's attestation over the layers and the ledger. *)
THEOREM ReceiptIsTrue == ASSUME Quiesced PROVE Spec => []ReceiptAttests
<1>1. Inv /\ Tracing /\ ReceiptClearsStores => ReceiptAttests
  BY DEF Tracing, ReceiptClearsStores, ReceiptAttests
<1> QED
  BY <1>1, Invariants, TracingInvariant, ReceiptClears, PTL

(* A step that shrinks the ledger is a purge, and a purge is safe. *)
LEMMA StepForgetsOnlyErased ==
  ASSUME Inv, Tracing, [Next]_vars
  PROVE  live \cap (ledger \ ledger') = {}
<1> USE DEF Inv
<1>1. CASE UNCHANGED vars
  BY <1>1 DEF vars, world
<1>2. CASE Ingest
  BY <1>2 DEF Ingest, Insert, Add, Cognify, Written, RecordProvenance, RecordMany,
              LeaveUntraced, WriterDies, Untrace
<1>3. ASSUME NEW o \in Ops, OpStep(o) PROVE live \cap (ledger \ ledger') = {}
  <2>1. CASE Purge(o) \/ PurgeFails(o)
    <3>1. About(subj[o], ledger) \cap live = {}
      BY <2>1, PurgeIsSafe DEF Purge, PurgeFails
    <3> QED
      BY <2>1, <3>1 DEF Purge, PurgeFails, PurgeLedger
  <2>2. CASE ~(Purge(o) \/ PurgeFails(o))
    BY <1>3, <2>2 DEF OpStep, Start, Lookup, LookupFails, RaisePartial, BeginPurge,
                      ReturnPreview, Sign, SignFails, Cancel, world
  <2> QED
    BY <2>1, <2>2
<1>4. ASSUME NEW o \in Ops, NEW a \in Adapters, AdapterStep(o, a)
      PROVE  live \cap (ledger \ ledger') = {}
  BY <1>4 DEF AdapterStep, StoreAnswers, Apply, ApplyPart, Count, Confirm, Fail, TimesOut,
              Reject, world
<1> QED
  BY <1>1, <1>2, <1>3, <1>4 DEF Next

(* The purge never forgets a row that a layer still holds. *)
THEOREM PurgeIsLast == ASSUME Quiesced PROVE Spec => PurgeForgetsOnlyErased
<1>1. Inv /\ Tracing /\ [Next]_vars => [live \cap (ledger \ ledger') = {}]_vars
  BY StepForgetsOnlyErased
<1> QED
  BY <1>1, Invariants, TracingInvariant, PTL DEF Spec, PurgeForgetsOnlyErased
-----------------------------------------------------------------------------
(* Every step of the orchestrator is a step of the contract or changes
   nothing the contract speaks of.                                       *)
LEMMA StepKeepsContract ==
  ASSUME Quiesced, Inv, Tracing, [Next]_vars
  PROVE  [Contract!Next]_(Contract!cvars)
<1> DEFINE Told == [o \in EraseOps |-> Verdict(o)]
<1> USE DEF Inv, vars, world, rows, given, ops, call
<1>1. CASE UNCHANGED vars
  BY <1>1 DEF Contract!cvars, Verdict
<1>2. ASSUME NEW r \in Records, Insert(r) \/ Cognify(r) PROVE Contract!Write(r)
  <2>1. /\ \A o \in EraseOps : r \notin snap[o]
        /\ r \notin live /\ live' = live \cup {r}
        /\ UNCHANGED <<ledger, snap, pc>>
    BY <1>2 DEF Insert, Cognify, Fresh, Written, Erasing, Tracing, About, TypeOK, Types
  <2> QED
    BY <2>1 DEF Verdict, Contract!Write, Contract!InNoScope
<1>3. ASSUME NEW R \in SUBSET writing, UNCHANGED <<live, pc, call>>,
             ledger' = ledger \cup R
      PROVE  Contract!Trace(R)
  <2>1. \A o \in EraseOps : R \cap snap[o] = {}
    BY DEF Tracing
  <2> QED
    BY <1>3, <2>1 DEF Verdict, Contract!Trace, Contract!InNoScope
<1>4. ASSUME NEW r \in Records, RecordProvenance(r)
      PROVE  Contract!Next
  <2>1. Contract!Trace({r})
    BY <1>3, <1>4 DEF RecordProvenance
  <2> QED
    BY <2>1 DEF Contract!Next
<1>5. ASSUME NEW R \in SUBSET Records, RecordMany(R) PROVE Contract!Next
  <2>1. Contract!Trace(R)
    BY <1>3, <1>5 DEF RecordMany, call
  <2> QED
    BY <2>1 DEF Contract!Next
<1>6. ASSUME NEW o \in Ops, OpStep(o) PROVE [Contract!Next]_(Contract!cvars)
  <2> USE DEF TypeOK, Types, Ops, PCs
  <2>1. ASSUME o \in EraseOps, pc[o] \in Active,
               UNCHANGED <<live, ledger, snap>>, pc' = [pc EXCEPT ![o] = "error"]
        PROVE  Contract!Refuse(o)
    BY <2>1 DEF Active, Verdict, Contract!Refuse
  <2>2. ASSUME o \notin EraseOps, UNCHANGED <<live, ledger>>,
               \A p \in EraseOps : snap'[p] = snap[p] /\ pc'[p] = pc[p]
        PROVE  UNCHANGED Contract!cvars
    BY <2>2 DEF Verdict, Contract!cvars
  <2>3. ASSUME UNCHANGED <<live, ledger, snap>>, NEW q \in PCs \ {"receipt", "error"},
               pc[o] \notin {"receipt", "error"}, pc' = [pc EXCEPT ![o] = q]
        PROVE  UNCHANGED Contract!cvars
    BY <2>3 DEF Verdict, Contract!cvars
  <2>4. CASE Start(o) \/ RaisePartial(o) \/ BeginPurge(o) \/ ReturnPreview(o)
    <3>1. CASE RaisePartial(o)
      BY <2>1, <3>1 DEF RaisePartial, Gathered, Raise, Active, world, call, Contract!Next
    <3>2. CASE Start(o)
      BY <2>3, <3>2 DEF Start, world, call
    <3>3. CASE BeginPurge(o)
      BY <2>3, <3>3 DEF BeginPurge, Gathered, world, call
    <3>4. CASE ReturnPreview(o)
      BY <2>3, <3>4 DEF ReturnPreview, Gathered, world, call
    <3> QED
      BY <2>4, <3>1, <3>2, <3>3, <3>4
  <2>5. CASE Lookup(o)
    <3>1. CASE o \in EraseOps
      <4>1. snap[o] = {}
        BY <2>5 DEF Lookup, Protocol
      <4>2. PICK s \in Subjects : s = subj[o]
        OBVIOUS
      <4>3. Contract!Open(o, s)
        BY <2>5, <3>1, <4>1, <4>2 DEF Lookup, About, world, Verdict, Contract!Open
      <4> QED
        BY <3>1, <4>3 DEF Contract!Next
    <3>2. CASE o \notin EraseOps
      BY <2>2, <2>5, <3>2 DEF Lookup, world
    <3> QED
      BY <3>1, <3>2
  <2>6. CASE LookupFails(o) \/ SignFails(o) \/ Cancel(o)
    <3>1. UNCHANGED <<live, ledger, snap>> /\ pc' = [pc EXCEPT ![o] = "error"]
          /\ pc[o] \in Active
      BY <2>6 DEF LookupFails, SignFails, Cancel, Raise, Active, world, call
    <3>2. CASE o \in EraseOps
      BY <2>1, <3>1, <3>2 DEF Contract!Next
    <3>3. CASE o \notin EraseOps
      BY <2>2, <3>1, <3>3
    <3> QED
      BY <3>2, <3>3
  <2>7. CASE Purge(o) \/ PurgeFails(o)
    <3>1. o \in EraseOps
      BY <2>7, PurgeIsSafe DEF Purge, PurgeFails
    <3>2. live \cap (ledger \ ledger') = {}
      BY StepForgetsOnlyErased
    <3>3. ledger' \in SUBSET ledger /\ UNCHANGED <<live, snap>>
      BY <2>7 DEF Purge, PurgeFails, PurgeLedger, call
    <3>4. CASE Purge(o)
      BY <3>1, <3>2, <3>3, <3>4 DEF Purge, Verdict, Contract!Forget, Contract!Next
    <3>5. CASE PurgeFails(o)
      <4>1. /\ Told[o] = "pending"
            /\ Told' = [Told EXCEPT ![o] = "refused"]
        BY <3>1, <3>5 DEF PurgeFails, Raise, Verdict
      <4> QED
        BY <3>1, <3>2, <3>3, <4>1 DEF Contract!Forget, Contract!Next
    <3> QED
      BY <2>7, <3>4, <3>5
  <2>8. CASE Sign(o)
    <3>1. o \in EraseOps /\ AllConfirmed(o)
      BY <2>8 DEF Sign, Outcomes, AllConfirmed
    <3>2. snap[o] \cap (live \cup ledger) = {}
      BY <2>8, <3>1, ConfirmedIsErased DEF Sign, Tracing
    <3>3. Contract!Certify(o)
      BY <2>8, <3>1, <3>2 DEF Sign, world, call, Verdict, Contract!Certify
    <3> QED
      BY <3>1, <3>3 DEF Contract!Next
  <2> QED
    BY <1>6, <2>4, <2>5, <2>6, <2>7, <2>8 DEF OpStep
<1>7. ASSUME NEW o \in Ops, NEW a \in Adapters, AdapterStep(o, a)
      PROVE  [Contract!Next]_(Contract!cvars)
  <2>1. CASE Apply(o, a) \/ ApplyPart(o, a)
    BY <2>1 DEF Apply, ApplyPart, call, Verdict, Contract!Drop, Contract!Next
  <2>2. CASE Count(o, a) \/ Confirm(o, a) \/ Fail(o, a) \/ TimesOut(o, a) \/ Reject(o, a)
    BY <2>2 DEF Count, Confirm, Fail, TimesOut, Reject, Verdict, Contract!cvars
  <2> QED
    BY <1>7, <2>1, <2>2 DEF AdapterStep, StoreAnswers
<1>8. ASSUME NEW r \in Records, Add(r) \/ LeaveUntraced(r) \/ WriterDies(r)
      PROVE  UNCHANGED Contract!cvars
  BY <1>8 DEF Add, LeaveUntraced, WriterDies, Written, Untrace, Verdict, Contract!cvars
<1> QED
  BY <1>1, <1>2, <1>4, <1>5, <1>6, <1>7, <1>8 DEF Next, Ingest, Contract!Next

(* The orchestrator keeps the promise of ErasureContract. *)
THEOREM KeepsContract == ASSUME Quiesced PROVE Spec => ImplementsContract
<1>1. Init => Contract!Init
  BY DEF Init, Ops, Verdict, Contract!Init
<1>2. Inv /\ Tracing /\ [Next]_vars => [Contract!Next]_(Contract!cvars)
  BY StepKeepsContract
<1> QED
  BY <1>1, <1>2, Invariants, TracingInvariant, PTL
     DEF Spec, ImplementsContract, Contract!Spec

(* What an erasure has looked up is traced as long as a layer holds it, so
   that a retry after a failure finds it again: lookups read the ledger, and
   a purge takes from it only what is in no layer any more.              *)
StillTraced == \A o \in EraseOps : snap[o] \cap live \subseteq ledger

(* The contract promises it, to whoever keeps the contract. *)
LEMMA ContractKeepsTraces == Contract!Spec => []StillTraced
<1> USE DEF StillTraced
<1>1. Contract!Init => StillTraced
  BY DEF Contract!Init
<1>2. StillTraced /\ [Contract!Next]_(Contract!cvars) => StillTraced'
  BY DEF Contract!Next, Contract!cvars, Contract!Write, Contract!InNoScope, Contract!Trace,
         Contract!Open, Contract!Drop, Contract!Forget, Contract!Certify, Contract!Refuse
<1> QED
  BY <1>1, <1>2, PTL DEF Contract!Spec

(* So does the orchestrator, by keeping it. *)
THEOREM RetryFindsTheRest == ASSUME Quiesced PROVE Spec => []StillTraced
  BY KeepsContract, ContractKeepsTraces, PTL DEF ImplementsContract
-----------------------------------------------------------------------------
(* An operation's phase at a layer follows its result there, and until there
   is one, its own place.                                                *)
LEMMA PhaseFollows ==
  ASSUME TypeOK, NEW o \in Ops, NEW a \in Adapters
  PROVE  /\ res[o][a] = "ok" => Phase(o, a) = "done"
         /\ res[o][a] = "failed" => Phase(o, a) = "failed"
         /\ res[o][a] = "waiting" =>
               /\ pc[o] = "error" => Phase(o, a) = "failed"
               /\ pc[o] \in {"idle", "lookup"} => Phase(o, a) = "waiting"
               /\ pc[o] \notin {"error", "idle", "lookup"} => Phase(o, a) = "running"
BY DEF Phase, TypeOK, Types

LEMMA OthersKeepPhase ==
  ASSUME NEW a \in Adapters, NEW p \in Ops, pc'[p] = pc[p], res'[p][a] = res[p][a]
  PROVE  Phase(p, a)' = Phase(p, a)
BY DEF Phase

LEMMA LayerStutters ==
  ASSUME NEW a \in Adapters, UNCHANGED <<In(a, live), call>>,
         \A o \in Ops : Phase(o, a)' = Phase(o, a)
  PROVE  Layer(a)!Idle
<1>1. [o \in Ops |-> Phase(o, a)'] = [o \in Ops |-> Phase(o, a)]
  OBVIOUS
<1> QED
  BY <1>1 DEF Layer!Idle, call

(* A call gives up on a layer. *)
LEMMA LayerRaises ==
  ASSUME NEW a \in Adapters, NEW o \in Ops, UNCHANGED <<In(a, live), call>>,
         Phase(o, a) \in {"waiting", "running"}, Phase(o, a)' = "failed",
         \A p \in Ops \ {o} : Phase(p, a)' = Phase(p, a)
  PROVE  Layer(a)!Next
<1>1. [p \in Ops |-> Phase(p, a)'] = [[p \in Ops |-> Phase(p, a)] EXCEPT ![o] = "failed"]
  OBVIOUS
<1>2. Layer(a)!Raise(o)
  BY <1>1 DEF Layer!Raise, Layer!Removes, Layer!OfSubject, call
<1> QED
  BY <1>2 DEF Layer!Next

(* A statement removes rows of its subject from its own layer only, and runs
   for a call that waits for it or has failed.                           *)
LEMMA LayerLosesRows ==
  ASSUME Inv, NEW a \in Adapters, NEW o \in EraseOps, NEW b \in Adapters,
         Apply(o, b) \/ ApplyPart(o, b)
  PROVE  Layer(a)!Next \/ Layer(a)!Idle
<1> USE ConstantsAssumption DEF Inv, Ops
<1>1. UNCHANGED <<call, pc, res>> /\ stmt[o][b] = "queued"
  BY DEF Apply, ApplyPart, ops
<1>2. \A p \in Ops : Phase(p, a)' = Phase(p, a)
  BY <1>1, OthersKeepPhase
<1>3. live' \subseteq live /\ live \ live' \subseteq In(b, About(subj[o], Records))
  BY DEF Apply, ApplyPart, Target, Arrived, In, About, TypeOK, Types
<1>4. CASE a # b
  <2>1. In(a, live') = In(a, live)
    BY <1>3, <1>4 DEF In
  <2> QED
    BY <1>1, <1>2, <2>1, LayerStutters DEF In
<1>5. CASE a = b
  <2>1. Phase(o, a) \in {"running", "failed"}
    BY <1>1, <1>5, PhaseFollows DEF Protocol, Outcomes, TypeOK, Types
  <2>2. [p \in Ops |-> Phase(p, a)'] = [p \in Ops |-> Phase(p, a)]
    BY <1>2
  <2>3. Layer(a)!Removes(o)
    BY <1>1, <1>3 DEF Layer!Removes, Layer!OfSubject, In, About
  <2>4. Layer(a)!Remove(o)
    BY <1>1, <2>1, <2>2, <2>3 DEF Layer!Remove, call
  <2> QED
    BY <2>4 DEF Layer!Next
<1> QED
  BY <1>4, <1>5

(* Ingest only adds rows to a layer, under ids no call has taken up. *)
LEMMA IngestKeepsLayer ==
  ASSUME Inv, NEW a \in Adapters, Ingest
  PROVE  Layer(a)!Next \/ Layer(a)!Idle
<1> USE DEF Inv, ops
<1>1. UNCHANGED <<call, pc, res>>
  BY IngestKeepsOps
<1>2. \A p \in Ops : Phase(p, a)' = Phase(p, a)
  BY <1>1, OthersKeepPhase
<1>3. ASSUME NEW r \in Records, Insert(r) \/ Cognify(r)
      PROVE  Layer(a)!Next \/ Layer(a)!Idle
  <2>1. live' = live \cup {r}
    BY <1>3 DEF Insert, Cognify
  <2>2. CASE LayerOf[r] # a
    <3>1. In(a, live') = In(a, live)
      BY <2>1, <2>2 DEF In
    <3> QED
      BY <1>1, <1>2, <3>1, LayerStutters DEF In
  <2>3. CASE LayerOf[r] = a
    <3>1. \A p \in Ops : r \notin IF a \in Lineage THEN snap[p] ELSE present[p]
      BY <1>3, <2>3, ConstantsAssumption
         DEF Insert, Cognify, Fresh, Protocol, TypeOK, Types
    <3>2. [p \in Ops |-> Phase(p, a)'] = [p \in Ops |-> Phase(p, a)]
      BY <1>2
    <3>3. In(a, live) \subseteq In(a, live') /\ In(a, live') \ In(a, live) \subseteq {r}
      BY <2>1 DEF In
    <3>4. Layer(a)!Store
      BY <1>1, <3>1, <3>2, <3>3 DEF Layer!Store, In, call
    <3> QED
      BY <3>4 DEF Layer!Next
  <2> QED
    BY <2>2, <2>3
<1>4. CASE UNCHANGED live
  BY <1>1, <1>2, <1>4, LayerStutters DEF In
<1> QED
  BY <1>3, <1>4 DEF Ingest, Add, RecordProvenance, LeaveUntraced, WriterDies, Untrace,
                    RecordMany

(* An operation's own steps take a layer up at its lookup, and give up on it
   when they raise before the layer has answered.                        *)
LEMMA OpStepKeepsLayer ==
  ASSUME Inv, NEW a \in Adapters, NEW o \in Ops, OpStep(o)
  PROVE  Layer(a)!Next \/ Layer(a)!Idle
<1> USE DEF Inv
<1>1. UNCHANGED <<live, subj, res>> /\ \A p \in Ops \ {o} : pc'[p] = pc[p]
  BY DEF OpStep, Start, Lookup, LookupFails, RaisePartial, BeginPurge, ReturnPreview,
         Purge, PurgeFails, Sign, SignFails, Cancel, Raise, world, call, TypeOK, Types
<1>2. \A p \in Ops \ {o} : Phase(p, a)' = Phase(p, a)
  BY <1>1, OthersKeepPhase
<1>3. CASE Lookup(o)
  <2>1. Phase(o, a) = "waiting"
    BY <1>3, PhaseFollows DEF Lookup, Outcomes, TypeOK, Types
  <2>2. Phase(o, a)' = "running"
    BY <1>3 DEF Lookup, Outcomes, Phase, TypeOK, Types
  <2>3. [p \in Ops |-> Phase(p, a)']
           = [[p \in Ops |-> Phase(p, a)] EXCEPT ![o] = "running"]
    BY <1>2, <2>2
  <2> DEFINE Base == [p \in Ops |-> In(a, IF a \in Lineage THEN snap[p] ELSE present[p])]
             Reach == In(a, IF a \in Lineage THEN ledger ELSE live)
  <2>4. Base' = [Base EXCEPT ![o] = Layer(a)!OfSubject(o, Reach)]
    BY <1>3 DEF Lookup, In, About, TypeOK, Types, Layer!OfSubject
  <2>5. Layer(a)!TakeUp(o)
    BY <1>1, <2>1, <2>3, <2>4 DEF Layer!TakeUp
  <2> QED
    BY <2>5 DEF Layer!Next
<1>4. CASE ~Lookup(o)
  <2>1. UNCHANGED <<In(a, live), call>>
    BY <1>1, <1>4 DEF OpStep, Start, LookupFails, RaisePartial, BeginPurge,
       ReturnPreview, Purge, PurgeFails, Sign, SignFails, Cancel, In, call
  <2>2. CASE res[o][a] = "waiting" /\ pc'[o] = "error"
    <3>1. pc[o] # "error"
      BY <1>4, <2>2 DEF OpStep, Start, LookupFails, RaisePartial, BeginPurge,
         ReturnPreview, Purge, PurgeFails, Sign, SignFails, Cancel, Gathered, Active
    <3>2. Phase(o, a) \in {"waiting", "running"}
      BY <2>2, <3>1, PhaseFollows
    <3>3. Phase(o, a)' = "failed"
      BY <1>1, <2>2 DEF Phase
    <3> QED
      BY <1>2, <2>1, <3>2, <3>3, LayerRaises
  <2>3. CASE res[o][a] = "waiting" /\ pc'[o] # "error"
    <3>1. CASE Start(o)
      <4>1. Phase(o, a)' = Phase(o, a)
        BY <1>1, <2>3, <3>1 DEF Start, Phase, TypeOK, Types
      <4> QED
        BY <1>2, <2>1, <4>1, LayerStutters
    <3>2. CASE BeginPurge(o) \/ ReturnPreview(o)
      BY <2>3, <3>2 DEF BeginPurge, ReturnPreview, Gathered
    <3>3. CASE Purge(o) \/ Sign(o)
      BY <2>3, <3>3 DEF Purge, Sign, Outcomes, TypeOK
    <3>4. CASE RaisePartial(o) \/ PurgeFails(o) \/ LookupFails(o) \/ SignFails(o) \/ Cancel(o)
      BY <2>3, <3>4 DEF RaisePartial, PurgeFails, LookupFails, SignFails, Cancel, Raise, TypeOK, Types
    <3> QED
      BY <1>4, <3>1, <3>2, <3>3, <3>4 DEF OpStep
  <2>4. CASE res[o][a] # "waiting"
    <3>1. Phase(o, a)' = Phase(o, a)
      BY <1>1, <2>4 DEF Phase, TypeOK, Types
    <3> QED
      BY <1>2, <2>1, <3>1, LayerStutters
  <2> QED
    BY <2>2, <2>3, <2>4
<1> QED
  BY <1>3, <1>4

(* An adapter's step is its layer's own; the other layers do not notice. *)
LEMMA AdapterStepKeepsLayer ==
  ASSUME Inv, NEW a \in Adapters, NEW o \in Ops, NEW b \in Adapters, AdapterStep(o, b)
  PROVE  Layer(a)!Next \/ Layer(a)!Idle
<1> USE ConstantsAssumption DEF Inv
<1>1. CASE Apply(o, b) \/ ApplyPart(o, b)
  BY <1>1, LayerLosesRows DEF Apply, ApplyPart
<1>2. CASE Count(o, b)
  <2>1. \A p \in Ops : Phase(p, a)' = Phase(p, a)
    BY <1>2, OthersKeepPhase DEF Count
  <2> QED
    BY <1>2, <2>1, LayerStutters DEF Count, world, In
<1>3. ASSUME pc[o] = "fan_out", res[o][b] = "waiting", UNCHANGED <<world, call, pc>>,
             NEW x \in {"ok", "failed"}, res' = [res EXCEPT ![o][b] = x],
             x = "ok" => stmt[o][b] = "done"
      PROVE  Layer(a)!Next \/ Layer(a)!Idle
  <2>1. UNCHANGED <<In(a, live), call>>
    BY <1>3 DEF world, In
  <2>2. \A p \in Ops \ {o} : Phase(p, a)' = Phase(p, a)
    BY <1>3, OthersKeepPhase DEF TypeOK, Types
  <2>3. CASE a # b
    <3>1. Phase(o, a)' = Phase(o, a)
      BY <1>3, <2>3, OthersKeepPhase DEF TypeOK, Types
    <3> QED
      BY <2>1, <2>2, <3>1, LayerStutters
  <2>4. CASE a = b /\ x = "failed"
    <3>1. Phase(o, a) = "running"
      BY <1>3, <2>4, PhaseFollows
    <3>2. Phase(o, a)' = "failed"
      BY <1>3, <2>4 DEF Phase, TypeOK, Types
    <3> QED
      BY <2>1, <2>2, <3>1, <3>2, LayerRaises
  <2>5. CASE a = b /\ x = "ok"
    <3>1. Phase(o, a) = "running"
      BY <1>3, <2>5, PhaseFollows
    <3>2. Phase(o, a)' = "done"
      BY <1>3, <2>5 DEF Phase, TypeOK, Types
    <3>3. [p \in Ops |-> Phase(p, a)']
             = [[p \in Ops |-> Phase(p, a)] EXCEPT ![o] = "done"]
      BY <2>2, <3>2
    <3>4. o \notin PreviewOps =>
             In(a, IF a \in Lineage THEN snap[o] ELSE present[o]) \cap In(a, live) = {}
      BY <1>3, <2>5 DEF Erasing, Ops, In
    <3>5. Layer(a)!Confirm(o)
      BY <2>1, <3>1, <3>3, <3>4 DEF Layer!Confirm, Layer!Removes, Layer!OfSubject, call
    <3> QED
      BY <3>5 DEF Layer!Next
  <2> QED
    BY <2>3, <2>4, <2>5
<1>4. CASE Confirm(o, b)
  BY <1>3, <1>4 DEF Confirm, Awaited
<1>5. CASE Fail(o, b) \/ TimesOut(o, b) \/ Reject(o, b)
  BY <1>3, <1>5 DEF Fail, TimesOut, Reject, Awaited
<1> QED
  BY <1>1, <1>2, <1>4, <1>5 DEF AdapterStep, StoreAnswers

(* What the orchestrator expects of every layer, and what it hands it, stays
   within the port, whether or not the agent ingests beside it.          *)
THEOREM LayersWithinPort == Spec => LayersKeepPort
<1>1. ASSUME Init, NEW a \in Adapters PROVE Layer(a)!Init
  <2>1. \A o \in Ops : Phase(o, a) = "waiting"
    BY <1>1 DEF Init, Phase
  <2>2. \A o \in Ops : In(a, IF a \in Lineage THEN snap[o] ELSE present[o]) = {}
    BY <1>1 DEF Init, In
  <2> QED
    BY <1>1, <2>1, <2>2 DEF Init, Layer!Init, In
<1>2. ASSUME Inv, [Next]_vars, NEW a \in Adapters PROVE Layer(a)!Next \/ Layer(a)!Idle
  <2>1. CASE UNCHANGED vars
    <3>1. \A p \in Ops : Phase(p, a)' = Phase(p, a)
      BY <2>1, OthersKeepPhase DEF vars, ops
    <3> QED
      BY <2>1, <3>1, LayerStutters DEF vars, ops, world, In
  <2> QED
    BY <1>2, <2>1, IngestKeepsLayer, OpStepKeepsLayer, AdapterStepKeepsLayer DEF Next
<1>3. Inv /\ [Next]_vars => [\A a \in Adapters : Layer(a)!Next \/ Layer(a)!Idle]_vars
  BY <1>2
<1>4. Init => \A a \in Adapters : Layer(a)!Init
  BY <1>1
<1> QED
  BY <1>3, <1>4, Invariants, PTL DEF Spec, LayersKeepPort
=============================================================================
