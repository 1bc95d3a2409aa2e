# Vismaran in TLA+

Vismaran erases a data subject from the memory layers of an AI agent (a Cognee
graph in Neo4j, embeddings in pgvector, TensorZero's logs in ClickHouse) and
signs a receipt that says so. This directory holds TLA+ models of that code,
TLC configurations that check them on small instances, and TLAPS proofs, for
every instance, of every safety property and refinement the passing runs check.
Everything is translated from `src/src/vismaran` and `src/src/vismaran_sdk`; paths
below are relative to those.

    tlc -workers 2 -config MCOrchestrator_safety.cfg MCOrchestrator
    tlapm Orchestrator_proofs.tla

## The system

| Component | State | Operations | What makes it correct |
|---|---|---|---|
| Orchestrator (`application/orchestrator.py`) | none of its own; one coroutine per call | `erase`, `preview` | a receipt only after every adapter confirmed; the ledger purged last; a failed attempt leaves a retry possible |
| Provenance index (`persistence/provenance_pg.py`) | table `vismaran.provenance` | `record`, `record_many`, `lookup`, `lookup_by_framework`, `count`, `purge` | it traces every stored row it was told of until that row is gone |
| pgvector adapter | lazily opened pool, lock | `preview`, `erase`, `health_check`, `close` | deletes the rows the provenance list names, no others; one pool |
| TensorZero adapter | lazily opened HTTP client | `preview`, `erase`, `health_check`, `close` | the untagged `ModelInference` rows go with their inferences, also after failures; counts are honest |
| Cognee adapter | lazily opened driver | `preview`, `erase`, `health_check`, `close` | nothing of the subject's texts stays in the graph; other subjects' nodes do |
| Subject context (`vismaran_sdk/tag.py`) | three context variables per asyncio task | `with_subject`, `sync_with_subject`, `tag_subject`, `current_*` | a write is attributed to the innermost block around it |
| Cognee wrapper | none | `add`, `cognify` | tag and provenance row of every write |
| TensorZero wrapper, CLI, demo | none | stubs | |
| Receipt, signer (`domain/receipt`, `crypto/ed25519_signer.py`) | two key files | `build`, `to_json`, `from_json`, `sign`, `verify`, `generate_keypair` | what verifies was signed; what was signed verifies; no raw subject |

The agent writes into a layer first and into the ledger second. The SDK does both
for Cognee (`add`); its TensorZero wrapper is a stub, and nothing in the source
writes embeddings, so for these the model takes the same order from
`tests/test_orchestrator_integration.py`. `erase` reads the
ledger once, hands the list to all adapters in one `asyncio.gather`, turns each
adapter's exception into a failed result, and either raises
`PartialErasureError` or purges the ledger, builds the receipt from the adapters'
results and signs it. All of it runs on an event loop: between two awaits nothing
else runs, at each await anything may. The hard parts are the ones that follow:
ingest and other erasures between the lookup and the purge; statements that run
after their client stopped waiting; a failure after some stores are done; a
cancelled call; deletes in several statements without a transaction; clients opened
on first use by whoever comes first and closed beside them.

## Modules

| Module | Models | State | Actions |
|---|---|---|---|
| `ErasureContract` | the abstract promise | rows held, rows traced, each erasure's scope and verdict | write, trace, open, drop, forget, certify, refuse |
| `StoreAdapter` | the port every adapter implements (`application/ports.py`) | a layer's rows, what can be traced; per call the rows it took up and its phase | store, take up, remove, confirm, raise |
| `Orchestrator` | `erase`, `preview`, ledger, layers, ingest | `live`, `pending`, `ledger`, `writing`, `untraced`; `malformed`, `silent`; per call `pc`, `snap`, `stmt`, `res`, `purged`, `err` | one per await outcome, see below |
| `*_proofs` | the theorems about `Orchestrator`, `TensorZeroLog`, `CogneeGraph`, `PoolLifecycle`, `SubjectContext`, `Receipts` | | |
| `Sums` | lemmas about adding up a count per call, used by `CogneeGraph_proofs` | | |
| `TensorZeroLog` | the seven ClickHouse tables, statement by statement | `held`, `inflight`; per call `pc`, `next`, `ids`, `counted`, `removed`; histories `base`, `raced` | `Resolve`, `CountRows`, `Mutate`, `Fail`, `TimeOut`, `Land`; traffic: `Infer`, `Body`, `Feedback` |
| `CogneeGraph` | wrapper, cognify's effect, tier-3 erase | items, nodes, tags, relationships; per call counts | `Add`, `Cognify`, `CountByClass`, `DeleteByNodeSet`, `Fail`, `LoseAnswer` |
| `PoolLifecycle` | `_pool_or_connect`, `_client_or_connect`, `_driver_or_connect`, `close` | which client, attribute, lock and its queue, pool status; histories `torn`, `overlap` | `Reuse`, `Construct`, `Lock`, `Enqueue`, `Wake`, `Created`, `Abandon`, `Release`, `Close`, `CloseAtOnce`, `Closed`, `CloseTorn` |
| `SubjectContext` | the SDK's context variables | context per task, open blocks with their tokens | `Enter`, `CallTagged`, `Exit`, `Spawn`, `Resume`, `Yield` |
| `Receipts` | receipts, signing, verification, key files | key files, receipts issued, the file a verifier holds | `OpenPrivate`, `WritePrivate`, `OpenPublic`, `WritePublic`, `Interrupt`, `Sign`, `Load`, `Change` |

`MC*` modules give the constants their values. In each module the operators
marked *Faulty* are variants of the definition after them with a plausible bug;
no specification uses them. They record which bug each property catches:
replace the definition by the variant and the property fails.

**Orchestrator.** A record is one row of one layer; ids are never reused. A call
goes `idle`, `lookup`, `fan_out`, `purge`, `sign`, and ends in `receipt`,
`previewed` or `error`. In `fan_out` each adapter has a statement (`stmt`) and a
result (`res`): the statement runs in the store independently of the caller, so it
may run after the caller was told of a timeout or was cancelled. Adapters in
`Lineage` (pgvector) delete by the ids of the list looked up; the others match
the subject's tag, may run in parts, and may also meet rows that arrived later.
`About(s, ledger)` is read at the lookup and again at the purge, as in the code.
`Quiesced` states an assumption about the deployment: nobody writes about a
subject while it is erased, and when the erasure starts no such write is half done
and no text of the subject waits for its cognify. The code does not enforce it.

A row of a `Deferred` layer (the Cognee graph) is `pending` from `Add` until a
`Cognify`, which may come before or after its ledger row; rows of the others are
there at once (`Insert`, the application's own write). Each row is recorded once.
A writer may die, or its `record` raise, between its two writes (`WriterDies`), and
`add` without a provenance store records nothing (`LeaveUntraced`). A lost answer to
`record` is the row's `RecordProvenance`; the ids that follow it in the same `add`
are those of a writer that dies. A write outside every `with_subject` block is
refused, or with `fail_loud=False` is about nobody (`CogneeGraph` has such texts). A
record of a lineage layer may be traced under an id its store cannot cast
(`Castless`, `malformed`), which fails the whole statement (`Reject`).

Of the clients only TensorZero's sets a timeout (`tensorzero_log.py:130`); asyncpg
and neo4j are opened without one (`pgvector_vector.py:88`, `provenance_pg.py:50`,
`cognee_graph.py:91`). `silent` is the set of stores that need not answer, chosen at
the start among `MaySilence`; at a silent store a client in `Timed` gives up
(`TimesOut`), the others wait. A ledger statement of a cancelled call is taken to
have run when the call ends, or never (`PurgeFails`); statements to the layers may
run later.

**The port.** `StoreAdapter` states what a caller may rely on: a call takes up the
rows it can trace to its subject, removes nothing else, nothing at all in a dry run,
and confirms only when all it took up are gone; a failed call may have had any part
of its effect, or have it later. It is used from both sides. `TensorZeroLog` and
`CogneeGraph` refine it (`ImplementsPort`), statement by statement. `Orchestrator`
refines it once per layer (`LayersKeepPort`): what it lets an adapter do, and the
order in which it calls it, stay within the port. So the orchestrator's adapters and
the detailed ones keep one contract; it is not shown that the orchestrator's
properties hold over any adapter that keeps it (the port leaves out when a failed
call's late effect ends). In the graph the port's rows are the chunks, which hold
the texts; entity nodes are shared between subjects and outside it.

**The log.** An inference row and the `ModelInference` rows of its provider calls
arrive in statements of their own, in either order, at any time. A mutation whose
client gave up stays `inflight` as a statement: when it lands it is evaluated over
the rows that are there then, and removes any part of what matches, for the server
may have taken it up before some of them came. A body whose inference is not there
cannot be resolved by anyone (`Unresolved`); if its inference was there before, it is
`Stranded`.

**Clients.** `client` is chosen at the start: asyncpg's pool is created in an await
under the lock and its `close` waits for the connections in use; the httpx client
is constructed at once, its `aclose` waits for nobody and a second one returns at
once; the neo4j driver is constructed at once without a lock and serves sessions
after its close. What these libraries do is taken from how the adapters use them.

**Tagged calls.** `tag_subject` picks its wrapper by `iscoroutinefunction`. A
coroutine's body and a plain function's run inside the block. The body of a
generator or an async generator, or one behind an awaitable a plain function
returns, runs later, outside it (`late`), under what is in force there.

**Receipts.** The signed fields are the subject's hash, the terms (version, salt hash,
operator, clauses), what each store reports (a count and whom its method text names)
and the time of issue; a timestamp's zone and the verification hint are not signed.
`Changes` are the edits of a stored file: any of these fields, the stored hash and
the signature. A file is opened, which truncates it, and written in two steps.

**Abstraction.** Rows are atoms with a subject, a layer or a table. Subjects,
texts, names and keys are model values. Digests are the values they are digests
of. Byte encodings, SQL text, log text and method wording are left out, except
that a method text quotes the subject where the code makes it do so.

## What TLC checks

| Run | Instance | Shows |
|---|---|---|
| `orch_safety` | 2 erasures, 2 subjects, 3 records, 2 layers (one by lineage, one by tag that fills at a cognify), 3 faults, quiesced | `TypeOK` (what callers are told), `ReceiptAttests`, `NoOrphan`, `RowsPurgedOnce`, `PurgeForgetsOnlyErased`, refinement of `ErasureContract` and, per layer, of the port |
| `orch_open` | an erasure, a preview, ingest and cognify going on, an id that may be malformed, 1 fault, stores that answer | `ReceiptClearsStores`; `EveryCallEnds`; the layers keep the port, the preview without effect |
| `orch_live` | 2 erasures of a subject, ingest going on, an id that may be malformed, 1 fault; the vector store, the log and the ledger may each be silent, the log's client has a timeout | `EveryCallEnds`; where none is silent, a requested erasure ends with a receipt, or is blocked by the malformed id |
| `orch_race` | 1 erasure, 1 record, ingest going on, no fault | **violated**: `PurgeForgetsOnlyErased` |
| `tz_erase` | 2 erases of alice beside traffic about her, an inference, its body and feedback; rows and a preview of bob; 1 fault | own rows only; done means gone; bodies are stranded only if they or their inference came too late; counts cover removals; a retry completes; the port is kept, the preview without effect |
| `tz_counts` | 2 erases | **violated**: `CountsAreRemovals` |
| `cognee_erase` | 3 erases, a dry run, 4 texts sharing two entities, added and cognified at any time, 1 fault | done means forgotten; tags reach the text; deletions add up; the port is kept |
| `cognee_shared` | 1 erase, 2 texts | **violated**: `OnlyOwnNodesDeleted` |
| `pool` | each of the three clients, 4 users, 2 closers, 2 faults | no orphaned pool; no dead pool; every caller ends |
| `subject_tags` | 2 tasks, 2 generators, 3 open blocks or tagged calls | innermost block rules, tenant and policy included |
| `receipt_verify` | 2 receipts, 2 key pairs, 1 file with up to 3 changes, 2 values of every signed field | only issued receipts verify, issued ones stay verifiable, key files match |
| `receipt_raw` | 2 layers, one of which names the subject | **violated**: `NoRawSubject` |

*Bounds.* `MaxFaults` caps failures, lost answers, timeouts and cancellations; two
concurrent calls and one or two faults are what every property needs to fail in
its faulty variant. Two layers cover both kinds of adapter (by lineage, by tag).
In `TensorZeroLog` one inference table and one feedback table stand for two and
four that are treated alike; bob's rows are there from the start (`Seed`), alice's
arrive at any time, during an erase too, the body apart from its inference. Three changes
(`MaxChanges`) are enough to make any one field of one receipt another's together with
its hash and signature. `orch_live` needs no rows in the log: nothing that ends a call
depends on them. The `pool` run has a pool for every user.
`MaxOpen` lets blocks nest in a task and in a generator it runs, with a third
elsewhere. Calls are
finite in number, so the systems stop: deadlock is not checked.

*Fairness.* The event loop runs what is ready, so each step a coroutine can take is
weakly fair. A store that is not `silent` answers: the statement somebody waits for is
weakly fair; statements nobody waits for are not. A silent store may or may not
answer; the client's timeout, where there is one, is weakly fair. So `EveryCallEnds`
does not assume that Postgres or Neo4j answer. It says that a call that never ends is
from some time on waiting for a silent store without a timeout, every other adapter
having given its result. `RequestHonoured` does assume that stores answer
(`silent = {}`): nothing helps a retry past a store that never does. `RetryCompletes` is about ClickHouse, whose client gives up; `EveryCallerEnds`
assumes that the work done on a borrowed connection ends, and that connects and
closes do. Faults are never fair and there are finitely many. `RequestHonoured` and
`RetryCompletes` also assume the operator who retries (SPEC.md, failure semantics),
expressed as fairness of a new call while the subject has no receipt.

*Assumptions and exceptions.* Only `orch_safety` assumes quiescence (`Quiesced`);
without it `orch_race` shows what goes wrong. Everywhere else traffic goes on, and
where the code loses something, the property names the one way it can:

- `StrandedOnlyByRace`, `RetryCompletes`: a body stays without its inference if the
  one or the other arrived between the id query of an erase and its end, or while a
  delete of the subject's inferences that an erase gave up on was still to come, or,
  the body, when its inference had gone;
- `ReceiptClearsStores`: a traced text that was not in the graph yet at the lookup may
  be put there by a later cognify;
- `EveryCallEnds`: a store that is silent for good, to a client without a timeout;
- `DoneMeansForgotten`: a text cognified after the delete brings its subject back,
  also if it was added before;
- `NoOrphan`: a writer that dies, or whose `record` raises, between its two writes
  leaves an untraced row;
- `RequestHonoured`: an id the store cannot cast blocks its subject's erasure;
- `NoOrphanedPool`: overlapping calls of `close` can drop a pool opened in between
  (from the first overlap on the property says nothing);
- `NoDeadPool`: a `close` that raises leaves its closed pool in the attribute;
- `InnermostBlockRules`: a generator that pauses inside a block leaks it into the
  task that runs it.

Each exception is tied to its event, mostly by a history variable, so the property
fails for every other cause; `NoOrphanedPool`'s is wider than the event, as said.
`PairMatches` speaks of generations of keys that were not interrupted, and so says
nothing about a crash in one. `DeletionsAddUp` is about the totals of a graph erase;
its per-class counts, made before the delete, are in no property.

## Where the code and its documentation part

1. `orch_race`. `erase` purges every ledger row of the subject, those recorded
   after its lookup included (`orchestrator.py:104`, `:118`). An embedding
   written meanwhile stays, and nothing traces it any more. SPEC.md promises all
   rows traced are removed and that a retry can resolve the subject.
2. `tz_counts`. Counts are queried before the deletes; two concurrent erases both
   report the same rows, while `tensorzero_log.py:25` says counts reflect what
   the operation removed.
3. `cognee_shared`. An entity node two subjects' texts mention carries both tags and is
   deleted with the first; SPEC.md says only what is subject-only is.
4. `receipt_raw`. The graph adapter's method text quotes `subject::<id>`; it is
   copied into the signed receipt, where `receipt.py:5` says the raw subject never
   appears.

Not a run of its own: `errors.py:27` says `ConfigurationError` is raised at
construction, not during an erasure, while a missing or unreadable signing key
raises it after the ledger was purged (`SignFails`; a file without a key in it raises
`ValueError` there).

## What is proved

The six `*_proofs` modules prove every invariant and every action or refinement
property of the passing runs, each for all values of the constants that satisfy
the module's named assumptions. No property is inductive by itself; each module
strengthens it with the parts named below, whose conjunction is inductive. `TypeOK`
is the theorem `TypeCorrect` in every module.

### Orchestrator_proofs

From `ConstantsAssumption`: each record has a subject and a layer, there is at least
one adapter, erasures are not previews, a `Deferred` layer is none that deletes by
lineage, and only lineage layers have ids that fail to cast.

| Theorem | States | Assumes |
|---|---|---|
| `ReceiptClears` | `[]ReceiptClearsStores` | |
| `TypeCorrect` | `[]TypeOK`: types, and the grounds of what callers are told | |
| `LayersWithinPort` | `LayersKeepPort` | |
| `NothingOrphaned` | `[]NoOrphan`, its exception included | `Quiesced` |
| `PurgesAreDisjoint` | `[]RowsPurgedOnce` | `Quiesced` |
| `ReceiptIsTrue` | `[]ReceiptAttests` | `Quiesced` |
| `PurgeIsLast` | `PurgeForgetsOnlyErased` | `Quiesced` |
| `KeepsContract` | `ImplementsContract` | `Quiesced` |
| `RetryFindsTheRest` | what an erasure looked up is traced while a layer holds it | `Quiesced` |

`Outcomes`, a part of `TypeOK`, ties what a call is told to its adapters' results: in
`purge`, `sign` and `receipt` every result is `ok`. `Protocol` adds that a result is
`ok` only if the statement is `done`, and that no row is pending that a lookup found
in its layer. `Erasing` says what a statement that is `done` has achieved: the rows
of its target are gone, and stay gone because ids are not reused. All three hold with
ingest going on, and give `ReceiptClears`. `Inv` is their conjunction. `Tracing` is
about the ledger and needs `Quiesced`: what an erasure looked up is not pending, the
rows of its subject that are alive were traced when it looked up, so each row its
purge drops was in a target; a row a purge has dropped is alive nowhere and cannot be
recorded again.
The refinement follows step by step: most actions are `Drop`, `Write`, `Trace` or a
stutter; `Purge` is `Forget`, `Sign` is `Certify`, a failed purge that committed is
`Forget` with a refusal. `RetryFindsTheRest` is proved of `ErasureContract` and
carried over by the refinement. For `LayersWithinPort` a step of an operation is
seen from one layer at a time: it takes up, removes, confirms, raises, or leaves
the layer alone.

### TensorZeroLog_proofs

From `TablesAssumption` (no tag-scoped table is listed twice, a body belongs to an
inference of its subject; in which order they come is left open) and
`CallsAssumption`. Any number of inference and feedback tables, so the two that the
runs use stand for all.

| Theorem | States |
|---|---|
| `OwnRows` | `[]OwnRowsOnly`: a call counts and removes rows of its subject only |
| `CountsCover` | `[]CountsCoverRemovals`: the receipt's counts include all that was there and went |
| `DoneIsGone` | `[]DoneMeansGone`: a confirmed erase leaves none of the rows it took up |
| `OnlyRacesStrand` | `[]StrandedOnlyByRace`: a body without its inference, or its inference, came too late |
| `KeepsPort` | `ImplementsPort` |

`TypeCorrect` needs `InPlan`: a delete is at a statement of its plan. `Frozen`: the
ids a call froze cover all bodies it took up, and all inferences of its subject but
those that came too late for it. `Counting`: a count past a table has the rows the
call took up there. `Deleting`: a delete past a table has left none of them in it,
and past the cascade only bodies that came meanwhile; bodies go first. `Bodies`: no
step so far, and no mutation still pending, removes an inference and leaves a body of
it, unless one of the two came too late. A row that arrives while such a mutation is
pending, before or after the server took it up, counts as late.
### CogneeGraph_proofs

From `GraphAssumption`; a text mentions finitely many entities and there are
finitely many calls, so that nodes and counts can be added up.

| Theorem | States |
|---|---|
| `Reachable` | `[]TextIsReachable`: what is in the graph of a tagged text bears its tag |
| `DoneIsForgotten` | `[]DoneMeansForgotten` |
| `CountsAddUp` | `[]DeletionsAddUp` |
| `KeepsPort` | `ImplementsPort`, over the chunks |

`Placing`: the graph is finite, and a chunk bears no tag but its own text's.
`Calling`: a call counted only chunks of its subject that were materialized.
`Reporting`: a call reports nothing before its delete. `DeletionsAddUp` adds over the
calls with `MapThenSumSet`, which is defined by recursion on subsets; `Sums` proves
what is needed of it. That the recursion has a solution, and that a change
at one element changes the total by as much, follow from a smallest counterexample
(`SmallestSubset`), since the induction theorems of the library do not apply here.

### PoolLifecycle_proofs

From `LifecycleAssumption`: finitely many users and at least as many pools (each
user makes at most one).

| Theorem | States |
|---|---|
| `NothingOrphaned` | `[]NoOrphanedPool`: a pool that is open or closing is the attribute's, overlapping closes excepted |
| `NothingDead` | `[]NoDeadPool`: the attribute never holds a closed pool, a torn close excepted |

`Locking`: who holds the lock found the attribute empty, it stays empty, and nobody
else can be creating; the queue holds each waiting user once. `Closings`: a pool
that closes is some closer's, and the adapter's unless two closes overlapped.
`Making`: fewer pools were made than users are past making one, so a pool is left.

### SubjectContext_proofs

From `ContextAssumption`, for any number of tasks, generators and open blocks.

| Theorem | States |
|---|---|
| `InnermostRules` | `[]InnermostBlockRules` |

`Apart`: no two tasks execute one frame, so only a task changes the blocks around
it. `Nested`: in a task no generator leaked into, each block keeps in its token what
was in force when it was entered (`Under`), and the token is of the task that will
leave it. So leaving a block gives back what is in force outside it
(`ChainShortened`).

### Receipts_proofs

From `ReceiptsAssumption`: the default hint and UTC are among the hints and zones,
and the value that stands for garbage is no signature. Any number of receipts.

| Theorem | States |
|---|---|
| `OnlyGenuine` | `[]OnlyIssuedVerifies` |
| `GenuineVerifies` | `[]IssuedVerifies` |
| `FilesMatch` | `[]PairMatches` |

`Sealed`: an issued receipt carries the digest of its manifest and the signature of
that digest, and a file has no signature but those, whatever is changed. `Paired`: outside a key
generation, unless one was interrupted, the two key files hold the same pair. That
digests and signatures cannot be forged is built into the model (a digest is its
manifest, a signature its key and digest); it is assumed, not proved.

### Only model-checked

Liveness: `EveryCallEnds`, `RequestHonoured`, `RetryCompletes` and `EveryCallerEnds`
are about fairness, which the prover does not handle. The four violations are
counterexamples and have no theorem.

## Not modelled

The TensorZero wrapper, CLI and demo are stubs. `Scope.DATASET` is ignored by every
adapter. `lookup_by_framework` and `count` are not called by the source. The
`erasure_log` table is never written. PEM parsing, file modes, JSON text and SQL
text are below the abstraction. Retention by Neo4j, Postgres and ClickHouse of
deleted data is outside the system.

## Plan

Done: (1) the orchestrator with ledger and layers, its contract and proofs; (2) the
adapter with the cascade; (3) the graph; (4) pool, subject context, receipts;
(5) the port, with the adapters and the layers refining it; (6) the proofs of all
safety properties. Next:

- what the port promises its callers (confirmed rows stay gone) as a theorem about
  `StoreAdapter`, from which the adapters' own follow by refinement;
- a composition of `SubjectContext` with ingest into `Orchestrator`, so that a row's
  subject comes from the context rather than from a constant;
- `TensorZeroLog` as one layer of `Orchestrator`: `ApplyPart` and `Apply` refined by
  the statement-by-statement model.
