--------------------------- MODULE SubjectContext ---------------------------
(***************************************************************************)
(* Whom a write is attributed to: the context variables of vismaran_sdk    *)
(* under asyncio.  Each task has a context of its own, copied from its     *)
(* creator's.  with_subject binds the variables on entry and gives them    *)
(* back, through the tokens it kept, on exit (tenant stands for policy     *)
(* too).  A generator has no context: its body runs in the context of      *)
(* whichever task asks for its next item, and between two items its blocks *)
(* stay open.                                                              *)
(***************************************************************************)
EXTENDS Naturals, Sequences, SequencesExt, FiniteSetsExt

CONSTANTS
    Tasks, Main,   \* Main is the task that runs first
    Gens,          \* generators whose body may hold a with_subject block
    Subjects, Tenants,
    None,
    Bindings,      \* what with_subject is called with
    MaxOpen        \* bound on the blocks open at one time

Frames == Tasks \cup Gens

Unbound == [subject |-> None, tenant |-> None]

ASSUME ContextAssumption ==
    /\ Main \in Tasks
    /\ Tasks \cap Gens = {}
    /\ None \notin Subjects \cup Tenants
    /\ Bindings \subseteq [subject : Subjects, tenant : Tenants \cup {None}]
    /\ None \notin Bindings \cup {Unbound}
    /\ MaxOpen \in Nat

VARIABLES
    born,     \* tasks created so far
    ctx,      \* the context variables of each task
    running,  \* the frame each task is executing: its own, or a generator
    blocks,   \* the open blocks of each frame, innermost last
    heir,     \* the binding in force where a task was created
    leaked    \* tasks in whose context a generator ever paused inside a
              \* block, or resumed with one, and the tasks they created

vars == <<born, ctx, running, blocks, heir, leaked>>

Init ==
    /\ born = {Main}
    /\ ctx = [t \in Tasks |-> Unbound]
    /\ running = [t \in Tasks |-> t]
    /\ blocks = [f \in Frames |-> <<>>]
    /\ heir = [t \in Tasks |-> Unbound]
    /\ leaked = {}

(* The blocks that bind: all but the bodies tag_subject cannot reach. *)
Binding(f) == {i \in DOMAIN blocks[f] : ~blocks[f][i].late}

Innermost(f) == blocks[f][Max(Binding(f))].bound

(* The binding a reader of the program expects where task t is executing:
   that of the innermost block around, in the generator it runs, else in
   its own code, else where the task was created.                        *)
InForce(t) ==
    IF Binding(running[t]) # {} THEN Innermost(running[t])
    ELSE IF Binding(t) # {} THEN Innermost(t)
    ELSE heir[t]
-----------------------------------------------------------------------------
(* with_subject, sync_with_subject, and the calls tag_subject wraps. *)

Bind(t, b) == ctx' = [ctx EXCEPT ![t] = b]

OpenBlocks == MapThenSumSet(LAMBDA f : Len(blocks[f]), Frames)

Open(t, block) ==
    LET f == running[t] IN
    /\ t \in born
    /\ OpenBlocks < MaxOpen
    /\ blocks' = [blocks EXCEPT ![f] = Append(@, block)]
    /\ UNCHANGED <<born, running, heir, leaked>>

Enter(t, b) ==
    /\ Bind(t, b)
    /\ Open(t, [bound |-> b, token |-> ctx[t], home |-> t, late |-> FALSE])

(* What tag_subject decorates: a coroutine function, a plain one, or one
   whose call only makes the object that runs the body later (a generator,
   an async generator, an awaitable).                                    *)
Kinds == {"coroutine", "plain", "late"}

(* Faulty: iscoroutinefunction is not asked. *)
NeverAsync(k) == FALSE

AsyncWrapper(k) == k = "coroutine"

(* async_wrapper awaits the call inside its block; sync_wrapper leaves the
   block when the call returns, with the body of a plain function behind
   it, and the others' still to run.                                     *)
RunsInside(k) == AsyncWrapper(k) \/ k = "plain"

(* The body of a call with the keyword, which binds no tenant; without the
   keyword the call runs as it is.                                       *)
CallTagged(t) ==
    \E b \in Bindings, k \in Kinds :
        /\ b.tenant = None
        /\ \/ RunsInside(k) /\ Enter(t, b)
           \/ /\ ~RunsInside(k)
              /\ Open(t, [bound |-> b, token |-> None, home |-> t, late |-> k = "late"])
              /\ UNCHANGED ctx

(* Faulty: the tenant token is forgotten. *)
UnbindSubjectOnly(t, block) ==
    ctx' = IF block.home = t /\ block.token # None
             THEN [ctx EXCEPT ![t].subject = block.token.subject] ELSE ctx

(* Faulty: exit clears the variables. *)
UnbindToNone(t, block) == ctx' = [ctx EXCEPT ![t] = Unbound]

(* reset() refuses a token made in another context: ValueError, and none
   of the three variables changes.                                       *)
Unbind(t, block) ==
    ctx' = IF block.home = t /\ block.token # None
             THEN [ctx EXCEPT ![t] = block.token] ELSE ctx

(* The end of the block, by return, exception or cancellation. *)
Exit(t) ==
    LET f == running[t] IN
    /\ t \in born
    /\ blocks[f] # <<>>
    /\ Unbind(t, Last(blocks[f]))
    /\ blocks' = [blocks EXCEPT ![f] = Front(@)]
    /\ UNCHANGED <<born, running, heir, leaked>>
-----------------------------------------------------------------------------
(* Tasks and generators. *)

(* Faulty: a task starts from an empty context. *)
SpawnFresh(t, u) ==
    /\ t \in born /\ u \notin born
    /\ born' = born \cup {u}
    /\ heir' = [heir EXCEPT ![u] = InForce(t)]
    /\ leaked' = IF t \in leaked THEN leaked \cup {u} ELSE leaked
    /\ UNCHANGED <<ctx, running, blocks>>

(* create_task and gather copy the current context. *)
Spawn(t, u) ==
    /\ t \in born /\ u \notin born
    /\ born' = born \cup {u}
    /\ ctx' = [ctx EXCEPT ![u] = ctx[t]]
    /\ heir' = [heir EXCEPT ![u] = InForce(t)]
    /\ leaked' = IF t \in leaked THEN leaked \cup {u} ELSE leaked
    /\ UNCHANGED <<running, blocks>>

Executing(g) == \E t \in Tasks : running[t] = g

Resume(t, g) ==
    /\ t \in born /\ running[t] = t
    /\ ~Executing(g)
    /\ running' = [running EXCEPT ![t] = g]
    /\ leaked' = IF blocks[g] = <<>> THEN leaked ELSE leaked \cup {t}
    /\ UNCHANGED <<born, ctx, blocks, heir>>

Yield(t) ==
    /\ running[t] \in Gens
    /\ running' = [running EXCEPT ![t] = t]
    /\ leaked' = IF blocks[running[t]] = <<>> THEN leaked ELSE leaked \cup {t}
    /\ UNCHANGED <<born, ctx, blocks, heir>>
-----------------------------------------------------------------------------
Step(t) ==
    \/ \E b \in Bindings : Enter(t, b)
    \/ CallTagged(t)
    \/ Exit(t) \/ Yield(t)
    \/ \E u \in Tasks : Spawn(t, u)
    \/ \E g \in Gens : Resume(t, g)

Next == \E t \in Tasks : Step(t)

Spec == Init /\ [][Next]_vars
-----------------------------------------------------------------------------
(* Properties. *)

Blocks == [bound : Bindings, token : Bindings \cup {Unbound, None},
           home : Tasks, late : BOOLEAN]

(* Types; no tenant or policy is ever bound without a subject. *)
TypeOK ==
    /\ Main \in born /\ born \subseteq Tasks
    /\ leaked \subseteq born
    /\ ctx \in [Tasks -> Bindings \cup {Unbound}]
    /\ heir \in [Tasks -> Bindings \cup {Unbound}]
    /\ running \in [Tasks -> Frames]
    /\ \A t \in Tasks : running[t] \in {t} \cup Gens
    /\ blocks \in [Frames -> Seq(Blocks)]
    /\ \A f \in Frames : \A i \in DOMAIN blocks[f] : blocks[f][i].home \in born

(* current_subject() is the innermost block's subject around the caller,
   its creator's for a task without blocks and None outside any block,
   whatever other tasks do at the same time, and its tenant and policy are
   that block's too; for a call tag_subject wraps, they are the keyword's,
   if the body is a coroutine's or runs before the call returns, and else
   what is in force where the body runs.  The only tasks excepted are those
   that ran a generator paused inside a block, and what they created.    *)
InnermostBlockRules == \A t \in born \ leaked : ctx[t] = InForce(t)
=============================================================================
