---------------------------- MODULE StoreAdapter ----------------------------
(***************************************************************************)
(* The port every memory-layer adapter implements, as its callers rely on  *)
(* it: one layer's rows, and calls of preview and erase over them.  A call *)
(* takes up the rows it can trace to its subject; while it runs, and after *)
(* it failed, rows of that subject may go; it confirms only when all it    *)
(* took up are gone.  A dry run removes nothing.                           *)
(***************************************************************************)
CONSTANTS
    Rows,
    SubjectOf,
    Calls,
    DryRuns     \* calls of preview(), or of erase() in Mode.DRY_RUN

VARIABLES
    held,       \* the rows of the layer
    reach,      \* rows the adapter can trace to their subject
    subject,    \* the subject of each call
    base,       \* the rows a call took up
    phase       \* "waiting", "running", "done" or "failed"

OfSubject(c, R) == {r \in R : SubjectOf[r] = subject[c]}

Init ==
    /\ held \subseteq Rows
    /\ base = [c \in Calls |-> {}]
    /\ phase = [c \in Calls |-> "waiting"]

(* The agent stores rows; no call has taken them up, for none comes back. *)
Store ==
    /\ held \subseteq held'
    /\ \A c \in Calls : (held' \ held) \cap base[c] = {}
    /\ UNCHANGED <<subject, base, phase>>

TakeUp(c) ==
    /\ phase[c] = "waiting"
    /\ base' = [base EXCEPT ![c] = OfSubject(c, reach)]
    /\ \/ phase' = [phase EXCEPT ![c] = "running"]
       \/ c \in DryRuns /\ phase' = [phase EXCEPT ![c] = "done"]
    /\ UNCHANGED <<held, subject>>

(* What a call removes is its subject's; preview MUST NOT mutate. *)
Removes(c) ==
    /\ held' \subseteq held
    /\ held \ held' \subseteq OfSubject(c, held)
    /\ c \in DryRuns => held' = held

Remove(c) ==
    /\ phase[c] \in {"running", "failed"}
    /\ Removes(c)
    /\ UNCHANGED <<subject, base, phase>>

Confirm(c) ==
    /\ phase[c] = "running"
    /\ Removes(c)
    /\ c \notin DryRuns => base[c] \cap held' = {}
    /\ phase' = [phase EXCEPT ![c] = "done"]
    /\ UNCHANGED <<subject, base>>

(* Adapters raise on failure, with or without effect. *)
Raise(c) ==
    /\ phase[c] \in {"waiting", "running"}
    /\ Removes(c)
    /\ phase' = [phase EXCEPT ![c] = "failed"]
    /\ UNCHANGED <<subject, base>>

(* Tracing changes beside the calls. *)
Next ==
    \/ Store
    \/ \E c \in Calls : TakeUp(c) \/ Remove(c) \/ Confirm(c) \/ Raise(c)

Idle == UNCHANGED <<held, subject, base, phase>>

Spec == Init /\ [][Next]_<<held, subject, base, phase>>
=============================================================================
