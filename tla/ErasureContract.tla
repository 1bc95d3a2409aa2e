-------------------------- MODULE ErasureContract --------------------------
(***************************************************************************)
(* What an erasure promises, whatever runs it.  Rows about data subjects   *)
(* are held by the memory layers and traced by a ledger; an erasure opens  *)
(* a scope (the rows the ledger traces to its subject) and ends with a     *)
(* receipt or is refused.  The ledger forgets a row only when no layer     *)
(* holds it any more, and a receipt is issued only when no row of its      *)
(* scope is held or traced.                                                *)
(***************************************************************************)
CONSTANTS Records, Subjects, SubjectOf, EraseOps

VARIABLES held,     \* rows some memory layer holds
          traced,   \* rows the provenance ledger traces
          scope,    \* rows an erasure has undertaken to erase
          verdict   \* what its caller has been told

cvars == <<held, traced, scope, verdict>>

Init ==
    /\ held = {}
    /\ traced = {}
    /\ scope = [o \in EraseOps |-> {}]
    /\ verdict = [o \in EraseOps |-> "pending"]

InNoScope(r) == \A o \in EraseOps : r \notin scope[o]

(* The agent stores a row; ids are never reused. *)
Write(r) ==
    /\ r \notin held
    /\ InNoScope(r)
    /\ held' = held \cup {r}
    /\ UNCHANGED <<traced, scope, verdict>>

(* Writes are traced, before any erasure has taken the rows up. *)
Trace(R) ==
    /\ \A r \in R : InNoScope(r)
    /\ traced' = traced \cup R
    /\ UNCHANGED <<held, scope, verdict>>

(* An erasure takes up everything traced to one subject. *)
Open(o, s) ==
    /\ verdict[o] = "pending"
    /\ scope[o] = {}
    /\ scope' = [scope EXCEPT ![o] = {r \in traced : SubjectOf[r] = s}]
    /\ UNCHANGED <<held, traced, verdict>>

(* The memory layers drop rows. *)
Drop ==
    /\ held' \in SUBSET held
    /\ UNCHANGED <<traced, scope, verdict>>

(* The ledger forgets rows, none of which is held, perhaps as an erasure
   of theirs is refused (the answer to the purge was lost).              *)
Forget ==
    /\ traced' \in SUBSET traced
    /\ held \cap (traced \ traced') = {}
    /\ UNCHANGED <<held, scope>>
    /\ \/ UNCHANGED verdict
       \/ \E o \in EraseOps :
             /\ verdict[o] = "pending"
             /\ verdict' = [verdict EXCEPT ![o] = "refused"]

Certify(o) ==
    /\ verdict[o] = "pending"
    /\ scope[o] \cap (held \cup traced) = {}
    /\ verdict' = [verdict EXCEPT ![o] = "receipt"]
    /\ UNCHANGED <<held, traced, scope>>

Refuse(o) ==
    /\ verdict[o] = "pending"
    /\ verdict' = [verdict EXCEPT ![o] = "refused"]
    /\ UNCHANGED <<held, traced, scope>>

Next ==
    \/ \E r \in Records : Write(r)
    \/ \E R \in SUBSET Records : Trace(R)
    \/ \E o \in EraseOps, s \in Subjects : Open(o, s)
    \/ Drop \/ Forget
    \/ \E o \in EraseOps : Certify(o) \/ Refuse(o)

Spec == Init /\ [][Next]_cvars
=============================================================================
