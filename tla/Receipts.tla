------------------------------ MODULE Receipts ------------------------------
(***************************************************************************)
(* Deletion receipts: what the orchestrator puts into one, what the signer *)
(* covers, what a verifier concludes from a file that was stored, loaded,  *)
(* edited or spliced, and the key files that generate_keypair replaces     *)
(* beside it.  SHA-256 is injective here, so a digest is the manifest it   *)
(* was taken of; an Ed25519 signature is a key and a digest.               *)
(***************************************************************************)
EXTENDS Naturals, FiniteSets

CONSTANTS
    Subjects,
    Layers,       \* kinds of the registered adapters
    Counts,       \* values of a count
    Terms,        \* version, salt hash, operator and clauses, taken together
    OurTerms,     \* those of the deployment that signs
    Instants,
    Zones, UTC,   \* zones a timestamp may be given in
    Hints,        \* values of verification_hint
    DefaultHint,  \* the one build() leaves
    Keys,         \* key pairs, one per call of generate_keypair
    Garbage,      \* a field that holds no digest and no signature
    MaxReceipts,  \* bound on receipts signed
    MaxChanges    \* bound on the changes made to one file

Manifests ==
    [subject : Subjects,
     terms   : Terms,
     stores  : [Layers -> [count : Counts, names : SUBSET Subjects]],
     time    : Instants]

ASSUME ReceiptsAssumption ==
    /\ UTC \in Zones
    /\ OurTerms \in Terms
    /\ DefaultHint \in Hints
    /\ Garbage \notin [key : Keys, digest : Manifests]
    /\ MaxReceipts \in Nat
    /\ MaxChanges \in Nat

VARIABLES
    private,  \* the private key file: "absent", "empty" or a key
    public,   \* the public key file: likewise
    keygen,   \* the call of generate_keypair in progress, and its next step
    broken,   \* TRUE once a call was interrupted
    issued,   \* receipts sign() returned, with the key it used
    file,     \* the receipt a verifier holds, or Garbage
    changes   \* changes made to it

vars == <<private, public, keygen, broken, issued, file, changes>>

Idle == [key |-> Garbage, step |-> "none"]

Init ==
    /\ private = "absent" /\ public = "absent"
    /\ keygen = Idle
    /\ broken = FALSE
    /\ issued = {}
    /\ file = Garbage /\ changes = 0
-----------------------------------------------------------------------------
(* generate_keypair: truncate the private file, write it, then the public
   file likewise.                                                        *)

Used == {i.key : i \in issued} \cup {private, public, keygen.key}

OpenPrivate(k) ==
    /\ keygen = Idle
    /\ k \notin Used
    /\ private' = "empty"
    /\ keygen' = [key |-> k, step |-> "private"]
    /\ UNCHANGED <<public, broken, issued, file, changes>>

WritePrivate ==
    /\ keygen.step = "private"
    /\ private' = keygen.key
    /\ keygen' = [keygen EXCEPT !.step = "public"]
    /\ UNCHANGED <<public, broken, issued, file, changes>>

(* Faulty: an existing public key file is kept. *)
KeepPublic ==
    /\ keygen.step = "public"
    /\ public' = IF public = "absent" THEN "empty" ELSE public
    /\ keygen' = IF public = "absent" THEN [keygen EXCEPT !.step = "writing"] ELSE Idle
    /\ UNCHANGED <<private, broken, issued, file, changes>>

OpenPublic ==
    /\ keygen.step = "public"
    /\ public' = "empty"
    /\ keygen' = [keygen EXCEPT !.step = "writing"]
    /\ UNCHANGED <<private, broken, issued, file, changes>>

WritePublic ==
    /\ keygen.step = "writing"
    /\ public' = keygen.key
    /\ keygen' = Idle
    /\ UNCHANGED <<private, broken, issued, file, changes>>

(* The process dies, or a write fails. *)
Interrupt ==
    /\ keygen # Idle
    /\ keygen' = Idle
    /\ broken' = TRUE
    /\ UNCHANGED <<private, public, issued, file, changes>>
-----------------------------------------------------------------------------
(* Building and signing. *)

(* The method text of the graph adapter quotes the NodeSet tag, which is
   made of the subject; those of the vector and log adapters do not.     *)
Named(layer, s) == IF layer = "graph" THEN {s} ELSE {}

(* Faulty: the canonical manifest leaves issued_at out, takes the hint in,
   or the timestamp in the zone it was given in.                         *)
ManifestWithoutTime(r) == [subject |-> r.subject, terms |-> r.terms, stores |-> r.stores]

ManifestWithHint(r) ==
    [subject |-> r.subject, terms |-> r.terms, stores |-> r.stores, time |-> r.time,
     hint |-> r.hint]

ManifestWithZone(r) ==
    [subject |-> r.subject, terms |-> r.terms, stores |-> r.stores,
     time |-> <<r.time, r.zone>>]

(* canonical_manifest: the timestamp as its instant, whatever its zone;
   hash, signature and hint excluded.                                    *)
Manifest(r) ==
    [subject |-> r.subject, terms |-> r.terms, stores |-> r.stores, time |-> r.time]

(* Receipt.build of one erasure, with n rows counted in every layer; subject
   is the salted hash.                                                   *)
Build(s, n, time, zone) ==
    [subject |-> s, terms |-> OurTerms,
     stores  |-> [layer \in Layers |-> [count |-> n, names |-> Named(layer, s)]],
     time |-> time, zone |-> zone, hint |-> DefaultHint,
     hash |-> Garbage, sig |-> Garbage]

Signed(r, k) ==
    [r EXCEPT !.hash = Manifest(r), !.sig = [key |-> k, digest |-> Manifest(r)]]

Sign(s, n, time, zone) ==
    /\ private \in Keys
    /\ Cardinality(issued) < MaxReceipts
    /\ issued' = issued \cup
          {[receipt |-> Signed(Build(s, n, time, zone), private), key |-> private]}
    /\ UNCHANGED <<private, public, keygen, broken, file, changes>>

(* The verifier is handed a receipt, or stores and loads the one it has:
   from_json(to_json(r)) brings the timestamp back in UTC.               *)
Load ==
    /\ \/ \E i \in issued : file' = i.receipt /\ changes' = 0
       \/ file # Garbage /\ file' = [file EXCEPT !.zone = UTC] /\ UNCHANGED changes
    /\ UNCHANGED <<private, public, keygen, broken, issued>>

(* What may become of a file: a field changes, another receipt's hash and
   signature are spliced in, or the hash is made to match the changed body. *)
Changes(r) ==
    {[r EXCEPT !.hint = h] : h \in Hints}
    \cup {[r EXCEPT !.subject = s] : s \in Subjects}
    \cup {[r EXCEPT !.terms = d] : d \in Terms}
    \cup {[r EXCEPT !.time = t] : t \in Instants}
    \cup {[r EXCEPT !.stores[l].count = n] : l \in Layers, n \in Counts}
    \cup {[r EXCEPT !.stores[l].names = N] : l \in Layers, N \in SUBSET Subjects}
    \cup {[r EXCEPT !.hash = Garbage], [r EXCEPT !.sig = Garbage], [r EXCEPT !.hash = Manifest(r)]}
    \cup {[r EXCEPT !.hash = i.receipt.hash, !.sig = i.receipt.sig] : i \in issued}

Change ==
    /\ file # Garbage /\ changes < MaxChanges
    /\ file' \in Changes(file)
    /\ changes' = changes + 1
    /\ UNCHANGED <<private, public, keygen, broken, issued>>
-----------------------------------------------------------------------------
(* verify. *)

(* Faulty: the signature is checked against the stored hash alone. *)
VerifyStoredHash(r) ==
    CASE r.sig = Garbage -> "invalid"
      [] r.sig # Garbage /\ public \notin Keys -> "ConfigurationError"
      [] r.sig # Garbage /\ public \in Keys ->
            IF r.sig = [key |-> public, digest |-> r.hash] THEN "valid" ELSE "invalid"

Verify(r) ==
    CASE r.hash # Manifest(r) \/ r.sig = Garbage -> "invalid"
      [] r.hash = Manifest(r) /\ r.sig # Garbage /\ public \notin Keys -> "ConfigurationError"
      [] r.hash = Manifest(r) /\ r.sig # Garbage /\ public \in Keys ->
            IF r.sig = [key |-> public, digest |-> Manifest(r)] THEN "valid" ELSE "invalid"
-----------------------------------------------------------------------------
Next ==
    \/ \E k \in Keys : OpenPrivate(k)
    \/ WritePrivate \/ OpenPublic \/ WritePublic \/ Interrupt
    \/ \E s \in Subjects, n \in Counts, t \in Instants, z \in Zones :
          Sign(s, n, t, z)
    \/ Load \/ Change

Spec == Init /\ [][Next]_vars
-----------------------------------------------------------------------------
(* Properties. *)

SameBody(r, o) ==
    /\ r.subject = o.subject /\ r.terms = o.terms
    /\ r.stores = o.stores /\ r.time = o.time

(* Types; whatever is done to the files, a stored hash is the digest of the
   seven signed fields and of nothing else.                              *)
TypeOK ==
    /\ private \in {"absent", "empty"} \cup Keys
    /\ public \in {"absent", "empty"} \cup Keys
    /\ keygen = Idle \/ keygen \in [key : Keys, step : {"private", "public", "writing"}]
    /\ broken \in BOOLEAN
    /\ changes \in 0..MaxChanges
    /\ \A i \in issued : i.key \in Keys /\ i.receipt.sig.key = i.key
    /\ \A r \in ({file} \ {Garbage}) \cup {i.receipt : i \in issued} :
          /\ Manifest(r) \in Manifests
          /\ r.hash \in Manifests \cup {Garbage}
          /\ r.zone \in Zones /\ r.hint \in Hints

(* A file that verifies says, in every signed field, what a receipt said
   that was signed with this key: no edit, splice of another receipt's
   signature or recomputed hash is taken for genuine.                    *)
OnlyIssuedVerifies ==
    file # Garbage /\ Verify(file) = "valid" =>
        \E i \in issued : i.key = public /\ SameBody(file, i.receipt)

(* A receipt stays verifiable under its key through storing, loading and
   changes of the unsigned hint, in whatever zone it was issued.         *)
IssuedVerifies ==
    \A i \in issued :
        /\ file # Garbage
        /\ SameBody(file, i.receipt)
        /\ file.hash = i.receipt.hash /\ file.sig = i.receipt.sig
        /\ public = i.key
        => Verify(file) = "valid"

(* When no key generation is under way and none was interrupted, what the
   private key file signs verifies under the public key file beside it,
   also after a new pair was generated over the old one.                 *)
PairMatches ==
    ~broken /\ keygen = Idle =>
        \A i \in issued : i.key = private => Verify(i.receipt) = "valid"

(* "The raw subject identifier never appears in a receipt" (receipt.py). *)
NoRawSubject ==
    \A i \in issued : \A l \in Layers : i.receipt.stores[l].names = {}
=============================================================================
