-------------------------- MODULE Receipts_proofs --------------------------
(***************************************************************************)
(* Proofs about Receipts, for every set of subjects, layers, counts, zones *)
(* and keys, and for any number of receipts.                               *)
(*                                                                         *)
(* The argument: every signature anywhere is one that sign() made (Sealed),*)
(* of the manifest and with the key recorded beside the receipt; so what   *)
(* verifies has the body of an issued receipt.  And outside a call of      *)
(* generate_keypair, unless one was interrupted, the two key files hold    *)
(* the same pair (Paired).                                                 *)
(***************************************************************************)
EXTENDS Receipts, TLAPS

Stores == [Layers -> [count : Counts, names : SUBSET Subjects]]

Signatures == [key : Keys, digest : Manifests]

Bodies ==
    [subject : Subjects, terms : Terms, stores : Stores, time : Instants, zone : Zones, hint : Hints,
     hash : Manifests \cup {Garbage}, sig : Signatures \cup {Garbage}]

LEMMA ManifestOf == ASSUME NEW r \in Bodies PROVE Manifest(r) \in Manifests
BY DEF Bodies, Manifest, Manifests, Stores

(* A manifest determines the signed fields, and these determine it. *)
LEMMA ManifestIsBody ==
  ASSUME NEW r, NEW o
  PROVE  Manifest(r) = Manifest(o) <=> SameBody(r, o)
<1>1. ASSUME Manifest(r) = Manifest(o) PROVE SameBody(r, o)
  <2>1. /\ Manifest(r).subject = Manifest(o).subject
        /\ Manifest(r).terms = Manifest(o).terms
        /\ Manifest(r).stores = Manifest(o).stores
        /\ Manifest(r).time = Manifest(o).time
    BY <1>1
  <2> QED
    BY <2>1 DEF Manifest, SameBody
<1>2. ASSUME SameBody(r, o) PROVE Manifest(r) = Manifest(o)
  BY <1>2 DEF Manifest, SameBody
<1> QED
  BY <1>1, <1>2

Fields ==
    /\ private \in {"absent", "empty"} \cup Keys
    /\ public \in {"absent", "empty"} \cup Keys
    /\ keygen = Idle \/ keygen \in [key : Keys, step : {"private", "public", "writing"}]
    /\ broken \in BOOLEAN
    /\ changes \in 0..MaxChanges
    /\ file \in Bodies \cup {Garbage}
    /\ \A i \in issued : i.key \in Keys /\ i.receipt \in Bodies

(* An issued receipt carries the digest of its manifest and the signature of
   that digest; the file has no signature but those.                     *)
Sealed ==
    /\ \A i \in issued :
          /\ i.receipt.hash = Manifest(i.receipt)
          /\ i.receipt.sig = [key |-> i.key, digest |-> Manifest(i.receipt)]
    /\ file = Garbage \/ file.sig = Garbage
          \/ \E i \in issued : file.sig = i.receipt.sig

(* A generation under way has truncated the private file, or written it;
   else the two files hold one pair, if no generation was interrupted.   *)
Paired ==
    /\ keygen.step \in {"public", "writing"} => private = keygen.key
    /\ ~broken /\ keygen = Idle => private = public

IInv == Fields /\ Sealed /\ Paired
-----------------------------------------------------------------------------
(* A receipt that sign() returns is well formed and sealed. *)
LEMMA SignedIsSealed ==
  ASSUME NEW s \in Subjects, NEW n \in Counts, NEW time \in Instants, NEW zone \in Zones,
         NEW k \in Keys, NEW r, r = Signed(Build(s, n, time, zone), k)
  PROVE  /\ r \in Bodies
         /\ r.hash = Manifest(r)
         /\ r.sig = [key |-> k, digest |-> Manifest(r)]
<1> DEFINE b == Build(s, n, time, zone)
<1>1. b \in Bodies
  <2>1. \A layer \in Layers : Named(layer, s) \in SUBSET Subjects
    BY DEF Named
  <2> QED
    BY <2>1, ReceiptsAssumption DEF Build, Bodies, Stores
<1>2. Manifest(b) \in Manifests
  BY <1>1, ManifestOf
<1> HIDE DEF b
<1>3. r = [b EXCEPT !.hash = Manifest(b), !.sig = [key |-> k, digest |-> Manifest(b)]]
  BY DEF Signed, b
<1>4. r \in Bodies
  <2>1. [key |-> k, digest |-> Manifest(b)] \in Signatures
    BY <1>2 DEF Signatures
  <2> QED
    BY <1>1, <1>2, <1>3, <2>1 DEF Bodies
<1>5. /\ r.subject = b.subject /\ r.terms = b.terms /\ r.stores = b.stores /\ r.time = b.time
      /\ r.hash = Manifest(b) /\ r.sig = [key |-> k, digest |-> Manifest(b)]
  BY <1>1, <1>3 DEF Bodies
<1>6. Manifest(r) = Manifest(b)
  BY <1>5 DEF Manifest
<1> QED
  BY <1>4, <1>5, <1>6

(* The changes of a file, kind by kind. *)
Rehinted(r) == {[r EXCEPT !.hint = h] : h \in Hints}
Renamed(r) == {[r EXCEPT !.subject = s] : s \in Subjects}
Retermed(r) == {[r EXCEPT !.terms = d] : d \in Terms}
Redated(r) == {[r EXCEPT !.time = t] : t \in Instants}
Reworded(r) == {[r EXCEPT !.stores[l].names = N] : l \in Layers, N \in SUBSET Subjects}
Recounted(r) == {[r EXCEPT !.stores[l].count = n] : l \in Layers, n \in Counts}

Resealed(r) ==
    {[r EXCEPT !.hash = Garbage], [r EXCEPT !.sig = Garbage], [r EXCEPT !.hash = Manifest(r)]}

Spliced(r) == {[r EXCEPT !.hash = i.receipt.hash, !.sig = i.receipt.sig] : i \in issued}

LEMMA ChangesByKind ==
  ASSUME NEW r
  PROVE  Changes(r) = Rehinted(r) \cup Renamed(r) \cup Retermed(r) \cup Redated(r)
                         \cup Recounted(r) \cup Reworded(r)
                         \cup Resealed(r) \cup Spliced(r)
BY DEF Changes, Rehinted, Renamed, Retermed, Redated, Recounted, Reworded, Resealed, Spliced

(* No change makes a signature. *)
LEMMA ChangesKeepSignatures ==
  ASSUME Fields, NEW r \in Bodies, NEW c \in Changes(r)
  PROVE  /\ c \in Bodies
         /\ \/ c.sig = r.sig \/ c.sig = Garbage
            \/ \E i \in issued : c.sig = i.receipt.sig
<1>1. CASE c \in Rehinted(r)
  BY <1>1 DEF Rehinted, Bodies
<1>2. CASE c \in Renamed(r)
  BY <1>2 DEF Renamed, Bodies
<1>3. CASE c \in Recounted(r)
  <2>1. PICK l \in Layers, n \in Counts : c = [r EXCEPT !.stores[l].count = n]
    BY <1>3 DEF Recounted
  <2>2. [r.stores EXCEPT ![l].count = n] \in Stores
    BY DEF Bodies, Stores
  <2>3. c = [r EXCEPT !.stores = [r.stores EXCEPT ![l].count = n]]
    BY <2>1 DEF Bodies
  <2> QED
    BY <2>2, <2>3 DEF Bodies
<1>4. CASE c \in Resealed(r)
  <2>1. Manifest(r) \in Manifests
    BY ManifestOf
  <2> QED
    BY <1>4, <2>1 DEF Resealed, Bodies
<1>5. CASE c \in Spliced(r)
  BY <1>5 DEF Spliced, Fields, Bodies
<1>6. CASE c \in Retermed(r)
  BY <1>6 DEF Retermed, Bodies
<1>7. CASE c \in Redated(r)
  BY <1>7 DEF Redated, Bodies
<1>8. CASE c \in Reworded(r)
  <2>1. PICK l \in Layers, N \in SUBSET Subjects : c = [r EXCEPT !.stores[l].names = N]
    BY <1>8 DEF Reworded
  <2>2. [r.stores EXCEPT ![l].names = N] \in Stores
    BY DEF Bodies, Stores
  <2>3. c = [r EXCEPT !.stores = [r.stores EXCEPT ![l].names = N]]
    BY <2>1 DEF Bodies
  <2> QED
    BY <2>2, <2>3 DEF Bodies
<1> QED
  BY <1>1, <1>2, <1>3, <1>4, <1>5, <1>6, <1>7, <1>8, ChangesByKind

LEMMA InvInductive == IInv /\ [Next]_vars => IInv'
<1> SUFFICES ASSUME IInv, [Next]_vars PROVE IInv'
  OBVIOUS
<1> USE DEF IInv
<1>1. CASE UNCHANGED vars
  BY <1>1 DEF vars, Fields, Sealed, Paired
<1>2. ASSUME NEW k \in Keys, OpenPrivate(k) PROVE IInv'
  BY <1>2 DEF OpenPrivate, Fields, Sealed, Paired, Idle
<1>3. CASE WritePrivate
  BY <1>3 DEF WritePrivate, Fields, Sealed, Paired, Idle
<1>4. CASE OpenPublic \/ WritePublic
  BY <1>4 DEF OpenPublic, WritePublic, Fields, Sealed, Paired, Idle
<1>5. CASE Interrupt
  BY <1>5 DEF Interrupt, Fields, Sealed, Paired, Idle
<1>6. ASSUME NEW s \in Subjects, NEW n \in Counts, NEW time \in Instants, NEW zone \in Zones,
             Sign(s, n, time, zone)
      PROVE  IInv'
  <2> DEFINE r == Signed(Build(s, n, time, zone), private)
             i == [receipt |-> r, key |-> private]
  <2>1. /\ private \in Keys /\ issued' = issued \cup {i}
        /\ UNCHANGED <<private, public, keygen, broken, file, changes>>
    BY <1>6 DEF Sign
  <2>2. /\ r \in Bodies /\ r.hash = Manifest(r)
        /\ r.sig = [key |-> private, digest |-> Manifest(r)]
    BY <2>1, SignedIsSealed
  <2>3. i.receipt = r /\ i.key = private
    OBVIOUS
  <2> HIDE DEF r, i
  <2>4. Fields'
    BY <2>1, <2>2, <2>3 DEF Fields
  <2>5. Sealed'
    BY <2>1, <2>2, <2>3 DEF Sealed
  <2>6. Paired'
    BY <2>1 DEF Paired
  <2> QED
    BY <2>4, <2>5, <2>6
<1>7. CASE Load
  <2>1. UNCHANGED <<private, public, keygen, broken, issued>>
    BY <1>7 DEF Load
  <2>2. /\ file' \in Bodies \cup {Garbage}
        /\ file' = Garbage \/ file'.sig = Garbage
              \/ \E i \in issued : file'.sig = i.receipt.sig
    <3>1. CASE \E i \in issued : file' = i.receipt
      BY <3>1 DEF Fields
    <3>2. CASE file # Garbage /\ file' = [file EXCEPT !.zone = UTC]
      <4>1. file \in Bodies
        BY <3>2 DEF Fields
      <4>2. file' \in Bodies /\ file'.sig = file.sig
        BY <3>2, <4>1, ReceiptsAssumption DEF Bodies
      <4> QED
        BY <3>2, <4>2 DEF Sealed
    <3> QED
      BY <1>7, <3>1, <3>2 DEF Load
  <2>3. changes' \in 0..MaxChanges
    BY <1>7, ReceiptsAssumption DEF Load, Fields
  <2> QED
    BY <2>1, <2>2, <2>3 DEF Fields, Sealed, Paired
<1>8. CASE Change
  <2>1. /\ UNCHANGED <<private, public, keygen, broken, issued>>
        /\ file # Garbage /\ file \in Bodies /\ file' \in Changes(file)
    BY <1>8 DEF Change, Fields
  <2>2. /\ file' \in Bodies
        /\ \/ file'.sig = file.sig \/ file'.sig = Garbage
           \/ \E i \in issued : file'.sig = i.receipt.sig
    BY <2>1, ChangesKeepSignatures
  <2>3. file'.sig = Garbage \/ \E i \in issued : file'.sig = i.receipt.sig
    BY <2>1, <2>2 DEF Sealed
  <2>4. changes' \in 0..MaxChanges
    BY <1>8, ReceiptsAssumption DEF Change, Fields
  <2> QED
    BY <2>1, <2>2, <2>3, <2>4 DEF Fields, Sealed, Paired
<1> QED
  BY <1>1, <1>2, <1>3, <1>4, <1>5, <1>6, <1>7, <1>8 DEF Next

LEMMA Invariance == Spec => []IInv
<1>1. Init => IInv
  <2> SUFFICES ASSUME Init PROVE IInv
    OBVIOUS
  <2>1. keygen.step \notin {"public", "writing"}
    BY DEF Init, Idle
  <2>2. Fields
    <3>1. changes \in 0..MaxChanges
      BY ReceiptsAssumption DEF Init
    <3> QED
      BY <3>1 DEF Init, Fields
  <2>3. Sealed
    BY DEF Init, Sealed
  <2>4. Paired
    BY <2>1 DEF Init, Paired
  <2> QED
    BY <2>2, <2>3, <2>4 DEF IInv
<1> QED
  BY <1>1, InvInductive, PTL DEF Spec
-----------------------------------------------------------------------------
(* The variables have their types, and a stored hash is a digest of the
   signed fields, in every reachable state.                              *)
THEOREM TypeCorrect == Spec => []TypeOK
<1>1. IInv => TypeOK
  <2> SUFFICES ASSUME IInv PROVE TypeOK
    OBVIOUS
  <2>1. ASSUME NEW i \in issued
        PROVE  i.key \in Keys /\ i.receipt.sig.key = i.key /\ i.receipt \in Bodies
    <3>1. i.receipt.sig = [key |-> i.key, digest |-> Manifest(i.receipt)]
      BY DEF IInv, Sealed
    <3> QED
      BY <3>1 DEF IInv, Fields
  <2>2. ASSUME NEW r \in Bodies
        PROVE  /\ Manifest(r) \in Manifests
               /\ r.hash \in Manifests \cup {Garbage}
               /\ r.zone \in Zones /\ r.hint \in Hints
    BY ManifestOf DEF Bodies
  <2>3. ({file} \ {Garbage}) \cup {i.receipt : i \in issued} \subseteq Bodies
    BY <2>1 DEF IInv, Fields
  <2> QED
    BY <2>1, <2>2, <2>3 DEF IInv, Fields, TypeOK
<1> QED
  BY <1>1, Invariance, PTL

(* What verify() accepts has the body of a receipt that was signed with the
   public key's private half, whatever was edited, spliced or rehashed.  *)
THEOREM OnlyGenuine == Spec => []OnlyIssuedVerifies
<1>1. IInv => OnlyIssuedVerifies
  <2> SUFFICES ASSUME IInv, file # Garbage, Verify(file) = "valid"
               PROVE  \E i \in issued : i.key = public /\ SameBody(file, i.receipt)
    BY DEF OnlyIssuedVerifies
  <2>1. file.sig # Garbage /\ file.sig = [key |-> public, digest |-> Manifest(file)]
    BY DEF Verify
  <2>2. PICK i \in issued : file.sig = [key |-> i.key, digest |-> Manifest(i.receipt)]
    BY <2>1 DEF IInv, Sealed
  <2>3. i.key = public /\ Manifest(i.receipt) = Manifest(file)
    BY <2>1, <2>2
  <2> QED
    BY <2>3, ManifestIsBody
<1> QED
  BY <1>1, Invariance, PTL

(* An issued receipt, sealed as it is, verifies under its own key. *)
LEMMA SealedVerifies ==
  ASSUME IInv, NEW i \in issued, public = i.key, NEW r,
         Manifest(r) = Manifest(i.receipt),
         r.hash = i.receipt.hash, r.sig = i.receipt.sig
  PROVE  Verify(r) = "valid"
<1>1. i.key \in Keys /\ i.receipt \in Bodies
  BY DEF IInv, Fields
<1>2. /\ r.hash = Manifest(r)
      /\ r.sig = [key |-> public, digest |-> Manifest(r)]
  BY DEF IInv, Sealed
<1>3. Manifest(r) \in Manifests
  BY <1>1, ManifestOf
<1>4. r.sig # Garbage /\ public \in Keys
  BY <1>1, <1>2, <1>3, ReceiptsAssumption
<1> QED
  BY <1>2, <1>4 DEF Verify

(* An issued receipt stays verifiable through storing, loading and changes
   of its hint, in whatever zone it was issued.                          *)
THEOREM GenuineVerifies == Spec => []IssuedVerifies
<1>1. IInv => IssuedVerifies
  BY SealedVerifies, ManifestIsBody DEF IssuedVerifies
<1> QED
  BY <1>1, Invariance, PTL

(* What the private key file signs verifies under the public key file beside
   it, unless a key generation is under way or one was interrupted.      *)
THEOREM FilesMatch == Spec => []PairMatches
<1>1. IInv => PairMatches
  <2> SUFFICES ASSUME IInv, ~broken, keygen = Idle, NEW i \in issued, i.key = private
               PROVE  Verify(i.receipt) = "valid"
    BY DEF PairMatches
  <2>1. public = i.key
    BY DEF IInv, Paired
  <2> QED
    BY <2>1, SealedVerifies
<1> QED
  BY <1>1, Invariance, PTL
=============================================================================
