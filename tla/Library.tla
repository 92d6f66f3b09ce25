------------------------------ MODULE Library -------------------------------
(***************************************************************************)
(* The saved CA certificates and profiles of workspaces                    *)
(* (backend/app/api/ca_certs.py, profiles.py): rows of two tables, unique  *)
(* within a workspace by fingerprint and by name.  A request reads what it *)
(* needs, adds its rows to a transaction and commits; what others commit   *)
(* in between it does not see.  Roles are those of module Access.          *)
(***************************************************************************)
EXTENDS Integers, Sequences, FiniteSets

CONSTANTS
  Spaces,              \* workspaces
  Fingerprints, Names, \* keys of certificates and of profiles
  Bundles,             \* sequences of certificates in an uploaded or fetched file
  LibraryTasks,
  LastId               \* bound on the rows ever inserted

ASSUME LibraryAssumption ==
  /\ Fingerprints \cap Names = {} /\ Bundles \subseteq Seq(Fingerprints)
  /\ LastId \in Nat

VARIABLES
  rows,   \* committed rows
  nextId,
  job     \* the transaction of each task, an option

libraryVars == <<rows, nextId, job>>

Row == [id : 1..LastId, ws : Spaces, key : Fingerprints \cup Names]

LibraryInit == rows = {} /\ nextId = 1 /\ job = [t \in LibraryTasks |-> {}]

(* uq_ca_certificates_ws_fingerprint, uq_profiles_ws_name *)
SameKey(a, b) == a.ws = b.ws /\ a.key = b.key

Job(kind, w) == [kind |-> kind, ws |-> w, bundle |-> <<>>, done |-> 0, adds |-> {},
                 target |-> {}, name |-> {}, lost |-> {}, overtaken |-> FALSE]

Open(t, j) ==
  /\ job[t] = {} /\ job' = [job EXCEPT ![t] = {j}]
  /\ UNCHANGED <<rows, nextId>>
-----------------------------------------------------------------------------
(* upload_ca_cert and fetch_ca_cert, up to _import_certificates *)
Import(t) ==
  \E w \in Spaces, b \in Bundles : Open(t, [Job("import", w) EXCEPT !.bundle = b])

(* Mutant: the certificates that the same import has added are not seen. *)
PresentCommitted(j, fp) == \E r \in rows : r.ws = j.ws /\ r.key = fp

(* The SELECT sees the committed rows and those of its own transaction. *)
Present(j, fp) == \E r \in rows \cup j.adds : r.ws = j.ws /\ r.key = fp

Skipped(j) == [j EXCEPT !.done = @ + 1]

Added(j, fp) ==
  [j EXCEPT !.done = @ + 1, !.adds = @ \cup {[id |-> nextId, ws |-> j.ws, key |-> fp]}]

(* One round of the loop in _import_certificates *)
ImportCertificate(t) ==
  \E j \in job[t] :
    /\ j.kind = "import" /\ j.done < Len(j.bundle)
    /\ LET fp == j.bundle[j.done + 1] IN
         IF Present(j, fp)
           THEN job' = [job EXCEPT ![t] = {Skipped(j)}] /\ UNCHANGED nextId
           ELSE /\ nextId <= LastId /\ nextId' = nextId + 1
                /\ job' = [job EXCEPT ![t] = {Added(j, fp)}]
    /\ UNCHANGED rows

(* A transaction that adds one row, unless its key is taken: then a        *)
(* certificate counts as skipped and a profile is refused with 409.        *)
AddOne(t, row) ==
  /\ job[t] = {} /\ nextId <= LastId
  /\ ~\E r \in rows : SameKey(r, row)
  /\ job' = [job EXCEPT ![t] = {[Job("add", row.ws) EXCEPT !.adds = {row}]}]
  /\ nextId' = nextId + 1 /\ UNCHANGED rows

CreateProfile(t) ==
  \E w \in Spaces, n \in Names : AddOne(t, [id |-> nextId, ws |-> w, key |-> n])

(* share_ca_cert, share_profile: 400 for the workspace of the row itself. *)
Share(t) ==
  \E r \in rows, w \in Spaces :
    w # r.ws /\ AddOne(t, [r EXCEPT !.id = nextId, !.ws = w])

(* update_profile: 409 if another profile has the name.  (The name that    *)
(* rename_ca_cert writes is no key.)                                       *)
UpdateProfile(t) ==
  \E r \in rows, n \in Names :
    /\ r.key \in Names /\ ~\E x \in rows : x.id # r.id /\ SameKey(x, [r EXCEPT !.key = n])
    /\ Open(t, [Job("update", r.ws) EXCEPT !.target = {r.id}, !.name = {n}])

(* delete_ca_cert, delete_profile *)
Delete(t) ==
  \E r \in rows : Open(t, [Job("delete", r.ws) EXCEPT !.target = {r.id}])
-----------------------------------------------------------------------------
(* The commit *)

Targets(j) == {r \in rows : r.id \in j.target}

Renamed(j) == {[r EXCEPT !.key = CHOOSE n \in j.name : TRUE] : r \in Targets(j)}

(* What the transaction leaves in the tables *)
Outcome(j) ==
  CASE j.kind = "delete" -> rows \ Targets(j)
    [] j.kind = "update" -> (rows \ Targets(j)) \cup Renamed(j)
    [] OTHER -> rows \cup j.adds

(* The commit raises for a key that is taken and for an UPDATE of a row    *)
(* that is gone.                                                           *)
Raises(j) ==
  \/ j.kind = "update" /\ Targets(j) = {}
  \/ \E a, b \in Outcome(j) : a.id # b.id /\ SameKey(a, b)

(* What the commit deletes from a workspace *)
DeletedFrom(j, w) == {r.key : r \in {x \in Targets(j) : j.kind = "delete" /\ x.ws = w}}

(* The requests on their way are overtaken by the commit. *)
Overtakes(j, t) ==
  [x \in LibraryTasks |->
     IF x = t THEN {}
     ELSE {[k EXCEPT !.overtaken = TRUE, !.lost = @ \cup DeletedFrom(j, k.ws)] : k \in job[x]}]

Commit(t) ==
  \E j \in job[t] :
    /\ j.kind = "import" => j.done = Len(j.bundle)
    /\ IF Raises(j) THEN job' = [job EXCEPT ![t] = {}] /\ UNCHANGED rows
       ELSE rows' = Outcome(j) /\ job' = Overtakes(j, t)
    /\ UNCHANGED nextId

LibraryNext ==
  \E t \in LibraryTasks :
    \/ Import(t) \/ ImportCertificate(t) \/ CreateProfile(t) \/ Share(t)
    \/ UpdateProfile(t) \/ Delete(t) \/ Commit(t)

LibrarySpec == LibraryInit /\ [][LibraryNext]_libraryVars
-----------------------------------------------------------------------------
(* Properties *)

LibraryTypeOK ==
  /\ rows \subseteq Row /\ nextId \in 1..(LastId + 1)
  /\ DOMAIN job = LibraryTasks
  /\ \A t \in LibraryTasks : \A j \in job[t] :
       /\ j.kind \in {"import", "add", "update", "delete"} /\ j.ws \in Spaces
       /\ j.adds \subseteq Row /\ j.target \subseteq 1..LastId /\ j.lost \subseteq Fingerprints \cup Names
       /\ j.name \subseteq Names /\ j.done \in 0..Len(j.bundle)

(* Each certificate of the bundle is in the library, or was deleted by     *)
(* another request since the import began.                                 *)
Accounted(j) ==
  \A i \in DOMAIN j.bundle :
    \/ \E r \in Outcome(j) : r.ws = j.ws /\ r.key = j.bundle[i]
    \/ j.bundle[i] \in j.lost

(* At its commit a request fails only if another one committed since it    *)
(* began, never for what it adds itself (a bundle may have a certificate   *)
(* twice); an import that does not fail accounts for its whole bundle.     *)
CommitAccounts ==
  \A t \in LibraryTasks : \A j \in job[t] :
    j.done = Len(j.bundle) => IF Raises(j) THEN j.overtaken ELSE Accounted(j)
=============================================================================
