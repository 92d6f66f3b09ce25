----------------------------- MODULE Admission ------------------------------
(***************************************************************************)
(* How runs come into being and what becomes of their files: create_run    *)
(* and rerun_run (backend/app/api/runs.py) up to start_run, the cap on     *)
(* concurrent runs, the run workspaces (storage.py) and the retention      *)
(* sweep (main.py), which runs in a thread of its own.                     *)
(*                                                                         *)
(* A request makes at most one run, so a run is named by its request.      *)
(* Time passes in units; an age is the age of a workspace directory.       *)
(***************************************************************************)
EXTENDS Naturals, FiniteSets

CONSTANTS
  Creates,     \* POST /test-runs requests, all of one workspace
  Reruns,      \* POST /test-runs/{id}/rerun requests
  Slots,       \* upload slots besides issuer_cert
  Limit,       \* ws_limit: min of the workspace's and the deployment's cap
  RunTime,     \* bound on a run: max_run_timeout_seconds, in units of time
  Retention    \* retention_days, in units of time

Runs == Creates \cup Reruns
Files == {"issuer"} \cup Slots

ASSUME AdmissionAssumption ==
  /\ Creates \cap Reruns = {} /\ IsFiniteSet(Runs) /\ "issuer" \notin Slots
  /\ Limit \in Nat \ {0}
  /\ RunTime \in Nat \ {0} /\ Retention \in Nat /\ RunTime < Retention

VARIABLES
  row,      \* status of the run's row: "absent", "active" or "terminal"
  recorded, \* config_json.files: the slots the row says it has
  dir,      \* the workspace exists
  files,    \* what its uploads directory holds
  age,      \* of the workspace
  prior,    \* the run a rerun request repeats
  pc        \* where the request stands

vars == <<row, recorded, dir, files, age, prior, pc>>

NoRun == "none"

Init ==
  /\ row = [r \in Runs |-> "absent"]
  /\ recorded = [r \in Runs |-> {}]
  /\ dir = [r \in Runs |-> FALSE]
  /\ files = [r \in Runs |-> {}]
  /\ age = [r \in Runs |-> 0]
  /\ prior = [r \in Runs |-> NoRun]
  /\ pc = [r \in Runs |-> "idle"]

Goto(r, l) == pc' = [pc EXCEPT ![r] = l]

(* _active_run_count *)
ActiveRuns == {r \in Runs : row[r] = "active"}
-----------------------------------------------------------------------------
(* create_run *)

(* The configuration is valid and its targets are allowed. *)
BeginCreate(r) ==
  /\ r \in Creates /\ pc[r] = "idle"
  /\ Goto(r, "count")
  /\ UNCHANGED <<row, recorded, dir, files, age, prior>>

(* rerun_run: the prior run is known and its issuer certificate is there. *)
BeginRerun(r) ==
  /\ r \in Reruns /\ pc[r] = "idle"
  /\ \E p \in Runs \ {r} :
       /\ row[p] # "absent" /\ "issuer" \in files[p]
       /\ prior' = [prior EXCEPT ![r] = p]
  /\ Goto(r, "count")
  /\ UNCHANGED <<row, recorded, dir, files, age>>

(* The cap: 429, or on to an empty workspace. *)
CheckLimit(r) ==
  /\ pc[r] = "count"
  /\ IF Cardinality(ActiveRuns) >= Limit
       THEN Goto(r, "refused") /\ UNCHANGED <<dir, age>>
       ELSE /\ Goto(r, "store")
            /\ dir' = [dir EXCEPT ![r] = TRUE]
            /\ age' = [age EXCEPT ![r] = 0]
  /\ UNCHANGED <<row, recorded, files, prior>>

Store(r, fs) ==
  /\ files' = [files EXCEPT ![r] = fs]
  /\ recorded' = [recorded EXCEPT ![r] = fs]
  /\ Goto(r, "insert")
  /\ UNCHANGED <<row, dir, age, prior>>

Discard(r) ==
  /\ dir' = [dir EXCEPT ![r] = FALSE]
  /\ files' = [files EXCEPT ![r] = {}]
  /\ Goto(r, "refused")
  /\ UNCHANGED <<row, recorded, age, prior>>

(* Uploads and saved certificates are stored; any HTTPException removes    *)
(* the workspace again.                                                    *)
StoreUploads(r) ==
  /\ r \in Creates /\ pc[r] = "store"
  /\ \/ \E s \in SUBSET Slots : Store(r, s \cup {"issuer"})
     \/ Discard(r)

(* rerun_run copies the prior run's files that are still there.  The sweep *)
(* thread may remove them meanwhile: a file gone before is_file is skipped *)
(* (the request fails if that is the issuer), one gone between is_file and *)
(* read_bytes raises FileNotFoundError, which nothing handles.             *)
CopyFiles(r) ==
  /\ r \in Reruns /\ pc[r] = "store"
  /\ LET have == recorded[prior[r]] \cap files[prior[r]] IN
       IF "issuer" \in have THEN Store(r, have) ELSE Discard(r)

CopyRaises(r) ==
  /\ r \in Reruns /\ pc[r] = "store"
  /\ age[prior[r]] > Retention /\ files[prior[r]] # {}
  /\ Goto(r, "raised")
  /\ UNCHANGED <<row, recorded, dir, files, age, prior>>

(* The row is committed, the manifest written, the worker started. *)
InsertRow(r) ==
  /\ pc[r] = "insert"
  /\ row' = [row EXCEPT ![r] = "active"]
  /\ Goto(r, "created")
  /\ UNCHANGED <<recorded, dir, files, age, prior>>
-----------------------------------------------------------------------------
(* JobManager takes the run to a terminal status (see JobManager). *)
RunEnds(r) ==
  /\ row[r] = "active"
  /\ row' = [row EXCEPT ![r] = "terminal"]
  /\ UNCHANGED <<recorded, dir, files, age, prior, pc>>

(* DELETE: the row, then the workspace (of an active run too). *)
DeleteRun(r) ==
  /\ row[r] # "absent"
  /\ row' = [row EXCEPT ![r] = "absent"]
  /\ dir' = [dir EXCEPT ![r] = FALSE]
  /\ files' = [files EXCEPT ![r] = {}]
  /\ UNCHANGED <<recorded, age, prior, pc>>

(* One unit of time.  A request takes less, and a worker is ended by its   *)
(* timeout after RunTime units.                                            *)
Tick ==
  /\ \A r \in Runs : /\ pc[r] \notin {"store", "insert"} \/ age[r] = 0
                     /\ row[r] = "active" => age[r] < RunTime
  /\ age' = [r \in Runs |-> IF dir[r] /\ age[r] <= Retention THEN age[r] + 1 ELSE age[r]]
  /\ age' # age
  /\ UNCHANGED <<row, recorded, dir, files, prior, pc>>

(* Mutant: the retention window is taken for hours. *)
ExpiredEarly(r) == dir[r] /\ age[r] > 0

(* sweep_expired_workspaces on one entry: rmtree removes file after file,  *)
(* then the directory.                                                     *)
Expired(r) == dir[r] /\ age[r] > Retention

SweepFile(r) ==
  /\ Expired(r)
  /\ \E f \in files[r] : files' = [files EXCEPT ![r] = @ \ {f}]
  /\ UNCHANGED <<row, recorded, dir, age, prior, pc>>

(* Mutant: only workspaces of known runs are swept. *)
SweepKnownDir(r) ==
  /\ Expired(r) /\ files[r] = {} /\ row[r] # "absent"
  /\ dir' = [dir EXCEPT ![r] = FALSE]
  /\ UNCHANGED <<row, recorded, files, age, prior, pc>>

SweepDir(r) ==
  /\ Expired(r) /\ files[r] = {}
  /\ dir' = [dir EXCEPT ![r] = FALSE]
  /\ UNCHANGED <<row, recorded, files, age, prior, pc>>

Request(r) ==
  \/ BeginCreate(r) \/ BeginRerun(r) \/ CheckLimit(r) \/ StoreUploads(r)
  \/ CopyFiles(r) \/ CopyRaises(r) \/ InsertRow(r)

Sweep(r) == SweepFile(r) \/ SweepDir(r)

Next == Tick \/ \E r \in Runs : Request(r) \/ RunEnds(r) \/ DeleteRun(r) \/ Sweep(r)

Spec == Init /\ [][Next]_vars

(* Time passes, runs end (JobManager's timeout) and the sweep is repeated. *)
FairSpec ==
  /\ Spec
  /\ WF_vars(Tick)
  /\ \A r \in Runs : WF_vars(RunEnds(r)) /\ WF_vars(Sweep(r)) /\ WF_vars(Request(r))
-----------------------------------------------------------------------------
Stage == {"idle", "count", "store", "insert", "created", "refused", "raised"}

TypeOK ==
  /\ row \in [Runs -> {"absent", "active", "terminal"}]
  /\ recorded \in [Runs -> SUBSET Files] /\ files \in [Runs -> SUBSET Files]
  /\ dir \in [Runs -> BOOLEAN] /\ age \in [Runs -> 0..(Retention + 1)]
  /\ prior \in [Runs -> Runs \cup {NoRun}]
  /\ pc \in [Runs -> Stage]

(* A worker finds the files its row names for as long as the run is        *)
(* active: neither the sweep nor another request takes them away.          *)
ActiveKeepsFiles ==
  \A r \in Runs : row[r] = "active" => (dir[r] /\ files[r] = recorded[r] /\ "issuer" \in files[r])

(* The inductive invariant behind it: workspaces of requests and of active *)
(* runs are too young for the sweep, and a request that still stores files *)
(* has no row that a DELETE could find.                                    *)
YoungWorkspaces ==
  \A r \in Runs :
    /\ pc[r] \in {"store", "insert"} => dir[r] /\ age[r] <= 1
    /\ (r \in Reruns /\ pc[r] # "idle") => prior[r] \in Runs
    /\ pc[r] # "created" => row[r] = "absent"
    /\ row[r] = "active" => age[r] <= RunTime
    /\ (pc[r] = "insert" \/ row[r] = "active") =>
         (dir[r] /\ files[r] = recorded[r] /\ "issuer" \in files[r])

(* A workspace without a row does not stay: it is in use by its request,   *)
(* or was left behind by an exception and is removed by retention.         *)
LeftoversRemoved ==
  \A r \in Runs : (dir[r] /\ row[r] = "absent") ~> (~dir[r] \/ row[r] # "absent")
=============================================================================
