--------------------------- MODULE AdmissionProofs ---------------------------
(***************************************************************************)
(* Proofs about Admission, for any set of requests, any cap and any        *)
(* retention window longer than a run.                                     *)
(***************************************************************************)
EXTENDS Admission, TLAPS

(* Storing a set of files keeps the type invariant. *)
LEMMA StoreType ==
  ASSUME TypeOK, NEW r \in Runs, NEW fs \in SUBSET Files, Store(r, fs)
  PROVE  TypeOK'
<1>1. files' \in [Runs -> SUBSET Files] /\ recorded' \in [Runs -> SUBSET Files]
  BY DEF TypeOK, Store
<1>2. pc' \in [Runs -> Stage]
  BY DEF TypeOK, Store, Goto, Stage
<1> QED BY <1>1, <1>2 DEF TypeOK, Store

(* Removing a workspace again keeps the type invariant. *)
LEMMA DiscardType ==
  ASSUME TypeOK, NEW r \in Runs, Discard(r)
  PROVE  TypeOK'
<1>1. dir' \in [Runs -> BOOLEAN]
  BY DEF TypeOK, Discard
<1>2. files' \in [Runs -> SUBSET Files]
  BY DEF TypeOK, Discard
<1>3. pc' \in [Runs -> Stage]
  BY DEF TypeOK, Discard, Goto, Stage
<1> QED BY <1>1, <1>2, <1>3 DEF TypeOK, Discard

(* Storing files that include the issuer keeps the inductive invariant. *)
LEMMA StoreYoung ==
  ASSUME TypeOK, YoungWorkspaces, NEW r \in Runs, pc[r] = "store",
         NEW fs, "issuer" \in fs, Store(r, fs)
  PROVE  YoungWorkspaces'
BY DEF TypeOK, YoungWorkspaces, Store, Goto

(* Removing a workspace that was being filled keeps it too. *)
LEMMA DiscardYoung ==
  ASSUME TypeOK, YoungWorkspaces, NEW r \in Runs, pc[r] = "store", Discard(r)
  PROVE  YoungWorkspaces'
BY DEF TypeOK, YoungWorkspaces, Discard, Goto

(* Every action of Admission keeps the type invariant. *)
LEMMA TypeStep == TypeOK /\ YoungWorkspaces /\ [Next]_vars => TypeOK'
<1> SUFFICES ASSUME TypeOK, YoungWorkspaces, [Next]_vars PROVE TypeOK'
  OBVIOUS
<1> USE AdmissionAssumption DEF TypeOK, Goto, Files, NoRun, Stage
<1>1. CASE UNCHANGED vars
  BY <1>1 DEF vars
<1>2. CASE Tick
  BY <1>2 DEF Tick
<1>3. ASSUME NEW r \in Runs, Request(r) PROVE TypeOK'
  <2>1. CASE BeginCreate(r)
    BY <2>1 DEF BeginCreate
  <2>2. CASE BeginRerun(r)
    BY <2>2 DEF BeginRerun
  <2>3. CASE CheckLimit(r)
    <3>1. CASE Cardinality(ActiveRuns) >= Limit
      BY <2>3, <3>1 DEF CheckLimit
    <3>2. CASE ~(Cardinality(ActiveRuns) >= Limit)
      <4>1. dir' \in [Runs -> BOOLEAN] /\ pc' \in [Runs -> Stage]
        BY <2>3, <3>2 DEF CheckLimit
      <4>2. age' \in [Runs -> 0..(Retention + 1)]
        BY <2>3, <3>2 DEF CheckLimit
      <4> QED BY <2>3, <4>1, <4>2 DEF CheckLimit
    <3> QED BY <3>1, <3>2
  <2>4. CASE StoreUploads(r)
    <3>1. ASSUME NEW s \in SUBSET Slots PROVE s \cup {"issuer"} \in SUBSET Files
      OBVIOUS
    <3> QED BY <2>4, <3>1, StoreType, DiscardType DEF StoreUploads
  <2>5. CASE CopyFiles(r)
    <3>1. prior[r] \in Runs
      BY <2>5 DEF CopyFiles, YoungWorkspaces
    <3>2. recorded[prior[r]] \cap files[prior[r]] \in SUBSET Files
      BY <3>1
    <3> QED BY <2>5, <3>2, StoreType, DiscardType DEF CopyFiles
  <2>6. CASE CopyRaises(r)
    BY <2>6 DEF CopyRaises
  <2>7. CASE InsertRow(r)
    BY <2>7 DEF InsertRow
  <2> QED BY <1>3, <2>1, <2>2, <2>3, <2>4, <2>5, <2>6, <2>7 DEF Request
<1>4. ASSUME NEW r \in Runs, RunEnds(r) \/ DeleteRun(r) PROVE TypeOK'
  BY <1>4 DEF RunEnds, DeleteRun
<1>5. ASSUME NEW r \in Runs, Sweep(r) PROVE TypeOK'
  BY <1>5 DEF Sweep, SweepFile, SweepDir
<1> QED BY <1>1, <1>2, <1>3, <1>4, <1>5 DEF Next

(* Every action of Admission keeps workspaces in use young and whole. *)
LEMMA YoungStep == TypeOK /\ YoungWorkspaces /\ [Next]_vars => YoungWorkspaces'
<1> SUFFICES ASSUME TypeOK, YoungWorkspaces, [Next]_vars PROVE YoungWorkspaces'
  OBVIOUS
<1> USE AdmissionAssumption DEF TypeOK, YoungWorkspaces, Goto
<1>1. CASE UNCHANGED vars
  BY <1>1 DEF vars
<1>2. CASE Tick
  BY <1>2 DEF Tick
<1>3. ASSUME NEW r \in Runs, Request(r) PROVE YoungWorkspaces'
  <2>1. CASE BeginCreate(r)
    BY <2>1 DEF BeginCreate
  <2>2. CASE BeginRerun(r)
    BY <2>2 DEF BeginRerun
  <2>3. CASE CheckLimit(r)
    BY <2>3 DEF CheckLimit
  <2>4. CASE StoreUploads(r)
    BY <2>4, StoreYoung, DiscardYoung DEF StoreUploads
  <2>5. CASE CopyFiles(r)
    BY <2>5, StoreYoung, DiscardYoung DEF CopyFiles
  <2>6. CASE CopyRaises(r)
    BY <2>6 DEF CopyRaises
  <2>7. CASE InsertRow(r)
    BY <2>7 DEF InsertRow
  <2> QED BY <1>3, <2>1, <2>2, <2>3, <2>4, <2>5, <2>6, <2>7 DEF Request
<1>4. ASSUME NEW r \in Runs, RunEnds(r) \/ DeleteRun(r) PROVE YoungWorkspaces'
  BY <1>4 DEF RunEnds, DeleteRun
<1>5. ASSUME NEW r \in Runs, Sweep(r) PROVE YoungWorkspaces'
  BY <1>5 DEF Sweep, SweepFile, SweepDir, Expired
<1> QED BY <1>1, <1>2, <1>3, <1>4, <1>5 DEF Next

(* The inductive invariant of Admission. *)
THEOREM AdmissionInvariance == Spec => [](TypeOK /\ YoungWorkspaces)
<1>1. Init => TypeOK /\ YoungWorkspaces
  BY AdmissionAssumption DEF Init, TypeOK, YoungWorkspaces, Files, NoRun, Stage
<1> QED BY <1>1, TypeStep, YoungStep, PTL DEF Spec

(* An active run's uploaded files stay where its manifest says, whatever   *)
(* the retention sweep, deletions of other runs and reruns do.             *)
THEOREM ActiveRunsKeepFiles == Spec => []ActiveKeepsFiles
<1>1. TypeOK /\ YoungWorkspaces => ActiveKeepsFiles
  BY DEF YoungWorkspaces, ActiveKeepsFiles
<1> QED BY <1>1, AdmissionInvariance, PTL
=============================================================================
