-------------------------- MODULE JobManagerProofs --------------------------
(***************************************************************************)
(* The event log of a run is dense, for any number of concurrent cancel    *)
(* and delete requests, worker lines, restarts and peers, and JobManager   *)
(* implements RunLog.  In the same generality: what a run that its         *)
(* supervisor has left looks like, which runs stay unfinished, that a live *)
(* worker can be reached, and that a completed run has all its lines.      *)
(***************************************************************************)
EXTENDS JobManager, TLAPS

(* The tasks named by strings are distinct from the requests. *)
LEMMA TaskFacts ==
  /\ "start" \in Tasks /\ "sup" \in Tasks /\ "err" \in Tasks
  /\ \A t \in Requests : t \in Tasks /\ t # "start" /\ t # "sup" /\ t # "err"
  /\ \A t \in Deletes : t \in Requests
BY JobManagerAssumption DEF Tasks, Requests

(* The events the code builds are events. *)
LEMMA EventFacts ==
  /\ NoEvent \in Event
  /\ LogEvent \in Event
  /\ \A s \in Status : StatusEvent(s) \in Event
  /\ \A k \in {"log", "progress", "result"}, n \in Nat : LineEvent(k, n) \in Event
BY DEF NoEvent, LogEvent, StatusEvent, LineEvent, Event, EventType, Status, Active, Terminal

(* The initial state is typed. *)
LEMMA InitType == Init => TypeOK
<1> SUFFICES ASSUME Init PROVE TypeOK
  OBVIOUS
<1> USE DEF Init
<1>1. RowType
  BY DEF RowType, Status
<1>2. WorkerType
  <2>1. out \in Seq(W!Line)
    OBVIOUS
  <2>2. QED
    BY <2>1 DEF WorkerType
<1>3. MemType
  BY DEF MemType
<1>4. TaskType
  BY EventFacts DEF TaskType, Label, AtRest
<1>5. QED
  BY <1>1, <1>2, <1>3, <1>4 DEF TypeOK

(* _append_event keeps the types. *)
LEMMA TypeAppend ==
  ASSUME TypeOK, NEW t \in Tasks, AppendRead(t) \/ AppendCommit(t)
  PROVE  TypeOK'
<1> USE DEF TypeOK, Forget
<1>1. CASE AppendRead(t)
  <2> USE <1>1 DEF AppendRead
  <2>1. RowType' /\ WorkerType' /\ MemType'
    BY DEF rowVars, diskVars, workerVars, memVars, supVars, bootVars,
           RowType, WorkerType, MemType
  <2>2. TaskType'
    BY EventFacts DEF TaskType, RowType
  <2>3. QED
    BY <2>1, <2>2
<1>2. CASE AppendCommit(t)
  <2> USE <1>2 DEF AppendCommit
  <2>1. WorkerType' /\ MemType'
    BY DEF diskVars, workerVars, memVars, supVars, bootVars, WorkerType, MemType
  <2>2. TaskType'
    BY EventFacts DEF TaskType
  <2>3. [ev[t] EXCEPT !.seq = rd[t] + 1] \in Event
    BY DEF Event, TaskType
  <2>4. RowType'
    BY <2>3 DEF RowType, TaskType
  <2>5. QED
    BY <2>1, <2>2, <2>4
<1>3. QED
  BY <1>1, <1>2

(* Steps that change none of the four groups' types need no thought: the   *)
(* tuples are unfolded once and for all.                                   *)
USE DEF rowVars, diskVars, workerVars, memVars, taskVars, supVars, bootVars

(* create_run and start_run keep the types. *)
LEMMA TypeStart ==
  ASSUME TypeOK, Start
  PROVE  TypeOK'
<1> USE DEF TypeOK
<1>0. "start" \in Tasks /\ "sup" \in Tasks
  BY TaskFacts
<1>1. CASE CreateRun
  <2>1. RowType'
    BY <1>1 DEF CreateRun, RowType, Status, Active
  <2>2. WorkerType' /\ MemType'
    BY <1>1 DEF CreateRun, WorkerType, MemType
  <2>3. TaskType'
    BY <1>0, <1>1 DEF CreateRun, TaskType, Continue, Goto, Label
  <2>4. QED
    BY <2>1, <2>2, <2>3
<1>2. CASE Spawn \/ SpawnFails
  <2>1. RowType' /\ WorkerType'
    BY <1>2 DEF Spawn, SpawnFails, RowType, WorkerType
  <2>2. MemType'
    BY <1>2 DEF Spawn, SpawnFails, MemType
  <2>3. TaskType'
    BY <1>0, <1>2 DEF Spawn, SpawnFails, TaskType, Continue, Goto, Label, AtRest
  <2>4. QED
    BY <2>1, <2>2, <2>3
<1>3. CASE MarkRunning
  <2>1. RowType'
    BY <1>3 DEF MarkRunning, RowType, Status, Active
  <2>2. WorkerType' /\ MemType'
    BY <1>3 DEF MarkRunning, WorkerType, MemType
  <2>3. TaskType'
    BY <1>0, <1>3 DEF MarkRunning, TaskType, Continue, Goto, Label
  <2>4. QED
    BY <2>1, <2>2, <2>3
<1>4. CASE StartSnapshot \/ Launch \/ LaunchFails
  <2>1. UNCHANGED <<rowVars, diskVars, workerVars, memVars, supVars, bootVars>>
    BY <1>4 DEF StartSnapshot, Launch, LaunchFails
  <2>2. StatusEvent(status) \in Event /\ NoEvent \in Event
    BY EventFacts DEF RowType
  <2>3. TaskType'
    <3> USE <1>0, <2>2 DEF TaskType, Goto, Label, AtRest
    <3>1. CASE StartSnapshot
      BY <3>1 DEF StartSnapshot, CallAppend
    <3>2. CASE Launch
      BY <3>2 DEF Launch
    <3>3. CASE LaunchFails
      BY <3>3 DEF LaunchFails, Catch, Forget
    <3>4. QED
      BY <1>4, <3>1, <3>2, <3>3
  <2>4. RowType' /\ WorkerType' /\ MemType'
    BY <2>1 DEF RowType, WorkerType, MemType
  <2>5. QED
    BY <2>3, <2>4
<1>5. QED
  BY <1>1, <1>2, <1>3, <1>4 DEF Start

(* _supervise keeps the types. *)
LEMMA TypeSupervise ==
  ASSUME TypeOK, LogInv, Supervise
  PROVE  TypeOK'
<1> USE DEF TypeOK
<1>0. /\ "sup" \in Tasks /\ "err" \in Tasks
      /\ NoEvent \in Event /\ LogEvent \in Event
  BY TaskFacts, EventFacts
<1>1. CASE SupBegin
  <2>1. RowType' /\ WorkerType' /\ MemType'
    BY <1>1 DEF SupBegin, RowType, WorkerType, MemType
  <2>2. TaskType'
    BY <1>0, <1>1 DEF SupBegin, TaskType, Label
  <2>3. QED
    BY <2>1, <2>2
<1>2. CASE ConsumeLine
  <2>1. nread + 1 \in Nat /\ nread + 1 \in DOMAIN out
    BY <1>2 DEF ConsumeLine, MemType, WorkerType
  <2>2. out[nread + 1] \in W!Line
    BY <2>1 DEF WorkerType
  <2>3. RowType'
    BY <1>2, <2>1 DEF ConsumeLine, RowType, PersistResult
  <2>4. WorkerType'
    BY <1>2 DEF ConsumeLine, WorkerType
  <2>5. MemType'
    BY <1>2, <2>1, <2>2 DEF ConsumeLine, MemType, W!Line, Terminal
  <2>6. TaskType'
    <3>1. ASSUME NEW e \in Event, CallAppend("sup", e, "consume")
          PROVE  TaskType'
      BY <1>0, <3>1 DEF CallAppend, TaskType, Goto, Label
    <3>2. CASE UNCHANGED taskVars
      BY <3>2 DEF TaskType
    <3>3. \/ UNCHANGED taskVars
          \/ CallAppend("sup", LogEvent, "consume")
          \/ /\ out[nread + 1].kind \in {"log", "progress", "result"}
             /\ CallAppend("sup", LineEvent(out[nread + 1].kind, nread + 1), "consume")
      BY <1>2 DEF ConsumeLine
    <3>4. QED
      BY <1>0, <2>1, <3>1, <3>2, <3>3, EventFacts
  <2>7. QED
    BY <2>3, <2>4, <2>5, <2>6
<1>3. CASE ConsumeEOF \/ TimeoutLogged
  <2>0. UNCHANGED <<rowVars, diskVars, workerVars, memVars, supVars, bootVars>>
    BY <1>3 DEF ConsumeEOF, TimeoutLogged
  <2>1. RowType' /\ WorkerType' /\ MemType'
    BY <2>0 DEF RowType, WorkerType, MemType
  <2>2. TaskType'
    BY <1>0, <1>3 DEF ConsumeEOF, TimeoutLogged, TaskType, Continue, Goto, Label
  <2>3. QED
    BY <2>1, <2>2
<1>4. CASE RunTimeout
  <2>1. RowType' /\ WorkerType'
    BY <1>4 DEF RunTimeout, RowType, WorkerType
  <2>2. MemType'
    BY <1>4 DEF RunTimeout, MemType, Terminal
  <2>3. TaskType'
    BY <1>0, <1>4 DEF RunTimeout, TaskType, CallAppend, Goto, Label
  <2>4. QED
    BY <2>1, <2>2, <2>3
<1>5. CASE SupervisorCrash
  <2>1. RowType' /\ WorkerType'
    BY <1>5 DEF SupervisorCrash, RowType, WorkerType
  <2>2. MemType'
    BY <1>5 DEF SupervisorCrash, MemType, Terminal
  <2>3. TaskType'
    BY <1>0, <1>5 DEF SupervisorCrash, TaskType, Catch, Forget, Goto, Label
  <2>4. QED
    BY <2>1, <2>2, <2>3
<1>6. CASE Leave
  <2>1. RowType' /\ WorkerType'
    BY <1>6 DEF Leave, RowType, WorkerType
  <2>2. MemType'
    BY <1>6 DEF Leave, MemType, Terminal
  <2>3. pc' \in [Tasks -> Label]
    BY <1>0, <1>6 DEF Leave, TaskType, Label, AtRest
  <2>4. app' \in [Tasks -> {"idle", "read", "commit", "raised"}]
    BY <1>0, <1>6 DEF Leave, TaskType
  <2>5. ev' \in [Tasks -> Event] /\ rd' \in [Tasks -> Nat]
    BY <1>0, <1>6 DEF Leave, TaskType
  <2>6. QED
    BY <2>1, <2>2, <2>3, <2>4, <2>5 DEF TaskType
<1>7. CASE ExitLogged \/ ExitLogRaises
  <2>1. RowType' /\ WorkerType'
    BY <1>7 DEF ExitLogged, ExitLogRaises, RowType, WorkerType
  <2>2. MemType'
    BY <1>7 DEF ExitLogged, ExitLogRaises, MemType
  <2>3. TaskType'
    BY <1>0, <1>7 DEF ExitLogged, ExitLogRaises, TaskType, Continue, Catch, Forget, Goto,
       Label, AtRest
  <2>4. QED
    BY <2>1, <2>2, <2>3
<1>8. QED
  BY <1>1, <1>2, <1>3, <1>4, <1>5, <1>6, <1>7 DEF Supervise

(* _finalize keeps the types. *)
LEMMA TypeFinalize ==
  ASSUME TypeOK, LogInv, NEW t \in {"sup"} \cup Requests, Finalize(t)
  PROVE  TypeOK'
<1> USE DEF TypeOK
<1>0. /\ t \in Tasks /\ (t = "sup" \/ t \in Requests)
      /\ NoEvent \in Event /\ StatusEvent(status) \in Event
  BY TaskFacts, EventFacts DEF RowType
<1>1. CASE FinalizeUpdate(t)
  <2>1. FinalStatus(t) \in Status
    BY <1>1 DEF FinalizeUpdate, FinalStatus, LogInv, Status, Terminal
  <2>2. RowType'
    BY <1>1, <2>1 DEF FinalizeUpdate, RowType
  <2>3. WorkerType' /\ MemType'
    BY <1>1 DEF FinalizeUpdate, WorkerType, MemType
  <2>4. TaskType'
    BY <1>0, <1>1 DEF FinalizeUpdate, TaskType, Continue, Goto, Label
  <2>5. QED
    BY <2>2, <2>3, <2>4
<1>2. CASE FinalizeEvent(t)
  <2>1. RowType' /\ WorkerType' /\ MemType'
    BY <1>2 DEF FinalizeEvent, RowType, WorkerType, MemType
  <2>2. TaskType'
    BY <1>0, <1>2 DEF FinalizeEvent, TaskType, CallAppend, Goto, Label
  <2>3. QED
    BY <2>1, <2>2
<1>3. CASE FinalizeEnd(t)
  <2>1. RowType' /\ WorkerType' /\ MemType'
    BY <1>3 DEF FinalizeEnd, RowType, WorkerType, MemType
  <2>2. TaskType'
    BY <1>0, <1>3 DEF FinalizeEnd, TaskType, Continue, Catch, Forget, Goto, AfterCancel,
       Label, AtRest
  <2>3. QED
    BY <2>1, <2>2
<1>4. QED
  BY <1>1, <1>2, <1>3 DEF Finalize

(* _drain_stderr keeps the types. *)
LEMMA TypeDrain ==
  ASSUME TypeOK, Drain
  PROVE  TypeOK'
<1> USE DEF TypeOK
<1>0. "err" \in Tasks /\ NoEvent \in Event /\ LogEvent \in Event
  BY TaskFacts, EventFacts
<1>1. CASE DrainLine
  <2>1. RowType' /\ WorkerType'
    BY <1>1 DEF DrainLine, RowType, WorkerType
  <2>2. MemType'
    BY <1>1 DEF DrainLine, MemType
  <2>3. TaskType'
    BY <1>0, <1>1 DEF DrainLine, TaskType, CallAppend, Goto, Label
  <2>4. QED
    BY <2>1, <2>2, <2>3
<1>2. CASE DrainEnd \/ DrainDropped
  <2>1. UNCHANGED <<rowVars, diskVars, workerVars, memVars, supVars, bootVars>>
    BY <1>2 DEF DrainEnd, DrainDropped
  <2>2. RowType' /\ WorkerType' /\ MemType'
    BY <2>1 DEF RowType, WorkerType, MemType
  <2>3. TaskType'
    BY <1>0, <1>2 DEF DrainEnd, DrainDropped, TaskType, Continue, Catch, Forget, Goto, Label, AtRest
  <2>4. QED
    BY <2>2, <2>3
<1>3. QED
  BY <1>1, <1>2 DEF Drain

(* Cancel and delete requests keep the types. *)
LEMMA TypeRequest ==
  ASSUME TypeOK, NEW t \in Requests, Request(t) \/ (t \in Deletes /\ Delete(t))
  PROVE  TypeOK'
<1> USE DEF TypeOK
<1>0. t \in Tasks /\ NoEvent \in Event
  BY TaskFacts, EventFacts
<1>1. CASE RequestRead(t) \/ FinalizeCheck(t)
  <2>1. UNCHANGED <<rowVars, diskVars, workerVars, memVars, supVars, bootVars>>
    BY <1>1 DEF RequestRead, FinalizeCheck
  <2>2. RowType' /\ WorkerType' /\ MemType'
    BY <2>1 DEF RowType, WorkerType, MemType
  <2>3. TaskType'
    BY <1>0, <1>1 DEF RequestRead, FinalizeCheck, TaskType, Continue, Goto, AfterCancel,
       Label, AtRest
  <2>4. QED
    BY <2>2, <2>3
<1>2. CASE CancelRun(t)
  <2>1. RowType' /\ WorkerType'
    BY <1>2 DEF CancelRun, RowType, WorkerType
  <2>2. MemType'
    BY <1>2 DEF CancelRun, MemType
  <2>3. TaskType'
    BY <1>0, <1>2 DEF CancelRun, TaskType, Continue, Goto, AfterCancel, Label, AtRest
  <2>4. QED
    BY <2>1, <2>2, <2>3
<1>3. CASE DeleteLoad(t)
  <2>1. RowType' /\ WorkerType' /\ MemType'
    BY <1>3 DEF DeleteLoad, RowType, WorkerType, MemType
  <2>2. TaskType'
    BY <1>0, <1>3 DEF DeleteLoad, TaskType, RowType, Goto, Label
  <2>3. QED
    BY <2>1, <2>2
<1>4. CASE DeletePurge(t)
  <2>1. RowType'
    BY <1>4 DEF DeletePurge, RowType, Status
  <2>2. WorkerType' /\ MemType'
    BY <1>4 DEF DeletePurge, WorkerType, MemType
  <2>3. TaskType'
    BY <1>0, <1>4 DEF DeletePurge, TaskType, Forget, Goto, Label
  <2>4. QED
    BY <2>1, <2>2, <2>3
<1>5. CASE DeleteDir(t)
  <2>1. RowType' /\ WorkerType' /\ MemType'
    BY <1>5 DEF DeleteDir, RowType, WorkerType, MemType
  <2>2. TaskType'
    BY <1>0, <1>5 DEF DeleteDir, TaskType, Continue, Goto, Label, AtRest
  <2>3. QED
    BY <2>1, <2>2
<1>6. QED
  BY <1>1, <1>2, <1>3, <1>4, <1>5 DEF Request, Delete

(* The worker process and the escalation keep the types. *)
LEMMA TypeWorker ==
  ASSUME TypeOK, Escalate \/ WorkerStep \/ WorkerStderr
  PROVE  TypeOK'
<1> USE DEF TypeOK
<1>1. CASE Escalate
  BY <1>1 DEF Escalate, RowType, WorkerType, MemType, TaskType
<1>2. CASE WorkerStep
  <2>1. RowType' /\ MemType' /\ TaskType'
    BY <1>2 DEF WorkerStep, RowType, MemType, TaskType
  <2>2. \A k \in W!Kind : W!Body(k) \in W!Line
    BY DEF W!Kind, W!Body, W!Line
  <2>3. /\ W!Fatal \in W!Line /\ W!Body("log") \in W!Line
        /\ \A s \in {"completed", "failed", "cancelled"} : W!Done(s) \in W!Line
    BY DEF W!Kind, W!Fatal, W!Body, W!Done, W!Line
  <2>4. out' = out \/ \E l \in W!Line : out' = Append(out, l)
    BY <1>2, <2>2, <2>3 DEF WorkerStep, W!Next, W!EmitBody, W!EmitDone, W!EmitFatal,
       W!EmitTrailer, W!Exit
  <2>5. out' \in Seq(W!Line)
    BY <2>4 DEF WorkerType
  <2>6. flag' = flag /\ proc' \in {"none", "up", "dead"}
    BY <1>2 DEF WorkerStep, WorkerType, W!Next, W!EmitBody, W!EmitDone, W!EmitFatal,
       W!EmitTrailer, W!Exit
  <2>7. UNCHANGED <<dir, errOut, piped>>
    BY <1>2 DEF WorkerStep
  <2>8. WorkerType'
    BY <2>5, <2>6, <2>7 DEF WorkerType
  <2>9. QED
    BY <2>1, <2>8
<1>3. CASE WorkerStderr
  BY <1>3 DEF WorkerStderr, RowType, WorkerType, MemType, TaskType
<1>4. QED
  BY <1>1, <1>2, <1>3

(* Stops and boots of API processes keep the types. *)
LEMMA TypeApiProcess ==
  ASSUME TypeOK, ApiProcess
  PROVE  TypeOK'
<1> USE DEF TypeOK
<1>1. ASSUME ProcessGone
      PROVE  TaskType'
  BY <1>1, EventFacts DEF ProcessGone, TaskType, Label, AtRest
<1>2. CASE Crash \/ ShutdownDrain
  <2>0. piped' = FALSE /\ UNCHANGED <<rowVars, diskVars, proc, out, errOut>>
    BY <1>2 DEF Crash, ShutdownDrain, ProcessGone
  <2>1. RowType' /\ WorkerType'
    BY <2>0 DEF RowType, WorkerType
  <2>2. MemType'
    <3>1. CASE Crash
      <4>1. restarts' \in Nat /\ api' = "down" /\ UNCHANGED <<supVars, peerBoots>>
        BY <3>1 DEF Crash, ProcessGone, MemType
      <4>2. registered' = FALSE /\ cancelRequested' = FALSE /\ armed' = FALSE
        BY <3>1 DEF Crash, ProcessGone
      <4>3. QED
        BY <4>1, <4>2 DEF MemType
    <3>2. CASE ShutdownDrain
      BY <3>2 DEF ShutdownDrain, ProcessGone, MemType
    <3>3. QED
      BY <1>2, <3>1, <3>2
  <2>3. QED
    BY <1>1, <1>2, <2>1, <2>2 DEF Crash, ShutdownDrain
<1>3. CASE ShutdownKill
  <2>1. RowType' /\ WorkerType' /\ TaskType'
    BY <1>3 DEF ShutdownKill, RowType, WorkerType, TaskType
  <2>2. MemType'
    BY <1>3 DEF ShutdownKill, MemType
  <2>3. QED
    BY <2>1, <2>2
<1>4. CASE Boot \/ PeerBoot
  <2>1. WorkerType' /\ TaskType'
    BY <1>4 DEF Boot, PeerBoot, WorkerType, TaskType
  <2>2. RowType'
    BY <1>4 DEF Boot, PeerBoot, MarkOrphansFailed, RowType, Status, Terminal
  <2>3. MemType'
    BY <1>4 DEF Boot, PeerBoot, MemType
  <2>4. QED
    BY <2>1, <2>2, <2>3
<1>5. QED
  BY <1>2, <1>3, <1>4 DEF ApiProcess

(* TypeOK is preserved by every step (given LogInv, which makes the final  *)
(* status of a supervisor that finalizes a real status).                   *)
LEMMA TypeStep ==
  ASSUME TypeOK, LogInv, [Next]_vars
  PROVE  TypeOK'
<1>1. CASE UNCHANGED vars
  BY <1>1 DEF vars, TypeOK, RowType, WorkerType, MemType, TaskType
<1>2. CASE Next
  BY <1>2, TypeAppend, TypeStart, TypeSupervise, TypeFinalize, TypeDrain, TypeRequest,
     TypeWorker, TypeApiProcess, TaskFacts DEF Next
<1>3. QED
  BY <1>1, <1>2
-----------------------------------------------------------------------------
(* What preserves LogInv when the events and the counter are left alone.   *)
LEMMA LogFrame ==
  ASSUME LogInv, UNCHANGED <<lastSeq, events>>, RowExists' => RowExists,
         pc'["start"] = "idle" => pc["start"] = "idle",
         \A t \in Tasks : app'[t] = "commit" => rd'[t] <= lastSeq,
         pc'["sup"] \in {"exitlog", "finalize"} => verdict' \in Terminal
  PROVE  LogInv'
BY DEF LogInv, LogDense, RowExists

(* _append_event keeps the log dense: the unique index refuses a used number. *)
LEMMA LogAppend ==
  ASSUME TypeOK, LogInv, NEW t \in Tasks, AppendRead(t) \/ AppendCommit(t)
  PROVE  LogInv'
<1> USE DEF TypeOK, TaskType, RowType
<1>1. CASE AppendRead(t)
  <2>1. \A u \in Tasks : app'[u] = "commit" => rd'[u] <= lastSeq
    BY <1>1 DEF AppendRead, Forget, LogInv
  <2>2. UNCHANGED <<status, lastSeq, events, pc, verdict>>
    BY <1>1 DEF AppendRead
  <2>3. QED
    BY <2>1, <2>2, LogFrame DEF LogInv, RowExists
<1>2. CASE AppendCommit(t) /\ ~CommitOk(t)
  <2>1. \A u \in Tasks : app'[u] = "commit" => rd'[u] <= lastSeq
    BY <1>2 DEF AppendCommit, Forget, LogInv
  <2>2. UNCHANGED <<status, lastSeq, events, pc, verdict>>
    BY <1>2 DEF AppendCommit
  <2>3. QED
    BY <2>1, <2>2, LogFrame DEF LogInv, RowExists
<1>3. CASE AppendCommit(t) /\ CommitOk(t)
  (* The number read is not used yet, so by density it is the counter. *)
  <2>1. RowExists /\ rd[t] \in Nat /\ rd[t] <= lastSeq
    BY <1>3 DEF AppendCommit, CommitOk, LogInv
  <2>2. rd[t] + 1 \notin 1..lastSeq
    BY <1>3, <2>1 DEF CommitOk, LogInv, LogDense
  <2>3. rd[t] = lastSeq
    BY <2>1, <2>2
  <2> DEFINE new == [ev[t] EXCEPT !.seq = lastSeq + 1]
  <2>4. /\ lastSeq' = lastSeq + 1 /\ events' = events \cup {new}
        /\ UNCHANGED <<status, pc, verdict>>
    BY <1>3, <2>3 DEF AppendCommit
  <2>5. new.seq = lastSeq + 1
    BY DEF Event
  <2> HIDE DEF new
  <2>6. LogDense
    BY DEF LogInv
  <2>7. LogDense'
    <3>1. \A n \in 1..(lastSeq + 1) : \E e \in events \cup {new} : e.seq = n
      BY <2>1, <2>5, <2>6 DEF LogDense
    <3>2. \A e \in events \cup {new} : e.seq \in 1..(lastSeq + 1)
      BY <2>1, <2>5, <2>6 DEF LogDense
    <3>3. \A e, f \in events \cup {new} : e.seq = f.seq => e = f
      BY <2>1, <2>5, <2>6 DEF LogDense
    <3>4. QED
      BY <2>4, <3>1, <3>2, <3>3 DEF LogDense
  <2>8. \A u \in Tasks : app'[u] = "commit" => rd'[u] <= lastSeq'
    BY <1>3, <2>4 DEF AppendCommit, Forget, LogInv
  <2>9. pc'["start"] # "idle"
    BY <2>1, <2>4 DEF LogInv
  <2>10. QED
    BY <2>4, <2>7, <2>8, <2>9 DEF LogInv
<1>4. QED
  BY <1>1, <1>2, <1>3

(* create_run and start_run keep the log dense. *)
LEMMA LogStart ==
  ASSUME TypeOK, LogInv, Start
  PROVE  LogInv'
<1> USE DEF TypeOK, TaskType, RowType
<1>0. "start" \in Tasks /\ "sup" \in Tasks
  BY TaskFacts
<1>1. CASE CreateRun
  <2>1. /\ lastSeq = 0 /\ events = {} /\ UNCHANGED <<lastSeq, events, app, rd, verdict>>
        /\ pc'["start"] = "spawn" /\ pc'["sup"] = pc["sup"]
    BY <1>0, <1>1 DEF CreateRun, Continue, Goto, LogInv
  <2>2. LogDense'
    BY <2>1 DEF LogDense
  <2>3. QED
    BY <2>1, <2>2 DEF LogInv
<1>2. CASE Spawn \/ SpawnFails \/ MarkRunning
  <2>1. /\ UNCHANGED <<lastSeq, events, app, rd, verdict>> /\ (RowExists' => RowExists)
        /\ pc'["start"] # "idle" /\ pc'["sup"] = pc["sup"]
    BY <1>0, <1>2 DEF Spawn, SpawnFails, MarkRunning, Continue, Goto, RowExists
  <2>2. QED
    BY <2>1, LogFrame DEF LogInv
<1>3. CASE StartSnapshot \/ LaunchFails
  <2>1. /\ UNCHANGED <<status, lastSeq, events, verdict>>
        /\ pc'["start"] # "idle" /\ pc'["sup"] = pc["sup"]
    BY <1>0, <1>3 DEF StartSnapshot, LaunchFails, CallAppend, Catch, Goto
  <2>2. \A u \in Tasks : app'[u] = "commit" => rd'[u] <= lastSeq
    BY <1>0, <1>3 DEF StartSnapshot, LaunchFails, CallAppend, Catch, Forget, LogInv
  <2>3. QED
    BY <2>1, <2>2, LogFrame DEF LogInv, RowExists
<1>4. CASE Launch
  <2>1. /\ UNCHANGED <<status, lastSeq, events, app, rd, verdict>>
        /\ pc'["start"] = "done" /\ pc'["sup"] = "begin"
    BY <1>0, <1>4 DEF Launch
  <2>2. QED
    BY <2>1, LogFrame DEF LogInv, RowExists
<1>5. QED
  BY <1>1, <1>2, <1>3, <1>4 DEF Start

(* _supervise keeps the log dense and chooses a final status. *)
LEMMA LogSupervise ==
  ASSUME TypeOK, LogInv, Supervise
  PROVE  LogInv'
<1> USE DEF TypeOK, TaskType, RowType, MemType
<1>0. "start" \in Tasks /\ "sup" \in Tasks /\ "err" \in Tasks /\ "start" # "sup" /\ "start" # "err"
  BY TaskFacts
<1>1. UNCHANGED <<status, lastSeq, events>> /\ pc'["start"] = pc["start"]
  BY <1>0 DEF Supervise, SupBegin, ConsumeLine, ConsumeEOF, RunTimeout, TimeoutLogged,
     SupervisorCrash, Leave, ExitLogged, ExitLogRaises, CallAppend, Catch, Continue, Goto
<1>2. \A u \in Tasks : app'[u] = "commit" => rd'[u] <= lastSeq
  <2>1. CASE Leave
    BY <1>0, <2>1 DEF Leave, LogInv
  <2>2. ASSUME NEW l, Catch("sup", l)
        PROVE  \A u \in Tasks : app'[u] = "commit" => rd'[u] <= lastSeq
    BY <1>0, <2>2 DEF Catch, Forget, LogInv
  <2>3. ASSUME NEW e, NEW l, CallAppend("sup", e, l)
        PROVE  \A u \in Tasks : app'[u] = "commit" => rd'[u] <= lastSeq
    BY <1>0, <2>3 DEF CallAppend, LogInv
  <2>4. CASE UNCHANGED <<app, rd>>
    BY <2>4 DEF LogInv
  <2>5. \/ Leave \/ UNCHANGED <<app, rd>>
        \/ \E l : Catch("sup", l)
        \/ \E e, l : CallAppend("sup", e, l)
    BY DEF Supervise, SupBegin, ConsumeLine, ConsumeEOF, RunTimeout, TimeoutLogged,
       SupervisorCrash, ExitLogged, ExitLogRaises, Continue
  <2>6. QED
    BY <2>1, <2>2, <2>3, <2>4, <2>5
<1>3. pc'["sup"] \in {"exitlog", "finalize"} => verdict' \in Terminal
  <2>1. CASE Leave
    BY <1>0, <2>1 DEF Leave, Terminal
  <2>2. CASE ExitLogged
    BY <1>0, <2>2 DEF ExitLogged, Returned, Continue, LogInv
  <2>3. CASE ~Leave /\ ~ExitLogged
    BY <1>0, <2>3 DEF Supervise, SupBegin, ConsumeLine, ConsumeEOF, RunTimeout, TimeoutLogged,
       SupervisorCrash, ExitLogRaises, Returned, CallAppend, Catch, Continue, Goto
  <2>4. QED
    BY <2>1, <2>2, <2>3
<1>4. QED
  BY <1>1, <1>2, <1>3, LogFrame DEF LogInv, RowExists

(* _finalize, _drain_stderr and requests keep the log dense. *)
LEMMA LogTasks ==
  ASSUME TypeOK, LogInv,
         \/ \E t \in {"sup"} \cup Requests : Finalize(t)
         \/ Drain
         \/ \E t \in Requests : Request(t)
         \/ \E t \in Deletes : DeleteLoad(t) \/ DeleteDir(t)
  PROVE  LogInv'
<1> USE DEF TypeOK, TaskType, RowType
<1>0. /\ "start" \in Tasks /\ "sup" \in Tasks /\ "err" \in Tasks
      /\ \A t \in Requests : t \in Tasks /\ t # "start" /\ t # "sup"
      /\ \A t \in Deletes : t \in Requests
  BY TaskFacts
<1>1. UNCHANGED <<lastSeq, events, verdict>> /\ (RowExists' => RowExists)
  BY DEF Finalize, FinalizeUpdate, FinalizeEvent, FinalizeEnd, Drain, DrainLine, DrainEnd,
     DrainDropped, Request, RequestRead, CancelRun, FinalizeCheck, DeleteLoad, DeleteDir, RowExists
<1>2. pc'["start"] = pc["start"]
  BY <1>0 DEF Finalize, FinalizeUpdate, FinalizeEvent, FinalizeEnd, Drain, DrainLine, DrainEnd,
     DrainDropped, Request, RequestRead, CancelRun, FinalizeCheck, DeleteLoad, DeleteDir,
     CallAppend, Catch, Continue, Goto
<1>3. pc'["sup"] \in {"exitlog", "finalize"} => pc["sup"] = pc'["sup"]
  BY <1>0 DEF Finalize, FinalizeUpdate, FinalizeEvent, FinalizeEnd, Drain, DrainLine, DrainEnd,
     DrainDropped, Request, RequestRead, CancelRun, FinalizeCheck, DeleteLoad, DeleteDir,
     CallAppend, Catch, Continue, Goto, AfterCancel
<1>4. \A u \in Tasks : app'[u] = "commit" => rd'[u] <= lastSeq
  <2>1. ASSUME NEW t \in Tasks, NEW l, Catch(t, l)
        PROVE  \A u \in Tasks : app'[u] = "commit" => rd'[u] <= lastSeq
    BY <2>1 DEF Catch, Forget, LogInv
  <2>2. ASSUME NEW t \in Tasks, NEW e, NEW l, CallAppend(t, e, l)
        PROVE  \A u \in Tasks : app'[u] = "commit" => rd'[u] <= lastSeq
    BY <2>2 DEF CallAppend, LogInv
  <2>3. CASE UNCHANGED <<app, rd>>
    BY <2>3 DEF LogInv
  <2>4. ASSUME NEW t \in Deletes, DeleteLoad(t)
        PROVE  \A u \in Tasks : app'[u] = "commit" => rd'[u] <= lastSeq
    BY <1>0, <2>4 DEF DeleteLoad, LogInv
  <2>5. \/ UNCHANGED <<app, rd>>
        \/ \E t \in Tasks : \E l : Catch(t, l)
        \/ \E t \in Tasks : \E e, l : CallAppend(t, e, l)
        \/ \E t \in Deletes : DeleteLoad(t)
    BY <1>0 DEF Finalize, FinalizeUpdate, FinalizeEvent, FinalizeEnd, Drain, DrainLine, DrainEnd,
       DrainDropped, Request, RequestRead, CancelRun, FinalizeCheck, DeleteDir, Continue
  <2>6. QED
    BY <2>1, <2>2, <2>3, <2>4, <2>5
<1>5. QED
  BY <1>1, <1>2, <1>3, <1>4, LogFrame DEF LogInv

(* delete_run keeps the log dense: no row is left to be dense. *)
LEMMA LogDelete ==
  ASSUME TypeOK, LogInv, NEW t \in Deletes, DeletePurge(t)
  PROVE  LogInv'
<1> USE DEF TypeOK, TaskType, RowType
<1>0. /\ "start" \in Tasks /\ "sup" \in Tasks
      /\ t \in Tasks /\ t # "start" /\ t # "sup"
  BY TaskFacts
<1>1. /\ status' = "absent" /\ UNCHANGED <<lastSeq, app, verdict>>
      /\ pc'["start"] = pc["start"] /\ pc'["sup"] = pc["sup"]
      /\ events' \subseteq events
  BY <1>0 DEF DeletePurge, Goto
<1>2. \A u \in Tasks : app'[u] = "commit" => rd'[u] <= lastSeq
  BY <1>0 DEF DeletePurge, Forget, LogInv
<1>3. QED
  BY <1>1, <1>2 DEF LogInv, LogDense, RowExists

(* The worker and the API process keep the log dense. *)
LEMMA LogOthers ==
  ASSUME TypeOK, LogInv, Escalate \/ WorkerStep \/ WorkerStderr \/ ApiProcess
  PROVE  LogInv'
<1> USE DEF TypeOK, TaskType, RowType
<1>0. "start" \in Tasks /\ "sup" \in Tasks
  BY TaskFacts
<1>1. CASE Escalate \/ WorkerStep \/ WorkerStderr \/ ShutdownKill
  <2>1. UNCHANGED <<status, lastSeq, events, pc, app, rd, verdict>>
    BY <1>1 DEF Escalate, WorkerStep, WorkerStderr, ShutdownKill
  <2>2. QED
    BY <2>1, LogFrame DEF LogInv, RowExists
<1>2. CASE Crash \/ ShutdownDrain
  <2>1. /\ UNCHANGED <<status, lastSeq, events, verdict>>
        /\ pc'["start"] = "idle" => pc["start"] = "idle"
        /\ pc'["sup"] \in {"exitlog", "finalize"} => pc["sup"] = pc'["sup"]
    BY <1>0, <1>2 DEF Crash, ShutdownDrain, ProcessGone
  <2>2. \A u \in Tasks : app'[u] = "commit" => (app[u] = "commit" /\ rd'[u] = rd[u])
    BY <1>2 DEF Crash, ShutdownDrain, ProcessGone
  <2>3. QED
    BY <2>1, <2>2, LogFrame DEF LogInv, RowExists
<1>3. CASE Boot \/ PeerBoot
  <2>1. UNCHANGED <<lastSeq, events, pc, app, rd, verdict>> /\ (RowExists' => RowExists)
    BY <1>3 DEF Boot, PeerBoot, MarkOrphansFailed, Active, RowExists
  <2>2. QED
    BY <2>1, LogFrame DEF LogInv
<1>4. QED
  BY <1>1, <1>2, <1>3 DEF ApiProcess

(* LogInv is preserved by every step. *)
LEMMA LogStep ==
  ASSUME TypeOK, LogInv, [Next]_vars
  PROVE  LogInv'
<1>1. CASE UNCHANGED vars
  BY <1>1, LogFrame DEF vars, LogInv, RowExists
<1>2. CASE Next
  BY <1>2, LogAppend, LogStart, LogSupervise, LogTasks, LogDelete, LogOthers DEF Next, Delete
<1>3. QED
  BY <1>1, <1>2
-----------------------------------------------------------------------------
(* Every reachable state is well typed and its log invariant holds: the    *)
(* inductive argument for all results of this module.                      *)
THEOREM Invariance == Spec => [](TypeOK /\ LogInv)
<1>1. Init => TypeOK /\ LogInv
  <2>1. Init => LogInv
    <3> SUFFICES ASSUME Init PROVE LogInv
      OBVIOUS
    <3>1. /\ status = "absent" /\ lastSeq = 0 /\ events = {}
          /\ \A t \in Tasks : app[t] = "idle" /\ pc[t] = "idle"
      BY DEF Init
    <3>2. QED
      BY <3>1, TaskFacts DEF LogInv, LogDense, RowExists
  <2>2. QED
    BY <2>1, InitType
<1>2. TypeOK /\ LogInv /\ [Next]_vars => TypeOK' /\ LogInv'
  BY TypeStep, LogStep
<1>3. QED
  BY <1>1, <1>2, PTL DEF Spec

(* Every variable keeps its type, whatever the number of requests, lines   *)
(* and restarts.                                                           *)
THEOREM TypeCorrect == Spec => []TypeOK
BY Invariance, PTL

(* Whatever tasks append concurrently, the stored log of a run has the     *)
(* sequence numbers 1..last_seq, each once: _append_event relies on the    *)
(* unique index alone, not on any lock.                                    *)
THEOREM LogIsDense == Spec => []LogDense
<1>1. LogInv => LogDense
  BY DEF LogInv
<1>2. QED
  BY <1>1, Invariance, PTL
-----------------------------------------------------------------------------
(* One step of JobManager is one step of RunLog, or leaves the record.     *)
LEMMA RecordStep ==
  ASSUME TypeOK, LogInv, [Next]_vars
  PROVE  [Log!Next]_(Log!logVars)
<1> USE DEF TypeOK, RowType, TaskType, Log!logVars, Log!RowExists, RowExists
<1>1. CASE CreateRun
  BY <1>1 DEF CreateRun, LogInv, Log!Next, Log!Create
<1>2. ASSUME NEW t \in Tasks, AppendCommit(t)
      PROVE  [Log!Next]_(Log!logVars)
  <2>1. CASE ~CommitOk(t)
    BY <1>2, <2>1 DEF AppendCommit
  <2>2. CASE CommitOk(t)
    <3>1. rd[t] \in Nat /\ rd[t] <= lastSeq /\ rd[t] + 1 \notin 1..lastSeq
      BY <1>2, <2>2 DEF AppendCommit, CommitOk, LogInv, LogDense
    <3>2. rd[t] = lastSeq
      BY <3>1
    <3> DEFINE new == [ev[t] EXCEPT !.seq = lastSeq + 1]
    <3>3. new \in Event /\ new.seq = lastSeq + 1
      BY DEF Event
    <3>4. events' = events \cup {new} /\ lastSeq' = lastSeq + 1 /\ status' = status
      BY <1>2, <2>2, <3>2 DEF AppendCommit
    <3>5. Event = Log!Event
      BY DEF Event, EventType, Status, Active, Terminal,
             Log!Event, Log!EventType, Log!Status, Log!Active, Log!Terminal
    <3> HIDE DEF new
    <3>6. new \in events'
      BY <3>4
    <3>7. Log!AppendEvent
      BY <2>2, <3>3, <3>4, <3>5, <3>6 DEF CommitOk, Log!AppendEvent
    <3>8. QED
      BY <3>7 DEF Log!Next
  <2>3. QED
    BY <2>1, <2>2
<1>3. ASSUME NEW t \in Tasks, AppendRead(t)
      PROVE  [Log!Next]_(Log!logVars)
  BY <1>3 DEF AppendRead
<1>4. CASE MarkRunning
  BY <1>4 DEF MarkRunning, Log!Next, Log!SetStatus, Log!Active
<1>5. CASE Start /\ ~CreateRun /\ ~MarkRunning
  BY <1>5 DEF Start, Spawn, SpawnFails, StartSnapshot, Launch, LaunchFails
<1>6. CASE Supervise
  BY <1>6 DEF Supervise, SupBegin, ConsumeLine, ConsumeEOF, RunTimeout, TimeoutLogged,
     SupervisorCrash, Leave, ExitLogged, ExitLogRaises
<1>7. ASSUME NEW t \in {"sup"} \cup Requests, Finalize(t)
      PROVE  [Log!Next]_(Log!logVars)
  <2>1. CASE FinalizeUpdate(t)
    <3>1. FinalStatus(t) \in Terminal
      BY <2>1 DEF FinalizeUpdate, FinalStatus, LogInv, Terminal
    <3>2. QED
      BY <2>1, <3>1 DEF FinalizeUpdate, Log!Next, Log!SetStatus, Log!Terminal, Terminal
  <2>2. CASE FinalizeEvent(t) \/ FinalizeEnd(t)
    BY <2>2 DEF FinalizeEvent, FinalizeEnd
  <2>3. QED
    BY <1>7, <2>1, <2>2 DEF Finalize
<1>8. CASE Drain \/ (\E t \in Requests : Request(t))
  BY <1>8 DEF Drain, DrainLine, DrainEnd, DrainDropped, Request, RequestRead, CancelRun,
     FinalizeCheck
<1>9. ASSUME NEW t \in Deletes, Delete(t)
      PROVE  [Log!Next]_(Log!logVars)
  <2>1. CASE DeletePurge(t)
    BY <2>1 DEF DeletePurge, Log!Next, Log!Purge
  <2>2. CASE DeleteLoad(t) \/ DeleteDir(t)
    BY <2>2 DEF DeleteLoad, DeleteDir
  <2>3. QED
    BY <1>9, <2>1, <2>2 DEF Delete
<1>10. CASE Escalate \/ WorkerStep \/ WorkerStderr \/ Crash \/ ShutdownKill \/ ShutdownDrain
  BY <1>10 DEF Escalate, WorkerStep, WorkerStderr, Crash, ShutdownKill, ShutdownDrain
<1>11. CASE Boot \/ PeerBoot
  BY <1>11 DEF Boot, PeerBoot, MarkOrphansFailed, Active, Log!Next, Log!SetStatus, Log!Terminal
<1>12. CASE UNCHANGED vars
  BY <1>12 DEF vars
<1>13. QED
  BY <1>1, <1>2, <1>3, <1>4, <1>5, <1>6, <1>7, <1>8, <1>9, <1>10, <1>11, <1>12
     DEF Next, ApiProcess

(* JobManager implements RunLog: seen through the row and its events, all  *)
(* its tasks together only create, update, append and purge.               *)
THEOREM Refinement == Spec => ImplementsRunLog
<1>1. Init => Log!Init
  BY DEF Init, Log!Init
<1>2. TypeOK /\ LogInv /\ [Next]_vars => [Log!Next]_(Log!logVars)
  BY RecordStep
<1>3. QED
  BY <1>1, <1>2, Invariance, PTL DEF Spec, ImplementsRunLog, Log!Spec
-----------------------------------------------------------------------------
(* The life of a run: its tasks, its row, its worker and its lines. *)

(* Where each of the three tasks of the owner can be. *)
StartLabel == {"idle", "spawn", "mark", "snapshot", "launch", "done", "raised", "lost"}
SupLabel   == {"idle", "begin", "consume", "timedout", "leave", "exitlog", "finalize", "final",
               "end", "done", "raised", "lost"}

(* The callers of _append_event wait at these labels (a cancelled drainer  *)
(* does not wait, but its commit may still be under way).                  *)
AppendAt == {"launch", "consume", "timedout", "exitlog", "end", "drain", "cancelled"}

(* The supervisor is past its finally block; it has written the final      *)
(* status; it has not yet written it.                                      *)
Left      == {"exitlog", "finalize", "final", "end", "done", "raised"}
Finalized == {"final", "end", "done"}
Deciding  == {"leave", "exitlog", "finalize"}

(* The control of the tasks: there is a supervisor only once start_run is  *)
(* through, the drainer is cancelled before the final status is chosen,    *)
(* and an append is only under way where a caller waits for it.            *)
ControlInv ==
  /\ pc["start"] \in StartLabel /\ pc["sup"] \in SupLabel
  /\ pc["sup"] # "idle" => pc["start"] \in {"done", "lost"}
  /\ pc["start"] = "done" => pc["sup"] # "idle"
  /\ pc["sup"] = "lost" => pc["start"] = "lost"
  /\ pc["sup"] \in Left => pc["err"] = "cancelled"
  /\ pc["err"] = "cancelled" => app["err"] # "read"

AppendInv ==
  /\ \A t \in Tasks : app[t] # "idle" => pc[t] \in AppendAt
  /\ \A t \in Tasks : app[t] \in {"idle", "raised"} => ev[t] = NoEvent

(* The row: final once the supervisor has finalized it, and not taken for  *)
(* active any more once a process that lost its tasks is up again.         *)
RowInv ==
  /\ (pc["sup"] \in Finalized /\ RowExists) => (status \in Terminal /\ ~activity)
  /\ (pc["start"] = "lost" /\ api # "down") => status \notin Active

(* The worker: a supervisor leaves a live one behind only with "failed". *)
ReachInv ==
  /\ pc["sup"] = "timedout" => proc = "dead"
  /\ (pc["sup"] = "leave" /\ proc = "up") => verdict = "failed"
  /\ WorkerReachable

TerminalNote(e) == e.type = "run_status" /\ e.st \in Terminal

(* The last event: while the run is left alone only the supervisor can     *)
(* announce a terminal status, and then no pending append holds a number   *)
(* that is still free.                                                     *)
NoteInv ==
  /\ restarts = 0 => api = "up"
  /\ TerminalNote(ev["sup"]) => pc["sup"] = "end"
  /\ Undisturbed =>
       /\ pc["start"] # "idle" => RowExists
       /\ pc["start"] = "snapshot" => status \notin Terminal
       /\ \A t \in Tasks : TerminalNote(ev[t]) => t = "sup"
       /\ \A e \in events : TerminalNote(e) =>
            /\ e.seq = lastSeq
            /\ pc["sup"] \in {"end", "done"} /\ app["sup"] = "idle"
            /\ \A t \in Tasks : app[t] = "commit" => rd[t] < lastSeq

(* The lines: only the supervisor appends them, one at a time, in order. *)
LineInv ==
  /\ nread <= Len(out)
  /\ pc["sup"] \in {"idle", "begin"} => nread = 0
  /\ \A e \in events : e.line <= nread
  /\ \A t \in Tasks : t # "sup" => ev[t].line = 0
  /\ ev["sup"].line # 0 =>
       /\ pc["sup"] = "consume" /\ ev["sup"].line = nread
       /\ \A e \in events : e.line < nread
  /\ \A e, f \in events : (e.line # 0 /\ f.line # 0 /\ e.seq < f.seq) => e.line < f.line

(* Line i is stored, or the append of it is under way. *)
Kept(i)    == \E e \in events : e.line = i /\ e.type = out[i].kind
Pending(i) == /\ app["sup"] \in {"read", "commit"}
              /\ ev["sup"].line = i /\ ev["sup"].type = out[i].kind

(* Every line read is kept, until an append fails. *)
KeptInv ==
  /\ \A i \in results : i \in 1..nread /\ out[i].kind = "result"
  /\ (pc["sup"] = "consume" /\ app["sup"] # "raised" /\ RowExists)
       => \A i \in 1..nread : out[i].kind \in W!Kind => (Kept(i) \/ Pending(i))
  /\ pc["sup"] = "timedout" => verdict # "completed"
  /\ (pc["sup"] \in Deciding /\ verdict = "completed")
       => /\ nread = Len(out) /\ proc = "dead"
          /\ RowExists => \A i \in 1..nread : out[i].kind \in W!Kind => Kept(i)
  /\ status = "completed"
       => /\ pc["sup"] \in Finalized \cup {"raised", "lost"}
          /\ nread = Len(out) /\ proc = "dead"
          /\ \A i \in 1..nread : out[i].kind \in W!Kind => Kept(i)


(* A step of a cancel or delete request concerns that request's task only, *)
(* and neither the worker's output nor the supervisor's variables.         *)
LEMMA RequestFrame ==
  ASSUME TypeOK, NEW t \in Requests, Finalize(t) \/ Request(t) \/ (t \in Deletes /\ Delete(t))
  PROVE  /\ \A u \in Tasks : u # t =>
              pc'[u] = pc[u] /\ app'[u] = app[u] /\ ev'[u] = ev[u] /\ rd'[u] = rd[u]
         /\ UNCHANGED <<workerVars, api, registered, supVars, bootVars>>
<1> USE DEF TypeOK, TaskType
<1>1. t \in Tasks
  BY TaskFacts
<1>2. CASE Finalize(t)
  BY <1>1, <1>2 DEF Finalize, FinalizeUpdate, FinalizeEvent, FinalizeEnd, CallAppend, Catch,
     Continue, Forget, Goto
<1>3. CASE Request(t)
  BY <1>1, <1>3 DEF Request, RequestRead, CancelRun, FinalizeCheck, Continue, Goto
<1>4. CASE Delete(t)
  BY <1>1, <1>4 DEF Delete, DeleteLoad, DeletePurge, DeleteDir, Continue, Forget, Goto
<1>5. QED
  BY <1>2, <1>3, <1>4

(* The control invariant is preserved. *)
LEMMA ControlStep ==
  ASSUME TypeOK, ControlInv, AppendInv, [Next]_vars
  PROVE  ControlInv'
<1> USE DEF TypeOK, TaskType
<1>0. /\ "start" \in Tasks /\ "sup" \in Tasks /\ "err" \in Tasks
      /\ "start" \notin Requests /\ "sup" \notin Requests /\ "err" \notin Requests
      /\ Deletes \subseteq Requests
  BY TaskFacts
<1>1. ASSUME NEW t \in Tasks, AppendRead(t) \/ AppendCommit(t)
      PROVE  ControlInv'
  BY <1>0, <1>1 DEF AppendRead, AppendCommit, ControlInv
<1>2. CASE Start
  BY <1>0, <1>2 DEF Start, CreateRun, Spawn, SpawnFails, MarkRunning, StartSnapshot, Launch,
     LaunchFails, Returned, Raised, CallAppend, Catch, Continue, Goto, ControlInv,
     StartLabel, SupLabel, Left
<1>3. CASE Leave
  BY <1>0, <1>3 DEF Leave, ControlInv, StartLabel, SupLabel, Left
<1>4. CASE Supervise /\ ~Leave
  BY <1>0, <1>4 DEF Supervise, SupBegin, ConsumeLine, ConsumeEOF, RunTimeout, TimeoutLogged,
     SupervisorCrash, ExitLogged, ExitLogRaises, Returned, Raised, CallAppend, Catch, Continue,
     Goto, ControlInv, StartLabel, SupLabel, Left
<1>5. CASE Finalize("sup")
  BY <1>0, <1>5 DEF Finalize, FinalizeUpdate, FinalizeEvent, FinalizeEnd, Returned, Raised,
     CallAppend, Catch, Continue, Goto, AfterCancel, ControlInv, StartLabel, SupLabel, Left
<1>6. CASE Drain
  BY <1>0, <1>6 DEF Drain, DrainLine, DrainEnd, DrainDropped, Returned, Raised, CallAppend,
     Catch, Continue, Goto, ControlInv, StartLabel, SupLabel, Left
<1>7. ASSUME NEW t \in Requests, Finalize(t) \/ Request(t) \/ (t \in Deletes /\ Delete(t))
      PROVE  ControlInv'
  <2>1. \A u \in {"start", "sup", "err"} : pc'[u] = pc[u] /\ app'[u] = app[u]
    BY <1>0, <1>7, RequestFrame
  <2>2. QED
    BY <2>1 DEF ControlInv
<1>8. CASE Escalate \/ WorkerStep \/ WorkerStderr \/ ShutdownKill \/ Boot \/ PeerBoot
           \/ UNCHANGED vars
  <2>1. UNCHANGED <<pc, app>>
    BY <1>8 DEF Escalate, WorkerStep, WorkerStderr, ShutdownKill, Boot, PeerBoot, vars
  <2>2. QED
    BY <2>1 DEF ControlInv
<1>9. CASE Crash \/ ShutdownDrain
  <2>1. "start" \in LocalTasks /\ "sup" \in LocalTasks /\ "err" \in LocalTasks
    BY <1>0 DEF LocalTasks, Requests
  <2>2. ProcessGone
    BY <1>9 DEF Crash, ShutdownDrain
  <2>3. QED
    BY <1>0, <2>1, <2>2 DEF ProcessGone, ControlInv, StartLabel, SupLabel, Left
<1>10. QED
  BY <1>0, <1>1, <1>2, <1>3, <1>4, <1>5, <1>6, <1>7, <1>8, <1>9 DEF Next, ApiProcess

(* Where appends are under way, and with which event. *)
LEMMA AppendStep ==
  ASSUME TypeOK, ControlInv, AppendInv, [Next]_vars
  PROVE  AppendInv'
<1> USE DEF TypeOK, TaskType
<1>0. /\ "start" \in Tasks /\ "sup" \in Tasks /\ "err" \in Tasks
      /\ "start" \notin Requests /\ "sup" \notin Requests /\ "err" \notin Requests
      /\ Requests \subseteq Tasks /\ Deletes \subseteq Requests
  BY TaskFacts
<1>1. ASSUME NEW t \in Tasks, AppendRead(t) \/ AppendCommit(t)
      PROVE  AppendInv'
  BY <1>0, <1>1 DEF AppendRead, AppendCommit, Forget, AppendInv
<1>2. ASSUME NEW t \in Tasks, NEW e, NEW l \in AppendAt, CallAppend(t, e, l)
      PROVE  AppendInv'
  BY <1>2 DEF CallAppend, Goto, AppendInv
<1>3. ASSUME NEW t \in Tasks, NEW l, Catch(t, l)
      PROVE  AppendInv'
  BY <1>3 DEF Catch, Forget, Goto, AppendInv
<1>4. ASSUME NEW t \in Tasks, NEW l, Continue(t, l), app[t] = "idle"
      PROVE  AppendInv'
  BY <1>4 DEF Continue, Goto, AppendInv
<1>5. CASE UNCHANGED <<pc, app, ev>>
  BY <1>5 DEF AppendInv
<1>6. CASE Start
  <2>1. CASE Launch
    BY <1>0, <2>1 DEF Launch, Returned, AppendInv, AppendAt, ControlInv
  <2>2. \/ Launch
        \/ \E e : CallAppend("start", e, "launch")
        \/ \E l : Catch("start", l)
        \/ app["start"] = "idle" /\ \E l : Continue("start", l)
    BY <1>0, <1>6 DEF Start, CreateRun, Spawn, SpawnFails, MarkRunning, StartSnapshot,
       LaunchFails, AppendInv, AppendAt
  <2>3. QED
    BY <1>0, <1>2, <1>3, <1>4, <2>1, <2>2 DEF AppendAt
<1>7. CASE Leave
  <2>1. \A t \in Tasks : app'[t] # "idle" => pc'[t] \in AppendAt
    BY <1>0, <1>7 DEF Leave, AppendInv, AppendAt
  <2>2. \A t \in Tasks : app'[t] \in {"idle", "raised"} => ev'[t] = NoEvent
    BY <1>0, <1>7 DEF Leave, AppendInv, AppendAt
  <2>3. QED
    BY <2>1, <2>2 DEF AppendInv
<1>8. CASE Supervise /\ ~Leave
  <2>1. CASE SupBegin
    BY <1>0, <2>1 DEF SupBegin, AppendInv, AppendAt
  <2>2. \/ SupBegin \/ UNCHANGED <<pc, app, ev>>
        \/ \E e : \E l \in AppendAt : CallAppend("sup", e, l)
        \/ \E l : Catch("sup", l)
        \/ app["sup"] = "idle" /\ \E l : Continue("sup", l)
    BY <1>0, <1>8 DEF Supervise, ConsumeLine, ConsumeEOF, RunTimeout, TimeoutLogged,
       SupervisorCrash, ExitLogged, ExitLogRaises, Returned, AppendAt
  <2>3. QED
    BY <1>0, <1>2, <1>3, <1>4, <1>5, <2>1, <2>2
<1>9. ASSUME NEW t \in {"sup"} \cup Requests, Finalize(t)
      PROVE  AppendInv'
  <2>1. \/ \E e : CallAppend(t, e, "end")
        \/ \E l : Catch(t, l)
        \/ app[t] = "idle" /\ \E l : Continue(t, l)
    BY <1>0, <1>9 DEF Finalize, FinalizeUpdate, FinalizeEvent, FinalizeEnd, Returned, AppendInv,
       AppendAt
  <2>2. QED
    BY <1>0, <1>2, <1>3, <1>4, <2>1 DEF AppendAt
<1>10. CASE Drain
  <2>1. \/ \E e : CallAppend("err", e, "drain")
        \/ \E l : Catch("err", l)
        \/ app["err"] = "idle" /\ \E l : Continue("err", l)
    BY <1>0, <1>10 DEF Drain, DrainLine, DrainEnd, DrainDropped, Returned
  <2>2. QED
    BY <1>0, <1>2, <1>3, <1>4, <2>1 DEF AppendAt
<1>11. ASSUME NEW t \in Requests, Request(t) \/ (t \in Deletes /\ Delete(t))
       PROVE  AppendInv'
  <2>1. CASE DeletePurge(t)
    BY <1>0, <2>1 DEF DeletePurge, Forget, Goto, AppendInv, AppendAt
  <2>2. CASE DeleteLoad(t)
    BY <1>0, <2>2 DEF DeleteLoad, Goto, AppendInv, AppendAt
  <2>3. \/ DeletePurge(t) \/ DeleteLoad(t)
        \/ app[t] = "idle" /\ \E l : Continue(t, l)
    BY <1>0, <1>11 DEF Request, RequestRead, CancelRun, FinalizeCheck, Delete, DeleteDir,
       AppendInv, AppendAt
  <2>4. QED
    BY <1>0, <1>4, <2>1, <2>2, <2>3
<1>12. CASE Crash \/ ShutdownDrain
  <2>1. ProcessGone
    BY <1>12 DEF Crash, ShutdownDrain
  <2>2. QED
    BY <1>0, <2>1 DEF ProcessGone, AppendInv
<1>13. CASE Escalate \/ WorkerStep \/ WorkerStderr \/ ShutdownKill \/ Boot \/ PeerBoot
            \/ UNCHANGED vars
  BY <1>5, <1>13 DEF Escalate, WorkerStep, WorkerStderr, ShutdownKill, Boot, PeerBoot, vars
<1>14. QED
  BY <1>0, <1>1, <1>6, <1>7, <1>8, <1>9, <1>10, <1>11, <1>12, <1>13 DEF Next, ApiProcess

(* Who writes the status and the activity of the row. *)
LEMMA StatusWriters ==
  ASSUME [Next]_vars
  PROVE  \/ UNCHANGED <<status, activity>> \/ CreateRun \/ MarkRunning \/ ConsumeLine
         \/ MarkOrphansFailed
         \/ \E t \in {"sup"} \cup Requests : FinalizeUpdate(t)
         \/ \E t \in Deletes : DeletePurge(t)
<1>1. ASSUME NEW t \in Tasks, AppendRead(t) \/ AppendCommit(t)
      PROVE  UNCHANGED <<status, activity>>
  BY <1>1 DEF AppendRead, AppendCommit
<1>2. CASE Start
  BY <1>2 DEF Start, Spawn, SpawnFails, StartSnapshot, Launch, LaunchFails
<1>3. CASE Supervise
  BY <1>3 DEF Supervise, SupBegin, ConsumeEOF, RunTimeout, TimeoutLogged, SupervisorCrash, Leave,
     ExitLogged, ExitLogRaises
<1>4. ASSUME NEW t \in {"sup"} \cup Requests, Finalize(t)
      PROVE  FinalizeUpdate(t) \/ UNCHANGED <<status, activity>>
  BY <1>4 DEF Finalize, FinalizeEvent, FinalizeEnd
<1>5. CASE Drain \/ (\E t \in Requests : Request(t)) \/ Escalate \/ WorkerStep \/ WorkerStderr
  BY <1>5 DEF Drain, DrainLine, DrainEnd, DrainDropped, Request, RequestRead, CancelRun,
     FinalizeCheck, Escalate, WorkerStep, WorkerStderr
<1>6. ASSUME NEW t \in Deletes, Delete(t)
      PROVE  DeletePurge(t) \/ UNCHANGED <<status, activity>>
  BY <1>6 DEF Delete, DeleteLoad, DeleteDir
<1>7. CASE ApiProcess
  BY <1>7 DEF ApiProcess, Crash, ShutdownKill, ShutdownDrain, Boot, PeerBoot
<1>8. CASE UNCHANGED vars
  BY <1>8 DEF vars
<1>9. QED
  BY <1>1, <1>2, <1>3, <1>4, <1>5, <1>6, <1>7, <1>8 DEF Next

(* No step makes a row appear, or active again, once start_run is over. *)
LEMMA StatusFrame ==
  ASSUME TypeOK, LogInv, pc["start"] \in {"done", "lost"}, [Next]_vars
  PROVE  /\ RowExists' => RowExists
         /\ status' \in Active => (status' = status)
         /\ activity' => (activity \/ pc["sup"] = "consume")
<1> USE DEF TypeOK, RowExists, Active
<1>1. CASE UNCHANGED <<status, activity>>
  BY <1>1
<1>2. ASSUME NEW t \in {"sup"} \cup Requests, FinalizeUpdate(t)
      PROVE  /\ RowExists' => RowExists
             /\ status' \in Active => (status' = status)
             /\ activity' => activity
  <2>1. FinalStatus(t) \in Terminal
    BY <1>2 DEF FinalizeUpdate, FinalStatus, LogInv, Terminal
  <2>2. QED
    BY <1>2, <2>1 DEF FinalizeUpdate, Terminal, RowType
<1>3. ASSUME NEW t \in Deletes, DeletePurge(t)
      PROVE  status' = "absent" /\ activity' = FALSE
  BY <1>3 DEF DeletePurge
<1>4. CASE MarkOrphansFailed
  BY <1>4 DEF MarkOrphansFailed
<1>5. CASE ConsumeLine
  BY <1>5 DEF ConsumeLine, Returned
<1>6. ~CreateRun /\ ~MarkRunning
  BY DEF CreateRun, MarkRunning
<1>7. QED
  BY <1>1, <1>2, <1>3, <1>4, <1>5, <1>6, StatusWriters

(* Only the supervisor writes "completed". *)
LEMMA CompletedFrame ==
  ASSUME [Next]_vars, status' = "completed"
  PROVE  status = "completed" \/ (FinalizeUpdate("sup") /\ verdict = "completed" /\ RowExists)
<1>1. ASSUME NEW t \in {"sup"} \cup Requests, FinalizeUpdate(t)
      PROVE  status = "completed" \/ (t = "sup" /\ verdict = "completed" /\ RowExists)
  BY <1>1 DEF FinalizeUpdate, FinalStatus
<1>2. CASE CreateRun \/ MarkRunning \/ ConsumeLine \/ MarkOrphansFailed
  BY <1>2 DEF CreateRun, MarkRunning, ConsumeLine, MarkOrphansFailed
<1>3. ASSUME NEW t \in Deletes, DeletePurge(t)
      PROVE  FALSE
  BY <1>3 DEF DeletePurge
<1>4. QED
  BY <1>1, <1>2, <1>3, StatusWriters

(* The supervisor's label changes only through its own steps. *)
LEMMA SupFrame ==
  ASSUME TypeOK, [Next]_vars
  PROVE  \/ pc'["sup"] = pc["sup"]
         \/ Launch \/ Supervise \/ Finalize("sup")
         \/ Crash \/ ShutdownDrain
<1> USE DEF TypeOK, TaskType
<1>0. /\ "start" \in Tasks /\ "sup" \in Tasks /\ "err" \in Tasks
      /\ "start" \notin Requests /\ "sup" \notin Requests /\ "err" \notin Requests
      /\ Deletes \subseteq Requests
  BY TaskFacts
<1>1. ASSUME NEW t \in Tasks, AppendRead(t) \/ AppendCommit(t)
      PROVE  pc' = pc
  BY <1>1 DEF AppendRead, AppendCommit
<1>2. CASE Start /\ ~Launch
  BY <1>0, <1>2 DEF Start, CreateRun, Spawn, SpawnFails, MarkRunning, StartSnapshot,
     LaunchFails, CallAppend, Catch, Continue, Goto
<1>3. CASE Drain
  BY <1>0, <1>3 DEF Drain, DrainLine, DrainEnd, DrainDropped, CallAppend, Catch, Continue, Goto
<1>4. ASSUME NEW t \in Requests, Finalize(t) \/ Request(t) \/ (t \in Deletes /\ Delete(t))
      PROVE  pc'["sup"] = pc["sup"]
  BY <1>0, <1>4, RequestFrame
<1>5. CASE Escalate \/ WorkerStep \/ WorkerStderr \/ ShutdownKill \/ Boot \/ PeerBoot
           \/ UNCHANGED vars
  BY <1>5 DEF Escalate, WorkerStep, WorkerStderr, ShutdownKill, Boot, PeerBoot, vars
<1>6. QED
  BY <1>0, <1>1, <1>2, <1>3, <1>4, <1>5 DEF Next, ApiProcess

(* A finalized row stays final, and orphans are marked at boot. *)
LEMMA RowStep ==
  ASSUME TypeOK, LogInv, ControlInv, RowInv, [Next]_vars
  PROVE  RowInv'
<1> USE DEF TypeOK, TaskType
<1>0. "start" \in Tasks /\ "sup" \in Tasks
  BY TaskFacts
<1>1. ASSUME pc'["sup"] \in Finalized, RowExists'
      PROVE  status' \in Terminal /\ activity' = FALSE
  <2>1. CASE FinalizeUpdate("sup")
    <3>1. RowExists /\ verdict \in Terminal
      BY <1>1, <2>1 DEF FinalizeUpdate, LogInv, RowExists
    <3>2. QED
      BY <2>1, <3>1 DEF FinalizeUpdate, FinalStatus
  <2>2. CASE ~FinalizeUpdate("sup")
    <3>1. pc["sup"] \in Finalized
      BY <1>0, <1>1, <2>2, SupFrame DEF Launch, Supervise, SupBegin, ConsumeLine, ConsumeEOF,
         RunTimeout, TimeoutLogged, SupervisorCrash, Leave, ExitLogged, ExitLogRaises,
         Finalize, FinalizeEvent, FinalizeEnd, Returned, Raised, CallAppend, Catch, Continue, Goto,
         Crash, ShutdownDrain, ProcessGone, LocalTasks, Finalized
    <3>2. RowExists /\ (status' \in Active => status' = status) /\ (activity' => activity)
      BY <1>1, <3>1, StatusFrame DEF Finalized, ControlInv
    <3>3. status \in Terminal /\ ~activity
      BY <3>1, <3>2 DEF RowInv
    <3>4. status' \in Status /\ activity' \in BOOLEAN
      BY TypeStep DEF RowType
    <3>5. QED
      BY <1>1, <3>2, <3>3, <3>4 DEF Status, Active, Terminal, RowExists
  <2>3. QED
    BY <2>1, <2>2
<1>2. ASSUME pc'["start"] = "lost", api' # "down"
      PROVE  status' \notin Active
  <2>1. CASE pc["start"] = "lost" /\ api # "down"
    BY <2>1, StatusFrame DEF RowInv
  <2>2. CASE Boot
    BY <2>2 DEF Boot, MarkOrphansFailed, Active
  <2>3. (pc["start"] = "lost" /\ api # "down") \/ Boot
    <3>1. ASSUME NEW t \in Tasks, AppendRead(t) \/ AppendCommit(t)
          PROVE  UNCHANGED <<pc, api>>
      BY <3>1 DEF AppendRead, AppendCommit
    <3>2. ASSUME NEW t \in Requests, Finalize(t) \/ Request(t) \/ (t \in Deletes /\ Delete(t))
          PROVE  pc'["start"] = pc["start"] /\ api' = api
      BY <1>0, <3>2, TaskFacts, RequestFrame
    <3>3. CASE Start \/ Supervise \/ Finalize("sup") \/ Drain
      BY <1>0, <1>2, <3>3, TaskFacts DEF Start, CreateRun, Spawn, SpawnFails, MarkRunning,
         StartSnapshot, Launch, LaunchFails, Supervise, SupBegin, ConsumeLine, ConsumeEOF,
         RunTimeout, TimeoutLogged, SupervisorCrash, Leave, ExitLogged, ExitLogRaises,
         Finalize, FinalizeUpdate, FinalizeEvent, FinalizeEnd, Drain, DrainLine, DrainEnd,
         DrainDropped, CallAppend, Catch, Continue, Goto
    <3>4. CASE Escalate \/ WorkerStep \/ WorkerStderr \/ ShutdownKill \/ PeerBoot
               \/ UNCHANGED vars
      BY <1>2, <3>4 DEF Escalate, WorkerStep, WorkerStderr, ShutdownKill, PeerBoot, vars
    <3>5. CASE Crash \/ ShutdownDrain
      BY <1>2, <3>5 DEF Crash, ShutdownDrain, ProcessGone
    <3>6. QED
      BY <1>2, <3>1, <3>2, <3>3, <3>4, <3>5, TaskFacts DEF Next, ApiProcess
  <2>4. QED
    BY <2>1, <2>2, <2>3
<1>3. QED
  BY <1>1, <1>2 DEF RowInv

(* Whoever loses sight of a live worker has chosen "failed". *)
LEMMA ReachStep ==
  ASSUME TypeOK, ControlInv, ReachInv, [Next]_vars
  PROVE  ReachInv'
<1> USE DEF TypeOK, TaskType
<1>0. /\ "start" \in Tasks /\ "sup" \in Tasks /\ "err" \in Tasks
      /\ "start" \notin Requests /\ "sup" \notin Requests /\ "err" \notin Requests
      /\ Deletes \subseteq Requests
  BY TaskFacts
<1>1. ASSUME pc'["sup"] = pc["sup"], proc' = "up" => proc = "up", proc = "dead" => proc' = "dead",
             UNCHANGED <<piped, registered, verdict>>, armed => (armed' \/ proc' # "up")
      PROVE  ReachInv'
  BY <1>1 DEF ReachInv, WorkerReachable
<1>2. ASSUME NEW t \in Tasks, AppendRead(t) \/ AppendCommit(t)
      PROVE  ReachInv'
  BY <1>1, <1>2 DEF AppendRead, AppendCommit
<1>3. CASE Start
  <2>1. CASE Spawn
    BY <1>0, <2>1 DEF Spawn, Continue, Goto, ControlInv, ReachInv, WorkerReachable
  <2>2. CASE Launch
    BY <1>0, <2>2 DEF Launch, Returned, ControlInv, ReachInv, WorkerReachable
  <2>3. CASE CreateRun \/ SpawnFails \/ MarkRunning \/ StartSnapshot \/ LaunchFails
    <3>1. UNCHANGED <<workerVars, memVars, supVars>> /\ pc'["sup"] = pc["sup"]
      BY <1>0, <2>3 DEF CreateRun, SpawnFails, MarkRunning, StartSnapshot, LaunchFails,
         CallAppend, Catch, Continue, Goto
    <3>2. QED
      BY <1>1, <3>1
  <2>4. QED
    BY <1>3, <2>1, <2>2, <2>3 DEF Start
<1>4. CASE Supervise
  <2>1. CASE Leave
    BY <1>0, <2>1 DEF Leave, ReachInv, WorkerReachable
  <2>2. CASE RunTimeout
    BY <1>0, <2>2 DEF RunTimeout, CallAppend, Goto, ReachInv, WorkerReachable
  <2>3. CASE SupervisorCrash
    BY <1>0, <2>3 DEF SupervisorCrash, Returned, Raised, Catch, Goto, ReachInv, WorkerReachable
  <2>4. CASE ConsumeLine
    BY <1>0, <2>4 DEF ConsumeLine, Returned, CallAppend, Goto, ReachInv, WorkerReachable
  <2>5. CASE SupBegin \/ ConsumeEOF \/ TimeoutLogged \/ ExitLogged \/ ExitLogRaises
    BY <1>0, <2>5 DEF SupBegin, ConsumeEOF, TimeoutLogged, ExitLogged, ExitLogRaises, Returned,
       Raised, Catch, Continue, Goto, ReachInv, WorkerReachable
  <2>6. QED
    BY <1>4, <2>1, <2>2, <2>3, <2>4, <2>5 DEF Supervise
<1>5. CASE Finalize("sup")
  BY <1>0, <1>5 DEF Finalize, FinalizeUpdate, FinalizeEvent, FinalizeEnd, Returned, Raised,
     CallAppend, Catch, Continue, Goto, AfterCancel, ReachInv, WorkerReachable
<1>6. CASE Drain
  BY <1>0, <1>1, <1>6 DEF Drain, DrainLine, DrainEnd, DrainDropped, CallAppend, Catch, Continue,
     Goto
<1>7. ASSUME NEW t \in Requests, Finalize(t) \/ Request(t) \/ (t \in Deletes /\ Delete(t))
      PROVE  ReachInv'
  <2>1. armed => armed'
    BY <1>7 DEF Finalize, FinalizeUpdate, FinalizeEvent, FinalizeEnd, Request, RequestRead,
       CancelRun, FinalizeCheck, Delete, DeleteLoad, DeletePurge, DeleteDir
  <2>2. pc'["sup"] = pc["sup"] /\ UNCHANGED <<workerVars, registered, supVars>>
    BY <1>0, <1>7, RequestFrame
  <2>3. QED
    BY <1>1, <2>1, <2>2
<1>8. CASE Escalate \/ WorkerStderr \/ ShutdownKill \/ Boot \/ PeerBoot \/ UNCHANGED vars
  BY <1>1, <1>8 DEF Escalate, WorkerStderr, ShutdownKill, Boot, PeerBoot, vars
<1>9. CASE WorkerStep
  <2>1. proc = "up" /\ UNCHANGED <<pc, piped, memVars, supVars>>
    BY <1>9 DEF WorkerStep, W!Next, W!EmitBody, W!EmitDone, W!EmitFatal, W!EmitTrailer, W!Exit
  <2>2. QED
    BY <1>1, <2>1
<1>10. CASE Crash \/ ShutdownDrain
  <2>1. "sup" \in LocalTasks
    BY <1>0 DEF LocalTasks, Requests
  <2>2. ProcessGone
    BY <1>10 DEF Crash, ShutdownDrain
  <2>3. QED
    BY <1>0, <2>1, <2>2 DEF ProcessGone, ReachInv, WorkerReachable
<1>11. QED
  BY <1>0, <1>2, <1>3, <1>4, <1>5, <1>6, <1>7, <1>8, <1>9, <1>10 DEF Next, ApiProcess

(* The events the code builds: which lines they are about, and which of    *)
(* them announce the end.                                                  *)
LEMMA NoteFacts ==
  /\ ~TerminalNote(NoEvent) /\ ~TerminalNote(LogEvent) /\ NoEvent.line = 0 /\ LogEvent.line = 0
  /\ \A k \in {"log", "progress", "result"}, n \in Nat :
        /\ ~TerminalNote(LineEvent(k, n))
        /\ LineEvent(k, n).line = n /\ LineEvent(k, n).type = k
  /\ \A s \in Status : (TerminalNote(StatusEvent(s)) <=> s \in Terminal) /\ StatusEvent(s).line = 0
BY DEF TerminalNote, NoEvent, LogEvent, LineEvent, StatusEvent, Status, Active, Terminal

(* A commit that succeeds adds the caller's event under the next number. *)
LEMMA CommitAdds ==
  ASSUME TypeOK, LogInv, NEW t \in Tasks, AppendCommit(t), CommitOk(t)
  PROVE  /\ RowExists /\ rd[t] = lastSeq /\ lastSeq' = lastSeq + 1
         /\ \A e \in events : e.seq \in 1..lastSeq
         /\ \E new \in Event :
              /\ events' = events \cup {new}
              /\ new.seq = lastSeq + 1 /\ new.type = ev[t].type
              /\ new.st = ev[t].st /\ new.line = ev[t].line
<1> USE DEF TypeOK, TaskType, RowType
<1>1. RowExists /\ rd[t] \in Nat /\ rd[t] <= lastSeq /\ rd[t] + 1 \notin 1..lastSeq
  BY DEF AppendCommit, CommitOk, LogInv, LogDense
<1>2. rd[t] = lastSeq
  BY <1>1
<1>3. \A e \in events : e.seq \in 1..lastSeq
  BY <1>1 DEF LogInv, LogDense
<1> DEFINE new == [ev[t] EXCEPT !.seq = lastSeq + 1]
<1>4. /\ new \in Event /\ new.seq = lastSeq + 1 /\ new.type = ev[t].type
      /\ new.st = ev[t].st /\ new.line = ev[t].line
  BY DEF Event
<1>5. events' = events \cup {new} /\ lastSeq' = lastSeq + 1
  BY <1>2 DEF AppendCommit
<1> HIDE DEF new
<1>6. QED
  BY <1>1, <1>2, <1>3, <1>4, <1>5

(* What an append that does not commit leaves alone. *)
LEMMA NoCommit ==
  ASSUME TypeOK, NEW t \in Tasks, AppendRead(t) \/ (AppendCommit(t) /\ ~CommitOk(t))
  PROVE  UNCHANGED <<rowVars, diskVars, workerVars, memVars, pc, supVars, bootVars>>
BY DEF AppendRead, AppendCommit

(* A run that is left alone after a step was left alone before it, and the *)
(* step was not one of a request or of a process that stops or boots.      *)
LEMMA UndisturbedStep ==
  ASSUME TypeOK, NoteInv, Undisturbed', [Next]_vars
  PROVE  /\ Undisturbed
         /\ \/ \E t \in Tasks : AppendRead(t) \/ AppendCommit(t)
            \/ Start \/ Supervise \/ Finalize("sup") \/ Drain
            \/ Escalate \/ WorkerStep \/ WorkerStderr \/ UNCHANGED vars
<1> USE DEF TypeOK, TaskType, MemType
<1>0. /\ "start" \in Tasks /\ "sup" \in Tasks /\ "err" \in Tasks
      /\ "start" \notin Requests /\ "sup" \notin Requests /\ "err" \notin Requests
      /\ Requests \subseteq Tasks /\ Deletes \subseteq Requests
  BY TaskFacts
<1>1. ASSUME NEW t \in Requests, Finalize(t) \/ Request(t) \/ (t \in Deletes /\ Delete(t))
      PROVE  FALSE
  <2>1. pc'[t] = "idle"
    BY DEF Undisturbed
  <2>2. QED
    BY <1>0, <1>1, <2>1 DEF Finalize, FinalizeUpdate, FinalizeEvent, FinalizeEnd, Request,
       RequestRead, CancelRun, FinalizeCheck, Delete, DeleteLoad, DeletePurge, DeleteDir,
       CallAppend, Catch, Continue, Goto, AfterCancel
<1>2. ~ApiProcess
  BY DEF ApiProcess, Crash, ShutdownKill, ShutdownDrain, Boot, PeerBoot, Undisturbed, NoteInv
<1>3. \/ \E t \in Tasks : AppendRead(t) \/ AppendCommit(t)
      \/ Start \/ Supervise \/ Finalize("sup") \/ Drain
      \/ Escalate \/ WorkerStep \/ WorkerStderr \/ UNCHANGED vars
  BY <1>0, <1>1, <1>2 DEF Next
<1>4. UNCHANGED bootVars
  <2>1. ASSUME NEW t \in Tasks, AppendRead(t) \/ AppendCommit(t)
        PROVE  UNCHANGED bootVars
    BY <2>1 DEF AppendRead, AppendCommit
  <2>2. QED
    BY <1>3, <2>1 DEF Start, CreateRun, Spawn, SpawnFails, MarkRunning, StartSnapshot, Launch,
       LaunchFails, Supervise, SupBegin, ConsumeLine, ConsumeEOF, RunTimeout, TimeoutLogged,
       SupervisorCrash, Leave, ExitLogged, ExitLogRaises, Finalize, FinalizeUpdate,
       FinalizeEvent, FinalizeEnd, Drain, DrainLine, DrainEnd, DrainDropped, Escalate,
       WorkerStep, WorkerStderr, vars
<1>5. \A t \in Requests : pc'[t] = pc[t]
  <2>1. ASSUME NEW t \in Tasks, AppendRead(t) \/ AppendCommit(t)
        PROVE  UNCHANGED pc
    BY <2>1 DEF AppendRead, AppendCommit
  <2>2. CASE Start
    BY <1>0, <2>2 DEF Start, CreateRun, Spawn, SpawnFails, MarkRunning, StartSnapshot, Launch,
       LaunchFails, CallAppend, Catch, Continue, Goto
  <2>3. CASE Supervise
    BY <1>0, <2>3 DEF Supervise, SupBegin, ConsumeLine, ConsumeEOF, RunTimeout, TimeoutLogged,
       SupervisorCrash, Leave, ExitLogged, ExitLogRaises, CallAppend, Catch, Continue, Goto
  <2>4. CASE Finalize("sup") \/ Drain
    BY <1>0, <2>4 DEF Finalize, FinalizeUpdate, FinalizeEvent, FinalizeEnd, Drain, DrainLine,
       DrainEnd, DrainDropped, CallAppend, Catch, Continue, Goto
  <2>5. CASE Escalate \/ WorkerStep \/ WorkerStderr \/ UNCHANGED vars
    BY <2>5 DEF Escalate, WorkerStep, WorkerStderr, vars
  <2>6. QED
    BY <1>3, <2>1, <2>2, <2>3, <2>4, <2>5
<1>6. QED
  BY <1>3, <1>4, <1>5 DEF Undisturbed

(* The events in the hands of the supervisor. *)
LEMMA SupNoteStep ==
  ASSUME TypeOK, ControlInv, AppendInv, NoteInv, [Next]_vars
  PROVE  /\ restarts' = 0 => api' = "up"
         /\ TerminalNote(ev'["sup"]) => pc'["sup"] = "end"
<1> USE DEF TypeOK, TaskType
<1>0. /\ "start" \in Tasks /\ "sup" \in Tasks /\ "err" \in Tasks
      /\ "start" \notin Requests /\ "sup" \notin Requests /\ "err" \notin Requests
      /\ Deletes \subseteq Requests
  BY TaskFacts
<1>1. restarts' = 0 => api' = "up"
  <2>1. ASSUME NEW t \in Tasks, AppendRead(t) \/ AppendCommit(t)
        PROVE  UNCHANGED <<api, restarts>>
    BY <2>1 DEF AppendRead, AppendCommit
  <2>2. ASSUME NEW t \in Requests, Finalize(t) \/ Request(t) \/ (t \in Deletes /\ Delete(t))
        PROVE  UNCHANGED <<api, restarts>>
    BY <2>2, RequestFrame
  <2>3. CASE Start \/ Supervise \/ Finalize("sup") \/ Drain \/ Escalate \/ WorkerStep \/ WorkerStderr
             \/ UNCHANGED vars
    BY <2>3 DEF Start, CreateRun, Spawn, SpawnFails, MarkRunning, StartSnapshot, Launch,
       LaunchFails, Supervise, SupBegin, ConsumeLine, ConsumeEOF, RunTimeout, TimeoutLogged,
       SupervisorCrash, Leave, ExitLogged, ExitLogRaises, Finalize, FinalizeUpdate,
       FinalizeEvent, FinalizeEnd, Drain, DrainLine, DrainEnd, DrainDropped, Escalate,
       WorkerStep, WorkerStderr, vars, NoteInv
  <2>4. CASE ApiProcess
    BY <2>4 DEF ApiProcess, Crash, ShutdownKill, ShutdownDrain, Boot, PeerBoot, MemType, NoteInv
  <2>5. QED
    BY <1>0, <2>1, <2>2, <2>3, <2>4 DEF Next, NoteInv
<1>2. TerminalNote(ev'["sup"]) => pc'["sup"] = "end"
  <2>1. ASSUME NEW t \in Tasks, AppendRead(t) \/ AppendCommit(t)
        PROVE  pc' = pc /\ (ev'["sup"] = ev["sup"] \/ ev'["sup"] = NoEvent)
    BY <1>0, <2>1 DEF AppendRead, AppendCommit, Forget
  <2>2. ASSUME NEW t \in Requests, Finalize(t) \/ Request(t) \/ (t \in Deletes /\ Delete(t))
        PROVE  pc'["sup"] = pc["sup"] /\ ev'["sup"] = ev["sup"]
    BY <1>0, <2>2, RequestFrame
  <2>3. CASE Start /\ ~Launch
    BY <1>0, <2>3 DEF Start, CreateRun, Spawn, SpawnFails, MarkRunning, StartSnapshot,
       LaunchFails, CallAppend, Catch, Forget, Continue, Goto, NoteInv
  <2>4. CASE Launch
    BY <1>0, <2>4 DEF Launch, Returned, ControlInv, NoteInv
  <2>5. CASE Supervise
    <3>1. \/ ev'["sup"] = ev["sup"] /\ pc["sup"] # "end"
          \/ ev'["sup"] = NoEvent \/ ev'["sup"] = LogEvent
          \/ \E k \in {"log", "progress", "result"} : ev'["sup"] = LineEvent(k, nread + 1)
      BY <1>0, <2>5 DEF Supervise, SupBegin, ConsumeLine, ConsumeEOF, RunTimeout, TimeoutLogged,
         SupervisorCrash, Leave, ExitLogged, ExitLogRaises, Returned, Raised, CallAppend, Catch,
         Forget, Continue, Goto
    <3>2. nread + 1 \in Nat
      BY DEF MemType
    <3>3. QED
      BY <3>1, <3>2, NoteFacts DEF NoteInv
  <2>6. CASE Finalize("sup")
    BY <1>0, <2>6, NoteFacts DEF Finalize, FinalizeUpdate, FinalizeEvent, FinalizeEnd, Returned,
       Raised, CallAppend, Catch, Forget, Continue, Goto, AppendInv, NoteInv
  <2>7. CASE Drain
    BY <1>0, <2>7 DEF Drain, DrainLine, DrainEnd, DrainDropped, CallAppend, Catch, Forget,
       Continue, Goto, NoteInv
  <2>8. CASE Escalate \/ WorkerStep \/ WorkerStderr \/ ShutdownKill \/ Boot \/ PeerBoot
             \/ UNCHANGED vars
    BY <2>8 DEF Escalate, WorkerStep, WorkerStderr, ShutdownKill, Boot, PeerBoot, vars, NoteInv
  <2>9. CASE Crash \/ ShutdownDrain
    <3>1. "sup" \in LocalTasks /\ ProcessGone
      BY <1>0, <2>9 DEF LocalTasks, Requests, Crash, ShutdownDrain
    <3>2. QED
      BY <1>0, <3>1, NoteFacts DEF ProcessGone
  <2>10. QED
    BY <1>0, <2>1, <2>2, <2>3, <2>4, <2>5, <2>6, <2>7, <2>8, <2>9, NoteFacts
       DEF Next, ApiProcess, NoteInv
<1>3. QED
  BY <1>1, <1>2

(* While the run is left alone its row stays, and a terminal status is in  *)
(* the hands of the supervisor only.                                       *)
LEMMA QuietStep ==
  ASSUME TypeOK, LogInv, ControlInv, AppendInv, NoteInv, Undisturbed', [Next]_vars
  PROVE  /\ pc'["start"] # "idle" => RowExists'
         /\ pc'["start"] = "snapshot" => status' \notin Terminal
         /\ \A t \in Tasks : TerminalNote(ev'[t]) => t = "sup"
<1> USE DEF TypeOK, TaskType
<1>0. /\ "start" \in Tasks /\ "sup" \in Tasks /\ "err" \in Tasks
      /\ "start" \notin Requests /\ "sup" \notin Requests /\ "err" \notin Requests
  BY TaskFacts
<1>1. /\ pc["start"] # "idle" => RowExists
      /\ pc["start"] = "snapshot" => status \notin Terminal
      /\ \A t \in Tasks : TerminalNote(ev[t]) => t = "sup"
  BY UndisturbedStep DEF NoteInv
<1>2. ASSUME NEW t \in Tasks, AppendRead(t) \/ AppendCommit(t)
      PROVE  /\ UNCHANGED <<pc, status>>
             /\ \A u \in Tasks : ev'[u] = ev[u] \/ ev'[u] = NoEvent
  BY <1>2 DEF AppendRead, AppendCommit, Forget
<1>3. CASE Start
  <2>1. CASE StartSnapshot
    <3>1. status \in Status /\ status \notin Terminal
      BY <1>1, <2>1 DEF StartSnapshot, RowType
    <3>2. /\ status' = status /\ pc'["start"] = "launch"
          /\ \A t \in Tasks : ev'[t] = (IF t = "start" THEN StatusEvent(status) ELSE ev[t])
      BY <1>0, <2>1 DEF StartSnapshot, CallAppend, Goto
    <3>3. RowExists
      BY <1>1, <2>1 DEF StartSnapshot
    <3>4. QED
      BY <1>1, <3>1, <3>2, <3>3, NoteFacts DEF RowExists
  <2>2. CASE CreateRun \/ Spawn \/ SpawnFails \/ MarkRunning \/ Launch
    BY <1>0, <1>1, <2>2 DEF CreateRun, Spawn, SpawnFails, MarkRunning, Launch, Returned, Continue,
       Goto, RowExists, Terminal
  <2>3. CASE LaunchFails
    BY <1>0, <1>1, <2>3, NoteFacts DEF LaunchFails, Raised, Catch, Forget, Goto, RowExists
  <2>4. QED
    BY <1>3, <2>1, <2>2, <2>3 DEF Start
<1>4. CASE Supervise
  <2>1. UNCHANGED status /\ pc'["start"] = pc["start"]
    BY <1>0, <1>4 DEF Supervise, SupBegin, ConsumeLine, ConsumeEOF, RunTimeout, TimeoutLogged,
       SupervisorCrash, Leave, ExitLogged, ExitLogRaises, CallAppend, Catch, Continue, Goto
  <2>2. \A t \in Tasks : t # "sup" => (ev'[t] = ev[t] \/ ev'[t] = NoEvent)
    BY <1>0, <1>4 DEF Supervise, SupBegin, ConsumeLine, ConsumeEOF, RunTimeout, TimeoutLogged,
       SupervisorCrash, Leave, ExitLogged, ExitLogRaises, CallAppend, Catch, Forget, Continue
  <2>3. QED
    BY <1>1, <2>1, <2>2, NoteFacts DEF RowExists
<1>5. CASE Finalize("sup")
  <2>1. pc'["start"] = pc["start"] /\ \A t \in Tasks : t # "sup" => ev'[t] = ev[t]
    BY <1>0, <1>5 DEF Finalize, FinalizeUpdate, FinalizeEvent, FinalizeEnd, CallAppend, Catch,
       Forget, Continue, Goto
  <2>2. pc["start"] \in {"done", "lost"}
    BY <1>5 DEF Finalize, FinalizeUpdate, FinalizeEvent, FinalizeEnd, Returned, Raised, ControlInv
  <2>3. RowExists'
    BY <1>1, <1>5, <2>2 DEF Finalize, FinalizeUpdate, FinalizeEvent, FinalizeEnd, FinalStatus,
       LogInv, RowExists, Terminal
  <2>4. QED
    BY <1>1, <2>1, <2>2, <2>3
<1>6. CASE Drain
  <2>1. UNCHANGED status /\ pc'["start"] = pc["start"]
    BY <1>0, <1>6 DEF Drain, DrainLine, DrainEnd, DrainDropped, CallAppend, Catch, Continue, Goto
  <2>2. \A t \in Tasks : ev'[t] = ev[t] \/ ev'[t] = NoEvent \/ ev'[t] = LogEvent
    BY <1>0, <1>6 DEF Drain, DrainLine, DrainEnd, DrainDropped, CallAppend, Catch, Forget, Continue
  <2>3. QED
    BY <1>1, <2>1, <2>2, NoteFacts DEF RowExists
<1>7. CASE Escalate \/ WorkerStep \/ WorkerStderr \/ UNCHANGED vars
  BY <1>1, <1>7 DEF Escalate, WorkerStep, WorkerStderr, vars, RowExists
<1>8. QED
  BY <1>1, <1>2, <1>3, <1>4, <1>5, <1>6, <1>7, UndisturbedStep, NoteFacts DEF RowExists

(* Once the end is announced, nothing more is appended. *)
LEMMA LastNoteStep ==
  ASSUME TypeOK, LogInv, ControlInv, AppendInv, NoteInv, Undisturbed', [Next]_vars,
         NEW e \in events', TerminalNote(e)
  PROVE  /\ e.seq = lastSeq'
         /\ pc'["sup"] \in {"end", "done"} /\ app'["sup"] = "idle"
         /\ \A t \in Tasks : app'[t] = "commit" => rd'[t] < lastSeq'
<1> USE DEF TypeOK, TaskType, RowType
<1>0. /\ "start" \in Tasks /\ "sup" \in Tasks /\ "err" \in Tasks
      /\ "start" \notin Requests /\ "sup" \notin Requests /\ "err" \notin Requests
      /\ Tasks = {"start", "sup", "err"} \cup Requests
  BY TaskFacts DEF Tasks
<1>1. Undisturbed
  BY UndisturbedStep
<1>2. ASSUME NEW t \in Tasks, AppendCommit(t), CommitOk(t), e \notin events
      PROVE  /\ e.seq = lastSeq'
             /\ pc'["sup"] \in {"end", "done"} /\ app'["sup"] = "idle"
             /\ \A u \in Tasks : app'[u] = "commit" => rd'[u] < lastSeq'
  <2>1. /\ lastSeq' = lastSeq + 1 /\ e.seq = lastSeq + 1
        /\ e.type = ev[t].type /\ e.st = ev[t].st
    BY <1>2, CommitAdds
  <2>2. TerminalNote(ev[t])
    BY <2>1 DEF TerminalNote
  <2>3. t = "sup" /\ pc["sup"] = "end"
    BY <1>1, <2>2 DEF NoteInv
  <2>4. UNCHANGED pc /\ \A u \in Tasks : app'[u] = "commit" => (app[u] = "commit" /\ rd'[u] = rd[u])
    BY <1>2 DEF AppendCommit, Forget
  <2>5. app'["sup"] = "idle"
    BY <1>0, <1>2, <2>3 DEF AppendCommit
  <2>6. \A u \in Tasks : app[u] = "commit" => rd[u] < lastSeq + 1
    BY DEF LogInv
  <2>7. QED
    BY <2>1, <2>3, <2>4, <2>5, <2>6
<1>3. CASE e \in events
  <2>1. /\ e.seq = lastSeq /\ pc["sup"] \in {"end", "done"} /\ app["sup"] = "idle"
        /\ \A t \in Tasks : app[t] = "commit" => rd[t] < lastSeq
    BY <1>1, <1>3 DEF NoteInv
  <2>2. /\ pc["start"] \in {"done", "lost"} /\ pc["err"] = "cancelled"
        /\ app["err"] # "read" /\ app["start"] = "idle"
    BY <1>0, <2>1 DEF ControlInv, AppendInv, AppendAt, Left
  <2>3. \A t \in Requests : app[t] = "idle"
    BY <1>0, <1>1 DEF Undisturbed, AppendInv, AppendAt
  <2>4. \A t \in Tasks : app[t] # "read"
    BY <1>0, <2>1, <2>2, <2>3
  <2>5. ASSUME NEW t \in Tasks, AppendRead(t) \/ AppendCommit(t)
        PROVE  /\ UNCHANGED <<lastSeq, pc>>
               /\ app[t] = "commit" /\ app'[t] = "raised"
               /\ \A u \in Tasks : u # t => (app'[u] = app[u] /\ rd'[u] = rd[u])
    <3>1. AppendCommit(t)
      BY <2>4, <2>5 DEF AppendRead
    <3>2. ~CommitOk(t)
      BY <2>1, <3>1, CommitAdds DEF AppendCommit
    <3>3. QED
      BY <3>1, <3>2 DEF AppendCommit, Forget
  <2>6. ~Start /\ ~Supervise
    BY <2>1, <2>2 DEF Start, CreateRun, Spawn, SpawnFails, MarkRunning, StartSnapshot, Launch,
       LaunchFails, Supervise, SupBegin, ConsumeLine, ConsumeEOF, RunTimeout, TimeoutLogged,
       SupervisorCrash, Leave, ExitLogged, ExitLogRaises, Returned, Raised
  <2>7. CASE Finalize("sup")
    <3>1. Continue("sup", "done") /\ UNCHANGED rowVars
      BY <1>0, <2>1, <2>7 DEF Finalize, FinalizeUpdate, FinalizeEvent, FinalizeEnd, Returned, Raised,
         AfterCancel, Requests
    <3>2. QED
      BY <1>0, <2>1, <3>1 DEF Continue, Goto
  <2>8. CASE Drain
    <3>1. DrainDropped
      BY <2>2, <2>8 DEF Drain, DrainLine, DrainEnd, Returned, Raised
    <3>2. QED
      BY <1>0, <2>1, <3>1 DEF DrainDropped, Catch, Forget, Goto
  <2>9. CASE Escalate \/ WorkerStep \/ WorkerStderr \/ UNCHANGED vars
    BY <2>1, <2>9 DEF Escalate, WorkerStep, WorkerStderr, vars
  <2>10. ASSUME NEW t \in Tasks, AppendRead(t) \/ AppendCommit(t)
         PROVE  /\ e.seq = lastSeq'
                /\ pc'["sup"] \in {"end", "done"} /\ app'["sup"] = "idle"
                /\ \A u \in Tasks : app'[u] = "commit" => rd'[u] < lastSeq'
    BY <1>0, <2>1, <2>5, <2>10
  <2>11. QED
    BY <2>6, <2>7, <2>8, <2>9, <2>10, UndisturbedStep
<1>4. e \in events \/ \E t \in Tasks : AppendCommit(t) /\ CommitOk(t)
  <2>1. ASSUME NEW t \in Tasks, AppendRead(t) \/ (AppendCommit(t) /\ ~CommitOk(t))
        PROVE  events' = events
    BY <2>1, NoCommit
  <2>2. CASE \/ Start \/ Supervise \/ Finalize("sup") \/ Drain
             \/ Escalate \/ WorkerStep \/ WorkerStderr \/ UNCHANGED vars
    BY <2>2 DEF Start, CreateRun, Spawn, SpawnFails, MarkRunning, StartSnapshot, Launch,
       LaunchFails, Supervise, SupBegin, ConsumeLine, ConsumeEOF, RunTimeout, TimeoutLogged,
       SupervisorCrash, Leave, ExitLogged, ExitLogRaises, Finalize, FinalizeUpdate,
       FinalizeEvent, FinalizeEnd, Drain, DrainLine, DrainEnd, DrainDropped, Escalate,
       WorkerStep, WorkerStderr, vars
  <2>3. QED
    BY <2>1, <2>2, UndisturbedStep
<1>5. QED
  BY <1>2, <1>3, <1>4

(* NoteInv is preserved. *)
LEMMA NoteStep ==
  ASSUME TypeOK, LogInv, ControlInv, AppendInv, NoteInv, [Next]_vars
  PROVE  NoteInv'
<1>1. CASE ~Undisturbed'
  BY <1>1, SupNoteStep DEF NoteInv
<1>2. CASE Undisturbed'
  BY <1>2, SupNoteStep, QuietStep, LastNoteStep DEF NoteInv
<1>3. QED
  BY <1>1, <1>2

(* Lines are only ever added to the worker's output, and only while it is alive. *)
LEMMA OutFrame ==
  ASSUME TypeOK, ControlInv, [Next]_vars
  PROVE  /\ out' = out \/ (proc = "up" /\ \E l \in W!Line : out' = Append(out, l))
         /\ Len(out) <= Len(out')
         /\ \A i \in 1..Len(out) : out'[i] = out[i]
         /\ (proc = "dead" /\ pc["sup"] # "idle") => (proc' = "dead" /\ out' = out)
<1> USE DEF TypeOK, WorkerType
<1>0. pc["sup"] # "idle" => ~Spawn
  BY DEF ControlInv, Spawn
<1>1. ASSUME NEW t \in Tasks, AppendRead(t) \/ AppendCommit(t)
      PROVE  UNCHANGED <<out, proc>>
  BY <1>1 DEF AppendRead, AppendCommit
<1>2. ASSUME NEW t \in Requests, Finalize(t) \/ Request(t) \/ (t \in Deletes /\ Delete(t))
      PROVE  UNCHANGED <<out, proc>>
  BY <1>2, RequestFrame
<1>3. CASE Start \/ Supervise \/ Finalize("sup") \/ Drain \/ Escalate \/ WorkerStderr \/ ApiProcess
           \/ UNCHANGED vars
  <2>1. out' = out
    BY <1>3 DEF Start, CreateRun, Spawn, SpawnFails, MarkRunning, StartSnapshot, Launch,
       LaunchFails, Supervise, SupBegin, ConsumeLine, ConsumeEOF, RunTimeout, TimeoutLogged,
       SupervisorCrash, Leave, ExitLogged, ExitLogRaises, Finalize, FinalizeUpdate,
       FinalizeEvent, FinalizeEnd, Drain, DrainLine, DrainEnd, DrainDropped, Escalate,
       WorkerStderr, ApiProcess, Crash, ShutdownKill, ShutdownDrain, Boot, PeerBoot, vars
  <2>2. proc = "dead" => (proc' = "dead" \/ Spawn)
    BY <1>3 DEF Start, CreateRun, SpawnFails, MarkRunning, StartSnapshot, Launch,
       LaunchFails, Supervise, SupBegin, ConsumeLine, ConsumeEOF, RunTimeout, TimeoutLogged,
       SupervisorCrash, Leave, ExitLogged, ExitLogRaises, Finalize, FinalizeUpdate,
       FinalizeEvent, FinalizeEnd, Drain, DrainLine, DrainEnd, DrainDropped, Escalate,
       WorkerStderr, ApiProcess, Crash, ShutdownKill, ShutdownDrain, Boot, PeerBoot, vars
  <2>3. QED
    BY <1>0, <2>1, <2>2
<1>4. CASE WorkerStep
  <2>1. \A k \in W!Kind : W!Body(k) \in W!Line
    BY DEF W!Kind, W!Body, W!Line
  <2>2. /\ W!Fatal \in W!Line /\ W!Body("log") \in W!Line
        /\ \A s \in {"completed", "failed", "cancelled"} : W!Done(s) \in W!Line
    BY DEF W!Kind, W!Fatal, W!Body, W!Done, W!Line
  <2>3. proc = "up" /\ (out' = out \/ \E l \in W!Line : out' = Append(out, l))
    BY <1>4, <2>1, <2>2 DEF WorkerStep, W!Next, W!EmitBody, W!EmitDone, W!EmitFatal,
       W!EmitTrailer, W!Exit
  <2>4. QED
    BY <2>3
<1>5. QED
  BY <1>1, <1>2, <1>3, <1>4, TaskFacts DEF Next

(* Events are added by a commit and removed by a delete, which removes the row. *)
LEMMA EventsFrame ==
  ASSUME TypeOK, [Next]_vars
  PROVE  \/ \E t \in Tasks : AppendCommit(t) /\ CommitOk(t)
         \/ events' = events
         \/ events' \subseteq events /\ ~RowExists'
<1>1. ASSUME NEW t \in Tasks, AppendRead(t) \/ (AppendCommit(t) /\ ~CommitOk(t))
      PROVE  events' = events
  BY <1>1, NoCommit
<1>2. CASE Start \/ Supervise \/ Drain \/ Escalate \/ WorkerStep \/ WorkerStderr \/ UNCHANGED vars
  BY <1>2 DEF Start, CreateRun, Spawn, SpawnFails, MarkRunning, StartSnapshot, Launch,
     LaunchFails, Supervise, SupBegin, ConsumeLine, ConsumeEOF, RunTimeout, TimeoutLogged,
     SupervisorCrash, Leave, ExitLogged, ExitLogRaises, Drain, DrainLine, DrainEnd, DrainDropped,
     Escalate, WorkerStep, WorkerStderr, vars
<1>3. CASE \/ \E t \in {"sup"} \cup Requests : Finalize(t)
           \/ \E t \in Requests : Request(t)
  BY <1>3 DEF Finalize, FinalizeUpdate, FinalizeEvent, FinalizeEnd, Request, RequestRead,
     CancelRun, FinalizeCheck
<1>4. ASSUME NEW t \in Deletes, Delete(t)
      PROVE  events' = events \/ (events' \subseteq events /\ ~RowExists')
  BY <1>4 DEF Delete, DeleteLoad, DeletePurge, DeleteDir, RowExists
<1>5. CASE ApiProcess
  BY <1>5 DEF ApiProcess, Crash, ShutdownKill, ShutdownDrain, Boot, PeerBoot, MarkOrphansFailed
<1>6. QED
  BY <1>1, <1>2, <1>3, <1>4, <1>5 DEF Next

(* The pending events about worker lines are made by _consume. *)
LEMMA PendingFrame ==
  ASSUME TypeOK, ControlInv, AppendInv, [Next]_vars
  PROVE  /\ \A t \in Tasks : t # "sup" => (ev'[t] = ev[t] \/ ev'[t].line = 0)
         /\ \/ ConsumeLine \/ ev'["sup"].line = 0
            \/ ev'["sup"] = ev["sup"] /\ (pc["sup"] = "consume" => pc'["sup"] = "consume")
<1> USE DEF TypeOK, TaskType
<1>0. /\ "start" \in Tasks /\ "sup" \in Tasks /\ "err" \in Tasks
      /\ "start" \notin Requests /\ "sup" \notin Requests /\ "err" \notin Requests
      /\ Requests \subseteq Tasks /\ Deletes \subseteq Requests
  BY TaskFacts
<1>1. ASSUME NEW t \in Tasks, AppendRead(t) \/ AppendCommit(t)
      PROVE  pc' = pc /\ \A u \in Tasks : ev'[u] = ev[u] \/ ev'[u].line = 0
  BY <1>1, NoteFacts DEF AppendRead, AppendCommit, Forget
<1>2. CASE Start
  <2>1. \A t \in Tasks : ev'[t] = ev[t] \/ ev'[t] = NoEvent \/ ev'[t] = StatusEvent(status)
    BY <1>0, <1>2 DEF Start, CreateRun, Spawn, SpawnFails, MarkRunning, StartSnapshot, Launch,
       LaunchFails, CallAppend, Catch, Forget, Continue
  <2>2. pc["sup"] = "consume" => pc'["sup"] = "consume"
    BY <1>0, <1>2 DEF Start, CreateRun, Spawn, SpawnFails, MarkRunning, StartSnapshot, Launch,
       LaunchFails, Returned, CallAppend, Catch, Continue, Goto, ControlInv
  <2>3. QED
    BY <1>0, <2>1, <2>2, NoteFacts DEF RowType
<1>3. CASE Supervise
  <2>1. \A t \in Tasks : t # "sup" => (ev'[t] = ev[t] \/ ev'[t] = NoEvent)
    BY <1>0, <1>3 DEF Supervise, SupBegin, ConsumeLine, ConsumeEOF, RunTimeout, TimeoutLogged,
       SupervisorCrash, Leave, ExitLogged, ExitLogRaises, CallAppend, Catch, Forget, Continue
  <2>2. \/ ConsumeLine \/ ev'["sup"] = NoEvent \/ ev'["sup"] = LogEvent
        \/ ev'["sup"] = ev["sup"] /\ pc["sup"] # "consume"
    BY <1>0, <1>3 DEF Supervise, SupBegin, ConsumeEOF, RunTimeout, TimeoutLogged,
       SupervisorCrash, Leave, ExitLogged, ExitLogRaises, Returned, CallAppend, Catch, Forget,
       Continue, AppendInv
  <2>3. QED
    BY <2>1, <2>2, NoteFacts
<1>4. ASSUME NEW t \in {"sup"} \cup Requests, Finalize(t)
      PROVE  /\ \A u \in Tasks : ev'[u] = ev[u] \/ ev'[u].line = 0
             /\ pc["sup"] = "consume" => pc'["sup"] = "consume"
  <2>1. \A u \in Tasks : ev'[u] = ev[u] \/ ev'[u] = NoEvent \/ ev'[u] = StatusEvent(status)
    BY <1>0, <1>4 DEF Finalize, FinalizeUpdate, FinalizeEvent, FinalizeEnd, CallAppend, Catch,
       Forget, Continue
  <2>2. pc["sup"] = "consume" => pc'["sup"] = "consume"
    BY <1>0, <1>4 DEF Finalize, FinalizeUpdate, FinalizeEvent, FinalizeEnd, Returned, Raised,
       CallAppend, Catch, Continue, Goto
  <2>3. QED
    BY <2>1, <2>2, NoteFacts DEF RowType
<1>5. CASE Drain
  <2>1. \A u \in Tasks : ev'[u] = ev[u] \/ ev'[u] = NoEvent \/ ev'[u] = LogEvent
    BY <1>0, <1>5 DEF Drain, DrainLine, DrainEnd, DrainDropped, CallAppend, Catch, Forget, Continue
  <2>2. pc'["sup"] = pc["sup"]
    BY <1>0, <1>5 DEF Drain, DrainLine, DrainEnd, DrainDropped, CallAppend, Catch, Continue, Goto
  <2>3. QED
    BY <1>0, <2>1, <2>2, NoteFacts
<1>6. ASSUME NEW t \in Requests, Request(t) \/ (t \in Deletes /\ Delete(t))
      PROVE  /\ \A u \in Tasks : ev'[u] = ev[u] \/ ev'[u].line = 0
             /\ pc'["sup"] = pc["sup"]
  <2>1. \A u \in Tasks : ev'[u] = ev[u] \/ ev'[u] = NoEvent
    BY <1>0, <1>6 DEF Request, RequestRead, CancelRun, FinalizeCheck, Delete, DeleteLoad,
       DeletePurge, DeleteDir, Forget, Continue
  <2>2. QED
    BY <1>0, <1>6, <2>1, RequestFrame, NoteFacts
<1>7. CASE Escalate \/ WorkerStep \/ WorkerStderr \/ ShutdownKill \/ Boot \/ PeerBoot
           \/ UNCHANGED vars
  BY <1>7 DEF Escalate, WorkerStep, WorkerStderr, ShutdownKill, Boot, PeerBoot, vars
<1>8. CASE Crash \/ ShutdownDrain
  <2>1. "sup" \in LocalTasks /\ ProcessGone
    BY <1>0, <1>8 DEF LocalTasks, Requests, Crash, ShutdownDrain
  <2>2. QED
    BY <1>0, <2>1, NoteFacts DEF ProcessGone
<1>9. QED
  BY <1>0, <1>1, <1>2, <1>3, <1>4, <1>5, <1>6, <1>7, <1>8 DEF Next, ApiProcess

(* Only _consume counts lines and stores results. *)
LEMMA CountFrame ==
  ASSUME [Next]_vars, ~ConsumeLine
  PROVE  nread' = nread /\ results' \subseteq results
<1>1. ASSUME NEW t \in Tasks, AppendRead(t) \/ AppendCommit(t)
      PROVE  nread' = nread /\ results' = results
  BY <1>1 DEF AppendRead, AppendCommit
<1>2. CASE \/ \E t \in {"sup"} \cup Requests : Finalize(t)
           \/ \E t \in Requests : Request(t)
           \/ \E t \in Deletes : Delete(t)
  BY <1>2 DEF Finalize, FinalizeUpdate, FinalizeEvent, FinalizeEnd, Request, RequestRead,
     CancelRun, FinalizeCheck, Delete, DeleteLoad, DeletePurge, DeleteDir
<1>3. CASE Start \/ Supervise \/ Drain \/ Escalate \/ WorkerStep \/ WorkerStderr \/ ApiProcess
           \/ UNCHANGED vars
  BY <1>3 DEF Start, CreateRun, Spawn, SpawnFails, MarkRunning, StartSnapshot, Launch,
     LaunchFails, Supervise, SupBegin, ConsumeEOF, RunTimeout, TimeoutLogged,
     SupervisorCrash, Leave, ExitLogged, ExitLogRaises, Drain, DrainLine, DrainEnd, DrainDropped,
     Escalate, WorkerStep, WorkerStderr, ApiProcess, Crash, ShutdownKill, ShutdownDrain, Boot,
     PeerBoot, MarkOrphansFailed, vars
<1>4. QED
  BY <1>1, <1>2, <1>3 DEF Next

(* One line read: the pending event, if any, is about that line. *)
LEMMA ConsumeFacts ==
  ASSUME TypeOK, AppendInv, ConsumeLine
  PROVE  /\ pc["sup"] = "consume" /\ app["sup"] = "idle" /\ ev["sup"] = NoEvent
         /\ pc'["sup"] = "consume"
         /\ nread + 1 \in 1..Len(out) /\ nread' = nread + 1
         /\ UNCHANGED <<status, events, out, proc>>
         /\ \/ /\ out[nread + 1].kind \in W!Kind
               /\ app'["sup"] = "read"
               /\ ev'["sup"].line = nread + 1 /\ ev'["sup"].type = out[nread + 1].kind
            \/ out[nread + 1].kind \notin W!Kind /\ ev'["sup"].line = 0
         /\ \/ results' = results
            \/ results' = results \cup {nread + 1} /\ out[nread + 1].kind = "result"
<1> USE DEF TypeOK, TaskType
<1>0. "sup" \in Tasks
  BY TaskFacts
<1>1. nread \in Nat /\ nread + 1 \in 1..Len(out) /\ nread' = nread + 1
  BY DEF ConsumeLine, MemType, WorkerType
<1>2. pc["sup"] = "consume" /\ app["sup"] = "idle" /\ ev["sup"] = NoEvent
  BY <1>0 DEF ConsumeLine, Returned, AppendInv
<1>3. UNCHANGED <<status, events, out, proc>>
  BY DEF ConsumeLine
<1>4. CASE out[nread + 1].kind \in {"log", "progress", "result"}
  <2>1. CallAppend("sup", LineEvent(out[nread + 1].kind, nread + 1), "consume")
    BY <1>4 DEF ConsumeLine
  <2>2. /\ app'["sup"] = "read" /\ pc'["sup"] = "consume"
        /\ ev'["sup"] = LineEvent(out[nread + 1].kind, nread + 1)
    BY <1>0, <2>1 DEF CallAppend, Goto
  <2>3. \/ results' = results
        \/ results' = results \cup {nread + 1} /\ out[nread + 1].kind = "result"
    BY <1>4 DEF ConsumeLine, PersistResult
  <2>4. QED
    BY <1>1, <1>2, <1>3, <1>4, <2>2, <2>3, NoteFacts DEF W!Kind
<1>5. CASE out[nread + 1].kind \notin {"log", "progress", "result"}
  <2>1. results' = results /\ (UNCHANGED taskVars \/ CallAppend("sup", LogEvent, "consume"))
    BY <1>5 DEF ConsumeLine
  <2>2. pc'["sup"] = "consume" /\ (ev'["sup"] = ev["sup"] \/ ev'["sup"] = LogEvent)
    BY <1>0, <1>2, <2>1 DEF CallAppend, Goto
  <2>3. QED
    BY <1>1, <1>2, <1>3, <1>5, <2>1, <2>2, NoteFacts DEF W!Kind
<1>6. QED
  BY <1>4, <1>5

(* LineInv is preserved. *)
LEMMA LineStep ==
  ASSUME TypeOK, LogInv, ControlInv, AppendInv, LineInv, [Next]_vars
  PROVE  LineInv'
<1> USE DEF TypeOK
<1>0. "sup" \in Tasks /\ nread \in Nat /\ Len(out) \in Nat /\ Len(out') \in Nat /\ nread' \in Nat
  BY TaskFacts, TypeStep DEF MemType, WorkerType
<1>1. \A e \in events : e.line \in Nat /\ e.seq \in Nat
  BY DEF RowType, Event
<1>2. \A t \in Tasks : t # "sup" => ev'[t].line = 0
  BY PendingFrame DEF LineInv
<1>3. nread' <= Len(out')
  <2>1. CASE ConsumeLine
    BY <1>0, <2>1, ConsumeFacts
  <2>2. CASE ~ConsumeLine
    BY <1>0, <2>2, CountFrame, OutFrame DEF LineInv
  <2>3. QED
    BY <2>1, <2>2
<1>4. pc'["sup"] \in {"idle", "begin"} => nread' = 0
  <2>1. CASE ConsumeLine
    BY <2>1, ConsumeFacts
  <2>2. CASE ~ConsumeLine
    <3>1. pc'["sup"] \in {"idle", "begin"} => pc["sup"] \in {"idle", "begin"}
      BY <1>0, SupFrame DEF Launch, Supervise, SupBegin, ConsumeLine, ConsumeEOF, RunTimeout,
         TimeoutLogged, SupervisorCrash, Leave, ExitLogged, ExitLogRaises, Finalize,
         FinalizeUpdate, FinalizeEvent, FinalizeEnd, AfterCancel, Returned, CallAppend, Catch,
         Continue, Goto, Crash, ShutdownDrain, ProcessGone, ControlInv, TaskType
    <3>2. QED
      BY <2>2, <3>1, CountFrame DEF LineInv
  <2>3. QED
    BY <2>1, <2>2
<1>5. CASE ConsumeLine
  <2>1. /\ events' = events /\ nread' = nread + 1 /\ pc'["sup"] = "consume"
        /\ ev'["sup"].line \in {0, nread + 1}
    BY <1>5, ConsumeFacts
  <2>2. \A e \in events : e.line < nread + 1
    BY <1>0, <1>1 DEF LineInv
  <2>3. QED
    BY <1>0, <1>1, <1>2, <1>3, <1>4, <2>1, <2>2 DEF LineInv
<1>6. CASE ~ConsumeLine /\ events' \subseteq events
  <2>1. nread' = nread
    BY <1>6, CountFrame
  <2>2. \/ ev'["sup"].line = 0
        \/ ev'["sup"] = ev["sup"] /\ (pc["sup"] = "consume" => pc'["sup"] = "consume")
    BY <1>6, PendingFrame
  <2>3. QED
    BY <1>2, <1>3, <1>4, <1>6, <2>1, <2>2 DEF LineInv
<1>7. ASSUME NEW t \in Tasks, AppendCommit(t), CommitOk(t)
      PROVE  LineInv'
  <2>1. /\ lastSeq \in Nat /\ \A e \in events : e.seq \in 1..lastSeq
    BY <1>7, CommitAdds DEF RowType
  <2>2. PICK new \in Event : /\ events' = events \cup {new}
                             /\ new.seq = lastSeq + 1 /\ new.line = ev[t].line
    BY <1>7, CommitAdds
  <2>3. nread' = nread /\ UNCHANGED pc /\ ev'[t] = NoEvent /\ \A u \in Tasks : u # t => ev'[u] = ev[u]
    BY <1>7 DEF AppendCommit, Forget, TaskType
  <2>4. new.line = 0 \/ (t = "sup" /\ new.line = nread /\ \A e \in events : e.line < nread)
    BY <2>2 DEF LineInv
  <2>5. \A e \in events' : e.line <= nread
    BY <1>0, <1>1, <2>2, <2>4 DEF LineInv
  <2>6. \A e, f \in events' : (e.line # 0 /\ f.line # 0 /\ e.seq < f.seq) => e.line < f.line
    <3> SUFFICES ASSUME NEW e \in events', NEW f \in events', e.line # 0, f.line # 0, e.seq < f.seq
                 PROVE  e.line < f.line
      OBVIOUS
    <3>1. e # new
      BY <1>1, <2>1, <2>2
    <3>2. CASE f = new
      BY <2>2, <2>4, <3>1, <3>2
    <3>3. CASE f # new
      BY <2>2, <3>1, <3>3 DEF LineInv
    <3>4. QED
      BY <3>2, <3>3
  <2>7. ev'["sup"].line # 0 => /\ pc'["sup"] = "consume" /\ ev'["sup"].line = nread
                               /\ \A e \in events' : e.line < nread
    <3>1. SUFFICES ASSUME ev'["sup"].line # 0
                   PROVE  /\ pc'["sup"] = "consume" /\ ev'["sup"].line = nread
                          /\ \A e \in events' : e.line < nread
      OBVIOUS
    <3>2. t # "sup" /\ ev'["sup"] = ev["sup"]
      BY <1>0, <2>3, <3>1, NoteFacts
    <3>3. new.line = 0 /\ nread # 0
      BY <2>4, <3>1, <3>2 DEF LineInv
    <3>4. QED
      BY <1>0, <2>2, <2>3, <3>1, <3>2, <3>3 DEF LineInv
  <2>8. QED
    BY <1>2, <1>3, <1>4, <2>3, <2>5, <2>6, <2>7 DEF LineInv
<1>8. QED
  BY <1>5, <1>6, <1>7, EventsFrame

(* Only _supervise chooses the verdict. *)
LEMMA VerdictFrame ==
  ASSUME [Next]_vars, ~Supervise
  PROVE  verdict' = verdict
<1>1. ASSUME NEW t \in Tasks, AppendRead(t) \/ AppendCommit(t)
      PROVE  verdict' = verdict
  BY <1>1 DEF AppendRead, AppendCommit
<1>2. CASE \/ \E t \in {"sup"} \cup Requests : Finalize(t)
           \/ \E t \in Requests : Request(t)
           \/ \E t \in Deletes : Delete(t)
  BY <1>2 DEF Finalize, FinalizeUpdate, FinalizeEvent, FinalizeEnd, Request, RequestRead,
     CancelRun, FinalizeCheck, Delete, DeleteLoad, DeletePurge, DeleteDir
<1>3. CASE Start \/ Drain \/ Escalate \/ WorkerStep \/ WorkerStderr \/ ApiProcess \/ UNCHANGED vars
  BY <1>3 DEF Start, CreateRun, Spawn, SpawnFails, MarkRunning, StartSnapshot, Launch,
     LaunchFails, Drain, DrainLine, DrainEnd, DrainDropped, Escalate, WorkerStep, WorkerStderr,
     ApiProcess, Crash, ShutdownKill, ShutdownDrain, Boot, PeerBoot, vars
<1>4. QED
  BY <1>1, <1>2, <1>3 DEF Next

(* A stored line stays stored while there is a row. *)
LEMMA KeptStays ==
  ASSUME TypeOK, LogInv, ControlInv, LineInv, [Next]_vars, RowExists', NEW i \in 1..nread
  PROVE  /\ out'[i] = out[i]
         /\ Kept(i) => Kept(i)'
<1>1. i \in 1..Len(out)
  BY DEF LineInv, TypeOK, MemType, WorkerType
<1>2. out'[i] = out[i]
  BY <1>1, OutFrame
<1>3. events \subseteq events'
  <2>1. ASSUME NEW t \in Tasks, AppendCommit(t), CommitOk(t)
        PROVE  events \subseteq events'
    BY <2>1 DEF AppendCommit
  <2>2. QED
    BY <2>1, EventsFrame
<1>4. QED
  BY <1>2, <1>3 DEF Kept

(* While lines are read, the supervisor's append is touched by itself only. *)
LEMMA ConsumeFrame ==
  ASSUME TypeOK, ControlInv, [Next]_vars, pc'["sup"] = "consume"
  PROVE  \/ ConsumeLine \/ SupBegin
         \/ /\ pc["sup"] = "consume"
            /\ \/ AppendRead("sup") \/ AppendCommit("sup")
               \/ app'["sup"] = app["sup"] /\ ev'["sup"] = ev["sup"]
<1> USE DEF TypeOK, TaskType
<1>0. /\ "start" \in Tasks /\ "sup" \in Tasks /\ "err" \in Tasks
      /\ "start" \notin Requests /\ "sup" \notin Requests /\ "err" \notin Requests
      /\ Deletes \subseteq Requests
  BY TaskFacts
<1>1. ASSUME NEW t \in Tasks, t # "sup", AppendRead(t) \/ AppendCommit(t)
      PROVE  app'["sup"] = app["sup"] /\ ev'["sup"] = ev["sup"] /\ pc["sup"] = "consume"
  BY <1>0, <1>1 DEF AppendRead, AppendCommit, Forget
<1>2. CASE Start
  BY <1>0, <1>2 DEF Start, CreateRun, Spawn, SpawnFails, MarkRunning, StartSnapshot, Launch,
     LaunchFails, CallAppend, Catch, Forget, Continue, Goto
<1>3. CASE Supervise \/ Finalize("sup")
  BY <1>0, <1>3 DEF Supervise, ConsumeEOF, RunTimeout, TimeoutLogged, SupervisorCrash, Leave,
     ExitLogged, ExitLogRaises, Finalize, FinalizeUpdate, FinalizeEvent, FinalizeEnd, AfterCancel,
     CallAppend, Catch, Continue, Goto
<1>4. CASE Drain
  BY <1>0, <1>4 DEF Drain, DrainLine, DrainEnd, DrainDropped, CallAppend, Catch, Forget,
     Continue, Goto
<1>5. ASSUME NEW t \in Requests, Finalize(t) \/ Request(t) \/ (t \in Deletes /\ Delete(t))
      PROVE  app'["sup"] = app["sup"] /\ ev'["sup"] = ev["sup"] /\ pc["sup"] = "consume"
  BY <1>0, <1>5, RequestFrame
<1>6. CASE Escalate \/ WorkerStep \/ WorkerStderr \/ ShutdownKill \/ Boot \/ PeerBoot
           \/ UNCHANGED vars
  BY <1>6 DEF Escalate, WorkerStep, WorkerStderr, ShutdownKill, Boot, PeerBoot, vars
<1>7. CASE Crash \/ ShutdownDrain
  <2>1. "sup" \in LocalTasks /\ ProcessGone
    BY <1>0, <1>7 DEF LocalTasks, Requests, Crash, ShutdownDrain
  <2>2. QED
    BY <1>0, <2>1 DEF ProcessGone
<1>8. CASE AppendRead("sup") \/ AppendCommit("sup")
  BY <1>8 DEF AppendRead, AppendCommit
<1>9. QED
  BY <1>0, <1>1, <1>2, <1>3, <1>4, <1>5, <1>6, <1>7, <1>8 DEF Next, ApiProcess

(* Every line read is stored or about to be, until an append fails. *)
LEMMA ReadKept ==
  ASSUME TypeOK, LogInv, ControlInv, AppendInv, LineInv, KeptInv, [Next]_vars,
         pc'["sup"] = "consume", app'["sup"] # "raised", RowExists',
         NEW i \in 1..nread', out'[i].kind \in W!Kind
  PROVE  Kept(i)' \/ Pending(i)'
<1> USE DEF TypeOK
<1>0. "sup" \in Tasks /\ nread \in Nat /\ ev \in [Tasks -> Event]
      /\ app \in [Tasks -> {"idle", "read", "commit", "raised"}]
  BY TaskFacts DEF MemType, TaskType
<1>1. CASE ConsumeLine
  <2>1. /\ pc["sup"] = "consume" /\ app["sup"] = "idle" /\ nread' = nread + 1
        /\ UNCHANGED <<status, events, out>>
    BY <1>1, ConsumeFacts
  <2>2. CASE i = nread + 1
    BY <1>1, <2>1, <2>2, ConsumeFacts DEF Pending
  <2>3. CASE i # nread + 1
    <3>1. i \in 1..nread
      BY <1>0, <2>1, <2>3
    <3>2. Kept(i)
      BY <2>1, <3>1 DEF KeptInv, Pending, RowExists
    <3>3. QED
      BY <3>1, <3>2, KeptStays
  <2>4. QED
    BY <2>2, <2>3
<1>2. CASE SupBegin
  BY <1>0, <1>2 DEF SupBegin, LineInv
<1>3. CASE pc["sup"] = "consume" /\ ~ConsumeLine
  <2>1. RowExists
    BY <1>3, StatusFrame DEF ControlInv
  <2>2. i \in 1..nread /\ out'[i] = out[i]
    BY <1>3, CountFrame, KeptStays
  <2>3. CASE AppendRead("sup")
    <3>1. app["sup"] = "read" /\ app'["sup"] = "commit" /\ ev' = ev
      BY <1>0, <2>1, <2>3 DEF AppendRead
    <3>2. Kept(i) \/ Pending(i)
      BY <1>3, <2>1, <2>2, <3>1 DEF KeptInv
    <3>3. QED
      BY <2>2, <3>1, <3>2, KeptStays DEF Pending
  <2>4. CASE AppendCommit("sup")
    <3>1. app["sup"] = "commit" /\ CommitOk("sup")
      BY <1>0, <2>4 DEF AppendCommit
    <3>2. Kept(i) \/ Pending(i)
      BY <1>3, <2>1, <2>2, <3>1 DEF KeptInv
    <3>3. Pending(i) => Kept(i)'
      <4>1. PICK new \in Event : /\ events' = events \cup {new}
                                 /\ new.type = ev["sup"].type /\ new.line = ev["sup"].line
        BY <1>0, <2>4, <3>1, CommitAdds
      <4>2. QED
        BY <2>2, <4>1 DEF Pending, Kept
    <3>4. QED
      BY <2>2, <3>2, <3>3, KeptStays
  <2>5. CASE app'["sup"] = app["sup"] /\ ev'["sup"] = ev["sup"]
    <3>1. Kept(i) \/ Pending(i)
      BY <1>3, <2>1, <2>2, <2>5 DEF KeptInv
    <3>2. QED
      BY <2>2, <2>5, <3>1, KeptStays DEF Pending
  <2>6. SupBegin => FALSE
    BY <1>3 DEF SupBegin
  <2>7. QED
    BY <1>3, <2>3, <2>4, <2>5, <2>6, ConsumeFrame
<1>4. QED
  BY <1>1, <1>2, <1>3, ConsumeFrame

(* KeptInv is preserved. *)
LEMMA KeptStep ==
  ASSUME TypeOK, LogInv, ControlInv, AppendInv, LineInv, KeptInv, [Next]_vars
  PROVE  KeptInv'
<1> USE DEF TypeOK
<1>0. /\ "sup" \in Tasks /\ nread \in Nat /\ nread' \in Nat /\ Len(out) \in Nat
      /\ nread <= Len(out)
      /\ pc \in [Tasks -> Label] /\ app \in [Tasks -> {"idle", "read", "commit", "raised"}]
  BY TaskFacts, TypeStep DEF MemType, WorkerType, TaskType, LineInv
<1>1. \A i \in results' : i \in 1..nread' /\ out'[i].kind = "result"
  <2>1. CASE ConsumeLine
    <3>1. \/ results' = results
          \/ results' = results \cup {nread + 1} /\ out[nread + 1].kind = "result"
      BY <2>1, ConsumeFacts
    <3>2. nread' = nread + 1 /\ out' = out
      BY <2>1, ConsumeFacts
    <3>3. QED
      BY <1>0, <3>1, <3>2 DEF KeptInv
  <2>2. CASE ~ConsumeLine
    <3>1. nread' = nread /\ results' \subseteq results
      BY <2>2, CountFrame
    <3>2. \A i \in 1..nread : out'[i] = out[i]
      BY <1>0, OutFrame
    <3>3. QED
      BY <3>1, <3>2 DEF KeptInv
  <2>3. QED
    BY <2>1, <2>2
<1>2. pc'["sup"] = "timedout" => verdict' # "completed"
  <2>1. CASE Supervise \/ Finalize("sup") \/ Launch
    BY <1>0, <2>1 DEF Launch, Supervise, SupBegin, ConsumeLine, ConsumeEOF, RunTimeout,
       TimeoutLogged, SupervisorCrash, Leave, ExitLogged, ExitLogRaises, Returned, Raised,
       Finalize, FinalizeUpdate, FinalizeEvent, FinalizeEnd, AfterCancel, CallAppend, Catch,
       Continue, Goto, KeptInv
  <2>2. CASE Crash \/ ShutdownDrain
    BY <1>0, <2>2 DEF Crash, ShutdownDrain, ProcessGone, KeptInv
  <2>3. CASE pc'["sup"] = pc["sup"] /\ ~Supervise
    BY <2>3, VerdictFrame DEF KeptInv
  <2>4. QED
    BY <2>1, <2>2, <2>3, SupFrame
<1>3. ASSUME pc'["sup"] \in Deciding, verdict' = "completed"
      PROVE  /\ nread' = Len(out') /\ proc' = "dead"
             /\ RowExists' => \A i \in 1..nread' : out'[i].kind \in W!Kind => Kept(i)'
  <2>1. CASE ConsumeEOF
    <3>1. /\ pc["sup"] = "consume" /\ app["sup"] = "idle" /\ nread = Len(out) /\ proc = "dead"
          /\ UNCHANGED <<status, events, out, proc, nread>>
      BY <2>1 DEF ConsumeEOF, Returned
    <3>2. ASSUME RowExists', NEW i \in 1..nread', out'[i].kind \in W!Kind
          PROVE  Kept(i)'
      BY <3>1, <3>2 DEF KeptInv, Pending, Kept, RowExists
    <3>3. QED
      BY <3>1, <3>2
  <2>2. CASE pc["sup"] \in Deciding /\ verdict = "completed"
    <3>1. pc["sup"] # "idle" /\ ~ConsumeLine
      BY <2>2 DEF Deciding, ConsumeLine, Returned
    <3>2. nread = Len(out) /\ proc = "dead" /\ nread' = nread /\ out' = out /\ proc' = "dead"
      BY <2>2, <3>1, OutFrame, CountFrame DEF KeptInv
    <3>3. ASSUME RowExists', NEW i \in 1..nread', out'[i].kind \in W!Kind
          PROVE  Kept(i)'
      <4>1. RowExists
        BY <3>1, <3>3, StatusFrame DEF ControlInv
      <4>2. Kept(i)
        BY <2>2, <3>2, <3>3, <4>1 DEF KeptInv
      <4>3. QED
        BY <3>2, <3>3, <4>2, KeptStays
    <3>4. QED
      BY <3>2, <3>3
  <2>3. ConsumeEOF \/ (pc["sup"] \in Deciding /\ verdict = "completed")
    <3>1. CASE Supervise
      BY <1>0, <1>3, <3>1 DEF Supervise, SupBegin, ConsumeLine, RunTimeout, TimeoutLogged,
         SupervisorCrash, Leave, ExitLogged, ExitLogRaises, Returned, Raised, CallAppend, Catch,
         Continue, Goto, Deciding, KeptInv
    <3>2. CASE ~Supervise /\ pc'["sup"] = pc["sup"]
      BY <1>3, <3>2, VerdictFrame
    <3>3. CASE Launch \/ Finalize("sup") \/ Crash \/ ShutdownDrain
      BY <1>0, <1>3, <3>3, TaskFacts DEF Launch, Finalize, FinalizeUpdate, FinalizeEvent,
         FinalizeEnd, AfterCancel, CallAppend, Catch, Continue, Goto, Crash, ShutdownDrain,
         ProcessGone, LocalTasks, Deciding
    <3>4. QED
      BY <3>1, <3>2, <3>3, SupFrame
  <2>4. QED
    BY <2>1, <2>2, <2>3
<1>4. ASSUME status' = "completed"
      PROVE  /\ pc'["sup"] \in Finalized \cup {"raised", "lost"}
             /\ nread' = Len(out') /\ proc' = "dead"
             /\ \A i \in 1..nread' : out'[i].kind \in W!Kind => Kept(i)'
  <2>0. RowExists'
    BY <1>4 DEF RowExists
  <2>1. CASE FinalizeUpdate("sup") /\ verdict = "completed" /\ RowExists
    <3>1. /\ pc["sup"] = "finalize" /\ pc'["sup"] = "final"
          /\ UNCHANGED <<events, out, proc, nread>>
      BY <1>0, <2>1 DEF FinalizeUpdate, Continue, Goto
    <3>2. nread = Len(out) /\ proc = "dead" /\ \A i \in 1..nread : out[i].kind \in W!Kind => Kept(i)
      BY <2>1, <3>1 DEF KeptInv, Deciding
    <3>3. QED
      BY <3>1, <3>2 DEF Kept, Finalized
  <2>2. CASE status = "completed"
    <3>1. /\ pc["sup"] \in Finalized \cup {"raised", "lost"} /\ nread = Len(out) /\ proc = "dead"
          /\ \A i \in 1..nread : out[i].kind \in W!Kind => Kept(i)
      BY <2>2 DEF KeptInv
    <3>2. pc["sup"] # "idle" /\ ~ConsumeLine
      BY <3>1 DEF Finalized, ConsumeLine, Returned
    <3>3. nread' = nread /\ out' = out /\ proc' = "dead"
      BY <3>1, <3>2, OutFrame, CountFrame
    <3>4. pc'["sup"] \in Finalized \cup {"raised", "lost"}
      BY <1>0, <3>1, SupFrame, TaskFacts DEF Launch, Returned, ControlInv, Supervise, SupBegin,
         ConsumeLine, ConsumeEOF, RunTimeout, TimeoutLogged, SupervisorCrash, Leave, ExitLogged,
         ExitLogRaises, Raised, Finalize, FinalizeUpdate, FinalizeEvent, FinalizeEnd, AfterCancel,
         CallAppend, Catch, Continue, Goto, Crash, ShutdownDrain, ProcessGone, Finalized
    <3>5. ASSUME NEW i \in 1..nread', out'[i].kind \in W!Kind
          PROVE  Kept(i)'
      BY <2>0, <3>1, <3>3, <3>5, KeptStays
    <3>6. QED
      BY <3>1, <3>3, <3>4, <3>5
  <2>3. QED
    BY <1>4, <2>1, <2>2, CompletedFrame
<1>5. QED
  BY <1>1, <1>2, <1>3, <1>4, ReadKept DEF KeptInv
-----------------------------------------------------------------------------
(* The inductive invariant of a run's life, beside TypeOK and LogInv. *)
LifeInv == ControlInv /\ AppendInv /\ RowInv /\ ReachInv /\ NoteInv /\ LineInv /\ KeptInv

(* Every reachable state satisfies the invariant of a run's life: the      *)
(* inductive argument behind the five theorems that follow.                *)
THEOREM LifeInvariance == Spec => []LifeInv
<1>1. Init => LifeInv
  <2> SUFFICES ASSUME Init PROVE LifeInv
    OBVIOUS
  <2>1. /\ \A t \in Tasks : pc[t] = "idle" /\ app[t] = "idle" /\ ev[t] = NoEvent
        /\ proc = "none" /\ status = "absent" /\ events = {} /\ results = {}
        /\ api = "up" /\ nread = 0 /\ out = <<>>
    BY DEF Init
  <2>2. ControlInv /\ AppendInv /\ RowInv /\ ReachInv
    BY <2>1, TaskFacts DEF ControlInv, AppendInv, RowInv, ReachInv, WorkerReachable,
       StartLabel, SupLabel, Left, Finalized, RowExists, Active
  <2>3. NoteInv
    BY <2>1, TaskFacts, NoteFacts DEF NoteInv
  <2>4. LineInv
    BY <2>1, TaskFacts, NoteFacts DEF LineInv
  <2>5. KeptInv
    BY <2>1, TaskFacts DEF KeptInv, Deciding
  <2>6. QED
    BY <2>2, <2>3, <2>4, <2>5 DEF LifeInv
<1>2. TypeOK /\ LogInv /\ LifeInv /\ [Next]_vars => LifeInv'
  BY ControlStep, AppendStep, RowStep, ReachStep, NoteStep, LineStep, KeptStep DEF LifeInv
<1>3. QED
  BY <1>1, <1>2, Invariance, PTL DEF Spec

(* Once _supervise has returned, the row of the run is terminal and shows  *)
(* no activity, and stays so whatever late cancel requests, peers that     *)
(* boot or a drainer's last append do.                                     *)
THEOREM SupervisedIsFinal == Spec => []SupervisedRunIsFinal
<1>1. LifeInv => SupervisedRunIsFinal
  BY DEF LifeInv, RowInv, SupervisedRunIsFinal, Finalized
<1>2. QED
  BY <1>1, LifeInvariance, PTL

(* A row that is still queued or running when no task works on it any more *)
(* is left by an exception in start_run or in the supervisor itself; no    *)
(* other order of requests, restarts and appends strands a run.            *)
THEOREM OnlyRaisedRunsStick == Spec => []StuckOnlyIfRaised
<1>1. LogInv /\ LifeInv => StuckOnlyIfRaised
  <2> SUFFICES ASSUME LogInv, LifeInv, api = "up", status \in Active,
                      \A t \in Tasks : pc[t] \in AtRest
               PROVE  pc["start"] = "raised" \/ pc["sup"] = "raised"
    BY DEF StuckOnlyIfRaised
  <2>1. pc["start"] \in AtRest /\ pc["sup"] \in AtRest
    BY TaskFacts
  <2>2. RowExists /\ status \notin Terminal
    BY DEF RowExists, Active, Terminal
  <2>3. pc["start"] # "idle" /\ pc["start"] # "lost" /\ pc["start"] # "cancelled"
    BY <2>2 DEF LogInv, LifeInv, RowInv, ControlInv, StartLabel
  <2>4. CASE pc["start"] = "done"
    BY <2>1, <2>2, <2>4 DEF LifeInv, ControlInv, RowInv, SupLabel, AtRest, Finalized
  <2>5. QED
    BY <2>1, <2>3, <2>4 DEF AtRest
<1>2. QED
  BY <1>1, LifeInvariance, Invariance, PTL

(* The registry or a sleeping escalation holds every live worker whose     *)
(* pipes are read, except one left behind by "except Exception".           *)
THEOREM LiveWorkerReachable == Spec => []WorkerReachable
<1>1. LifeInv => WorkerReachable
  BY DEF LifeInv, ReachInv
<1>2. QED
  BY <1>1, LifeInvariance, PTL

(* While a run is left alone nothing is appended after its terminal        *)
(* run_status event, also by the drainer's commit that outlives its        *)
(* cancellation: the number it read is used by then.                       *)
THEOREM TerminalIsLast == Spec => []TerminalEventLast
<1>1. TypeOK /\ LogInv /\ LifeInv => TerminalEventLast
  <2> SUFFICES ASSUME TypeOK, LogInv, LifeInv, Undisturbed, NEW e \in events, NEW f \in events,
                      TerminalNote(e)
               PROVE  f.seq <= e.seq
    BY DEF TerminalEventLast, TerminalNote
  <2>1. RowExists
    BY DEF LifeInv, NoteInv, LogInv
  <2>2. e.seq = lastSeq /\ f.seq \in 1..lastSeq /\ lastSeq \in Nat
    BY <2>1 DEF LifeInv, NoteInv, LogInv, LogDense, TypeOK, RowType
  <2>3. QED
    BY <2>2
<1>2. QED
  BY <1>1, LifeInvariance, Invariance, PTL

(* A run shown as completed has every line of its worker as an event, in   *)
(* the order written, and no Result row without its event.                 *)
THEOREM CompletedKeepsLines == Spec => []CompletedIsWhole
<1>1. TypeOK /\ LifeInv => CompletedIsWhole
  <2> SUFFICES ASSUME TypeOK, LifeInv, status = "completed"
               PROVE  CompletedIsWhole
    BY DEF CompletedIsWhole
  <2>1. nread = Len(out) /\ \A i \in 1..nread : out[i].kind \in W!Kind => Kept(i)
    BY DEF LifeInv, KeptInv
  <2>2. \A i \in results : i \in 1..nread /\ out[i].kind = "result"
    BY DEF LifeInv, KeptInv
  <2>3. \A i \in results : \E e \in events : e.line = i /\ e.type = "result"
    BY <2>1, <2>2 DEF Kept, W!Kind
  <2>4. \A e, f \in events : (e.line # 0 /\ f.line # 0 /\ e.seq < f.seq) => e.line < f.line
    BY DEF LifeInv, LineInv
  <2>5. QED
    BY <2>1, <2>3, <2>4 DEF CompletedIsWhole, Kept
<1>2. QED
  BY <1>1, LifeInvariance, Invariance, PTL
=============================================================================
