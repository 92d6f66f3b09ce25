----------------------------- MODULE JobManager -----------------------------
(***************************************************************************)
(* One test run under the JobManager of backend/app/jobs.py: the request   *)
(* that creates it, its worker process, the supervisor and the stderr      *)
(* drainer that read the worker's pipes, requests to cancel and to delete  *)
(* it, and stops and boots of the API process.                             *)
(*                                                                         *)
(* Every task is a coroutine of one event loop, so a step runs from one    *)
(* await to the next.  _append_event holds two such awaits (read the row,  *)
(* commit) and is shared by all tasks: app[t] is where task t stands in    *)
(* it, ev[t] the event it appends and rd[t] the last_seq it read.  pc[t]   *)
(* is where the caller continues when the append has returned.             *)
(***************************************************************************)
EXTENDS RunRecord, Sequences, FiniteSets

CONSTANTS
  Cancels,        \* POST .../cancel requests served by the owning API process
  RemoteCancels,  \* the same, served by another API process
  Deletes,        \* DELETE requests
  MaxOut,         \* bound: worker stdout lines before done/fatal
  MaxErr,         \* bound: worker stderr lines
  LongLines,      \* the worker may write lines beyond the StreamReader's limit
  MaxRestarts,    \* bound: stops of the owning API process
  MaxPeerBoots    \* bound: boots of another API process on the same database

Requests == Cancels \cup RemoteCancels \cup Deletes
Tasks    == {"start", "sup", "err"} \cup Requests

ASSUME JobManagerAssumption ==
  /\ {"start", "sup", "err"} \cap Requests = {}
  /\ Cancels \cap Deletes = {} /\ RemoteCancels \cap (Cancels \cup Deletes) = {}
  /\ LongLines \in BOOLEAN
  /\ MaxOut \in Nat /\ MaxErr \in Nat /\ MaxRestarts \in Nat /\ MaxPeerBoots \in Nat

VARIABLES
  activity,         \* Run.current_activity is set
  results,          \* worker lines stored as Result rows
  dir,              \* the run's workspace directory exists
  flag,             \* the cancel file in it exists
  proc, out,        \* the worker process and its stdout (see WorkerProtocol)
  errOut,           \* lines written to stderr
  piped,            \* the process that reads the worker's pipes is alive
  api,              \* the owning API process: "up", "draining" or "down"
  registered,       \* run_id in JobManager._processes
  cancelRequested,  \* run_id in JobManager._cancel_requested
  armed,            \* an _escalate task is sleeping
  pc, app, ev, rd,  \* control state of the tasks
  verdict,          \* _supervise: terminal_from_worker
  nread, errRead,   \* lines read from stdout and stderr
  restarts, peerBoots

rowVars    == <<status, lastSeq, events, activity, results>>
diskVars   == <<dir, flag>>
workerVars == <<proc, out, errOut, piped>>
memVars    == <<api, registered, cancelRequested, armed>>
taskVars   == <<pc, app, ev, rd>>
supVars    == <<verdict, nread, errRead>>
bootVars   == <<restarts, peerBoots>>
vars == <<rowVars, diskVars, workerVars, memVars, taskVars, supVars, bootVars>>

W   == INSTANCE WorkerProtocol WITH MaxBody <- MaxOut
Log == INSTANCE RunLog

NoEvent        == [seq |-> 0, type |-> "log", st |-> "absent", line |-> 0]
LogEvent       == NoEvent
LineEvent(k, n) == [NoEvent EXCEPT !.type = k, !.line = n]
StatusEvent(s) == [NoEvent EXCEPT !.type = "run_status", !.st = s]

Init ==
  /\ status = "absent" /\ lastSeq = 0 /\ events = {}
  /\ activity = FALSE /\ results = {}
  /\ dir = FALSE /\ flag = FALSE
  /\ proc = "none" /\ out = <<>> /\ errOut = 0 /\ piped = FALSE
  /\ api = "up" /\ registered = FALSE /\ cancelRequested = FALSE /\ armed = FALSE
  /\ pc = [t \in Tasks |-> "idle"]
  /\ app = [t \in Tasks |-> "idle"]
  /\ ev = [t \in Tasks |-> NoEvent]
  /\ rd = [t \in Tasks |-> 0]
  /\ verdict = "none" /\ nread = 0 /\ errRead = 0
  /\ restarts = 0 /\ peerBoots = 0
-----------------------------------------------------------------------------
(* _append_event *)

Goto(t, l) == pc' = [pc EXCEPT ![t] = l]

(* Call it with event e, to continue at l. *)
CallAppend(t, e, l) ==
  /\ Goto(t, l)
  /\ app' = [app EXCEPT ![t] = "read"]
  /\ ev' = [ev EXCEPT ![t] = e]
  /\ rd' = [rd EXCEPT ![t] = 0]

(* Its locals go out of scope when it is left. *)
Forget(t) == ev' = [ev EXCEPT ![t] = NoEvent] /\ rd' = [rd EXCEPT ![t] = 0]

(* The caller at l resumes after it returned, or after it raised. *)
Returned(t, l) == pc[t] = l /\ app[t] = "idle"
Raised(t, l)   == pc[t] = l /\ app[t] = "raised"
Catch(t, l)    == Goto(t, l) /\ app' = [app EXCEPT ![t] = "idle"] /\ Forget(t)
Continue(t, l) == Goto(t, l) /\ UNCHANGED <<app, ev, rd>>

(* session.get(Run): a missing row ends the call. *)
AppendRead(t) ==
  /\ app[t] = "read"
  /\ IF RowExists
       THEN /\ app' = [app EXCEPT ![t] = "commit"]
            /\ rd' = [rd EXCEPT ![t] = lastSeq]
            /\ UNCHANGED ev
       ELSE /\ app' = [app EXCEPT ![t] = "idle"]
            /\ Forget(t)
  /\ UNCHANGED <<rowVars, diskVars, workerVars, memVars, pc, supVars, bootVars>>

(* Mutant: no unique index on (run_id, seq). *)
CommitUnchecked(t) == RowExists

(* The transaction that writes last_seq and inserts the event violates the *)
(* unique index if another task used the number since, and updates no row  *)
(* if the run was deleted since: both raise.                               *)
CommitOk(t) == RowExists /\ \A e \in events : e.seq # rd[t] + 1

AppendCommit(t) ==
  /\ app[t] = "commit"
  /\ IF CommitOk(t)
       THEN /\ lastSeq' = rd[t] + 1
            /\ events' = events \cup {[ev[t] EXCEPT !.seq = rd[t] + 1]}
            /\ app' = [app EXCEPT ![t] = "idle"]
       ELSE /\ app' = [app EXCEPT ![t] = "raised"]
            /\ UNCHANGED <<lastSeq, events>>
  /\ Forget(t)
  /\ UNCHANGED <<status, activity, results, diskVars, workerVars, memVars, pc, supVars, bootVars>>
-----------------------------------------------------------------------------
(* create_run (its last part) and start_run *)

(* The workspace, its manifest and the queued row exist; start_run begins. *)
CreateRun ==
  /\ pc["start"] = "idle" /\ api = "up"
  /\ status' = "queued" /\ dir' = TRUE
  /\ Continue("start", "spawn")
  /\ UNCHANGED <<lastSeq, events, activity, results, flag, workerVars, memVars,
                 supVars, bootVars>>

(* Mutant: start_run does not register the process. *)
SpawnUnregistered ==
  /\ pc["start"] = "spawn"
  /\ proc' = "up" /\ piped' = TRUE
  /\ Continue("start", "mark")
  /\ UNCHANGED <<rowVars, diskVars, out, errOut, memVars, supVars, bootVars>>

(* create_subprocess_exec has returned; the process is registered. *)
Spawn ==
  /\ pc["start"] = "spawn"
  /\ proc' = "up" /\ piped' = TRUE /\ registered' = TRUE
  /\ Continue("start", "mark")
  /\ UNCHANGED <<rowVars, diskVars, out, errOut, api, cancelRequested, armed,
                 supVars, bootVars>>

(* create_subprocess_exec raised: nothing handles it, the row stays queued. *)
SpawnFails ==
  /\ pc["start"] = "spawn"
  /\ Continue("start", "raised")
  /\ UNCHANGED <<rowVars, diskVars, workerVars, memVars, supVars, bootVars>>

(* Mutant: the row is written back even if it was deleted meanwhile. *)
MarkRunningUpsert ==
  /\ pc["start"] = "mark"
  /\ status' = "running"
  /\ Continue("start", "snapshot")
  /\ UNCHANGED <<lastSeq, events, activity, results, diskVars, workerVars, memVars,
                 supVars, bootVars>>

(* _update_run(status="running"): unconditional. *)
MarkRunning ==
  /\ pc["start"] = "mark"
  /\ status' = IF RowExists THEN "running" ELSE status
  /\ Continue("start", "snapshot")
  /\ UNCHANGED <<lastSeq, events, activity, results, diskVars, workerVars, memVars,
                 supVars, bootVars>>

StartSnapshot ==
  /\ pc["start"] = "snapshot"
  /\ CallAppend("start", StatusEvent(status), "launch")
  /\ UNCHANGED <<rowVars, diskVars, workerVars, memVars, supVars, bootVars>>

(* create_task(_supervise); if the append raised there is no supervisor. *)
Launch ==
  /\ Returned("start", "launch")
  /\ pc' = [pc EXCEPT !["start"] = "done", !["sup"] = "begin"]
  /\ UNCHANGED <<rowVars, diskVars, workerVars, memVars, app, ev, rd, supVars, bootVars>>

LaunchFails ==
  /\ Raised("start", "launch")
  /\ Catch("start", "raised")
  /\ UNCHANGED <<rowVars, diskVars, workerVars, memVars, supVars, bootVars>>
-----------------------------------------------------------------------------
(* _supervise *)

(* The run timeout is known; the stderr drainer is started. *)
SupBegin ==
  /\ pc["sup"] = "begin"
  /\ pc' = [pc EXCEPT !["sup"] = "consume", !["err"] = "drain"]
  /\ UNCHANGED <<rowVars, diskVars, workerVars, memVars, app, ev, rd, supVars, bootVars>>

(* Storing a result is isolated: it may fail without further effect. *)
PersistResult(n) ==
  \/ UNCHANGED results
  \/ RowExists /\ results' = results \cup {n}

(* _consume: one line of stdout. *)
ConsumeLine ==
  /\ Returned("sup", "consume") /\ nread < Len(out)
  /\ nread' = nread + 1
  /\ LET l == out[nread + 1] IN
       \/ /\ l.kind = "done"
          /\ verdict' = l.st
          /\ UNCHANGED <<activity, results, taskVars>>
       \/ /\ l.kind = "fatal"
          /\ verdict' = "failed"
          /\ CallAppend("sup", LogEvent, "consume")
          /\ UNCHANGED <<activity, results>>
       \/ /\ l.kind \in {"log", "progress", "result"}
          /\ activity' = (activity \/ (l.kind = "progress" /\ RowExists))
          /\ IF l.kind = "result" THEN PersistResult(nread + 1) ELSE UNCHANGED results
          /\ CallAppend("sup", LineEvent(l.kind, nread + 1), "consume")
          /\ UNCHANGED verdict
  /\ UNCHANGED <<status, lastSeq, events, diskVars, workerVars, memVars, errRead, bootVars>>

(* Mutant: the loop ends when the process has, not at the end of file. *)
ConsumeUntilExit ==
  /\ Returned("sup", "consume") /\ proc = "dead"
  /\ Continue("sup", "leave")
  /\ UNCHANGED <<rowVars, diskVars, workerVars, memVars, supVars, bootVars>>

(* End of file, then process.wait(). *)
ConsumeEOF ==
  /\ Returned("sup", "consume") /\ nread = Len(out) /\ proc = "dead"
  /\ Continue("sup", "leave")
  /\ UNCHANGED <<rowVars, diskVars, workerVars, memVars, supVars, bootVars>>

(* Mutant: _consume is awaited without a timeout. *)
NoRunTimeout == FALSE /\ UNCHANGED vars

(* wait_for expired: _consume is cancelled where it stands, the group      *)
(* killed and reaped, and the reason logged.                               *)
RunTimeout ==
  /\ pc["sup"] = "consume" /\ app["sup"] # "raised"
  /\ proc' = "dead"
  /\ verdict' = "timed_out"
  /\ CallAppend("sup", LogEvent, "timedout")
  /\ UNCHANGED <<rowVars, diskVars, out, errOut, piped, memVars, nread, errRead, bootVars>>

TimeoutLogged ==
  /\ Returned("sup", "timedout")
  /\ Continue("sup", "leave")
  /\ UNCHANGED <<rowVars, diskVars, workerVars, memVars, supVars, bootVars>>

(* except Exception, for an append or a readline that raised: the worker   *)
(* is left as it is.                                                       *)
SupervisorCrash ==
  /\ \/ Raised("sup", "consume") \/ Raised("sup", "timedout")
     \/ LongLines /\ Returned("sup", "consume") /\ nread < Len(out)
  /\ verdict' = "failed"
  /\ Catch("sup", "leave")
  /\ UNCHANGED <<rowVars, diskVars, workerVars, memVars, nread, errRead, bootVars>>

(* Mutant: the stderr drainer is not cancelled. *)
LeaveDraining ==
  /\ pc["sup"] = "leave"
  /\ registered' = FALSE /\ cancelRequested' = FALSE
  /\ verdict' = IF verdict = "none" THEN "failed" ELSE verdict
  /\ Continue("sup", "finalize")
  /\ UNCHANGED <<rowVars, diskVars, workerVars, api, armed, nread, errRead, bootVars>>

(* finally: cancel the drainer (an append it has sent to the database may  *)
(* still be committed), drop the process; then choose the final status.    *)
Leave ==
  /\ pc["sup"] = "leave"
  /\ registered' = FALSE
  /\ LET died == verdict = "none" /\ ~cancelRequested IN
       /\ pc' = [pc EXCEPT !["err"] = "cancelled",
                           !["sup"] = IF died THEN "exitlog" ELSE "finalize"]
       /\ app' = [app EXCEPT !["err"] = IF @ = "commit" THEN "commit" ELSE "idle",
                             !["sup"] = IF died THEN "read" ELSE "idle"]
       /\ ev' = [ev EXCEPT !["err"] = IF app["err"] = "commit" THEN @ ELSE NoEvent]
       /\ verdict' = IF died THEN "failed"
                     ELSE IF verdict = "none" \/ (cancelRequested /\ verdict = "completed")
                            THEN "cancelled" ELSE verdict
       /\ cancelRequested' = FALSE
  /\ UNCHANGED <<rowVars, diskVars, workerVars, api, armed, rd, nread, errRead, bootVars>>

ExitLogged ==
  /\ Returned("sup", "exitlog")
  /\ Continue("sup", "finalize")
  /\ cancelRequested' = FALSE
  /\ UNCHANGED <<rowVars, diskVars, workerVars, api, registered, armed, supVars, bootVars>>

(* This append is outside the try block: the supervisor dies unfinished. *)
ExitLogRaises ==
  /\ Raised("sup", "exitlog")
  /\ Catch("sup", "raised")
  /\ UNCHANGED <<rowVars, diskVars, workerVars, memVars, supVars, bootVars>>
-----------------------------------------------------------------------------
(* _finalize, called by _supervise and by _finalize_if_not_terminal *)

FinalStatus(t) == IF t = "sup" THEN verdict ELSE "cancelled"
AfterCancel(t) == IF t \in Deletes THEN "delete" ELSE "done"

(* Mutant: current_activity is not cleared. *)
FinalizeKeepsActivity(t) ==
  /\ pc[t] = "finalize"
  /\ status' = IF RowExists THEN FinalStatus(t) ELSE status
  /\ Continue(t, "final")
  /\ UNCHANGED <<lastSeq, events, activity, results, diskVars, workerVars, memVars, supVars,
                 bootVars>>

(* Mutant: _supervise also finalizes only a run that is not terminal. *)
FinalizeOnce(t) ==
  /\ pc[t] = "finalize"
  /\ status' = IF status \in Active THEN FinalStatus(t) ELSE status
  /\ activity' = (activity /\ status \notin Active)
  /\ Continue(t, "final")
  /\ UNCHANGED <<lastSeq, events, results, diskVars, workerVars, memVars, supVars, bootVars>>

(* _update_run with the final status. *)
FinalizeUpdate(t) ==
  /\ pc[t] = "finalize"
  /\ status' = IF RowExists THEN FinalStatus(t) ELSE status
  /\ activity' = (activity /\ ~RowExists)
  /\ Continue(t, "final")
  /\ UNCHANGED <<lastSeq, events, results, diskVars, workerVars, memVars, supVars, bootVars>>

(* Mutant: the final status is not announced. *)
FinalizeSilent(t) ==
  /\ pc[t] = "final"
  /\ Continue(t, "end")
  /\ UNCHANGED <<rowVars, diskVars, workerVars, memVars, supVars, bootVars>>

(* _run_snapshot and the run_status event. *)
FinalizeEvent(t) ==
  /\ pc[t] = "final"
  /\ CallAppend(t, StatusEvent(status), "end")
  /\ UNCHANGED <<rowVars, diskVars, workerVars, memVars, supVars, bootVars>>

FinalizeEnd(t) ==
  /\ \/ Returned(t, "end") /\ Continue(t, AfterCancel(t))
     \/ Raised(t, "end") /\ Catch(t, "raised")
  /\ UNCHANGED <<rowVars, diskVars, workerVars, memVars, supVars, bootVars>>
-----------------------------------------------------------------------------
(* _drain_stderr *)

DrainLine ==
  /\ Returned("err", "drain") /\ errRead < errOut
  /\ errRead' = errRead + 1
  /\ CallAppend("err", LogEvent, "drain")
  /\ UNCHANGED <<rowVars, diskVars, workerVars, memVars, verdict, nread, bootVars>>

DrainEnd ==
  /\ \/ /\ Returned("err", "drain") /\ errRead = errOut /\ proc = "dead"
        /\ Continue("err", "done")
     \/ /\ \/ Raised("err", "drain")
           \/ LongLines /\ Returned("err", "drain") /\ errRead < errOut
        /\ Catch("err", "raised")
  /\ UNCHANGED <<rowVars, diskVars, workerVars, memVars, supVars, bootVars>>

(* A cancelled drainer's pending append did not reach the database, or     *)
(* failed there.                                                           *)
DrainDropped ==
  /\ pc["err"] = "cancelled" /\ app["err"] \in {"commit", "raised"}
  /\ Catch("err", "cancelled")
  /\ UNCHANGED <<rowVars, diskVars, workerVars, memVars, supVars, bootVars>>
-----------------------------------------------------------------------------
(* POST .../cancel and DELETE .../{run_id} *)

Local(t) == t \notin RemoteCancels

(* _get_run_or_404 and the test of the status it read. *)
RequestRead(t) ==
  /\ pc[t] = "idle" /\ RowExists /\ (Local(t) => api = "up")
  /\ Continue(t, IF status \notin Terminal THEN "request" ELSE AfterCancel(t))
  /\ UNCHANGED <<rowVars, diskVars, workerVars, memVars, supVars, bootVars>>

(* JobManager.cancel_run up to its first await. *)
CancelRun(t) ==
  /\ pc[t] = "request"
  /\ flag' = dir
  /\ cancelRequested' = (cancelRequested \/ Local(t))
  /\ IF Local(t) /\ registered
       THEN armed' = TRUE /\ Continue(t, AfterCancel(t))
       ELSE UNCHANGED armed /\ Continue(t, "check")
  /\ UNCHANGED <<rowVars, dir, workerVars, api, registered, supVars, bootVars>>

(* Mutant: the process is looked up in the registry after the sleep. *)
EscalateRegistered ==
  /\ armed
  /\ armed' = FALSE
  /\ proc' = IF registered /\ proc = "up" THEN "dead" ELSE proc
  /\ UNCHANGED <<rowVars, diskVars, out, errOut, piped, api, registered, cancelRequested,
                 taskVars, supVars, bootVars>>

(* _escalate after its sleep. *)
Escalate ==
  /\ armed
  /\ armed' = FALSE
  /\ proc' = IF proc = "up" THEN "dead" ELSE proc
  /\ UNCHANGED <<rowVars, diskVars, out, errOut, piped, api, registered, cancelRequested,
                 taskVars, supVars, bootVars>>

(* _finalize_if_not_terminal: the check. *)
FinalizeCheck(t) ==
  /\ pc[t] = "check"
  /\ Continue(t, IF status \in Active THEN "finalize" ELSE AfterCancel(t))
  /\ UNCHANGED <<rowVars, diskVars, workerVars, memVars, supVars, bootVars>>

(* session.delete(run) loads the events it will delete ... *)
DeleteLoad(t) ==
  /\ pc[t] = "delete"
  /\ rd' = [rd EXCEPT ![t] = lastSeq]
  /\ Goto(t, "purge")
  /\ UNCHANGED <<rowVars, diskVars, workerVars, memVars, app, ev, supVars, bootVars>>

(* ... and the commit deletes them and the row. *)
DeletePurge(t) ==
  /\ pc[t] = "purge"
  /\ status' = "absent" /\ activity' = FALSE /\ results' = {}
  /\ events' = {e \in events : e.seq > rd[t]}
  /\ Goto(t, "rmdir") /\ Forget(t) /\ UNCHANGED app
  /\ UNCHANGED <<lastSeq, diskVars, workerVars, memVars, supVars, bootVars>>

DeleteDir(t) ==
  /\ pc[t] = "rmdir"
  /\ dir' = FALSE /\ flag' = FALSE
  /\ Continue(t, "done")
  /\ UNCHANGED <<rowVars, workerVars, memVars, supVars, bootVars>>
-----------------------------------------------------------------------------
(* The worker process *)

(* A worker whose reader is gone fails at its next line. *)
WorkerStep ==
  /\ W!Next
  /\ piped \/ proc' = "dead"
  /\ UNCHANGED <<rowVars, dir, errOut, piped, memVars, taskVars, supVars, bootVars>>

WorkerStderr ==
  /\ proc = "up" /\ errOut < MaxErr
  /\ errOut' = errOut + 1
  /\ UNCHANGED <<rowVars, diskVars, proc, out, piped, memVars, taskVars, supVars, bootVars>>
-----------------------------------------------------------------------------
(* The API process *)

LocalTasks == Tasks \ RemoteCancels

(* Its tasks, its registry and its ends of the pipes disappear with it. *)
ProcessGone ==
  /\ api' = "down" /\ registered' = FALSE /\ cancelRequested' = FALSE /\ armed' = FALSE
  /\ piped' = FALSE
  /\ pc' = [t \in Tasks |-> IF t \in LocalTasks /\ pc[t] # "idle" THEN "lost" ELSE pc[t]]
  /\ app' = [t \in Tasks |-> IF t \in LocalTasks THEN "idle" ELSE app[t]]
  /\ ev' = [t \in Tasks |-> IF t \in LocalTasks THEN NoEvent ELSE ev[t]]
  /\ rd' = [t \in Tasks |-> IF t \in LocalTasks THEN 0 ELSE rd[t]]

(* It is killed, or the host fails it: the worker's own session survives. *)
Crash ==
  /\ api # "down" /\ restarts < MaxRestarts
  /\ restarts' = restarts + 1
  /\ ProcessGone
  /\ UNCHANGED <<rowVars, diskVars, proc, out, errOut, supVars, peerBoots>>

(* shutdown(): registered workers are killed and reaped while the          *)
(* supervisors go on, then every task is cancelled.  The server has let    *)
(* the requests in flight finish before.                                   *)
ShutdownKill ==
  /\ api = "up" /\ restarts < MaxRestarts
  /\ \A t \in {"start"} \cup Cancels \cup Deletes : pc[t] \in {"idle", "done", "raised", "lost"}
  /\ api' = "draining" /\ restarts' = restarts + 1
  /\ proc' = IF registered /\ proc = "up" THEN "dead" ELSE proc
  /\ UNCHANGED <<rowVars, diskVars, out, errOut, piped, registered, cancelRequested, armed,
                 taskVars, supVars, peerBoots>>

ShutdownDrain ==
  /\ api = "draining"
  /\ ProcessGone
  /\ UNCHANGED <<rowVars, diskVars, proc, out, errOut, supVars, bootVars>>

(* Mutant: only running rows are taken for orphans. *)
MarkRunningFailed ==
  /\ status' = IF status = "running" THEN "failed" ELSE status
  /\ UNCHANGED <<lastSeq, events, activity, results>>

(* mark_orphans_failed, at the boot of this process or of another one. *)
MarkOrphansFailed ==
  /\ status' = IF status \in Active THEN "failed" ELSE status
  /\ UNCHANGED <<lastSeq, events, activity, results>>

Boot ==
  /\ api = "down"
  /\ api' = "up"
  /\ MarkOrphansFailed
  /\ UNCHANGED <<diskVars, workerVars, registered, cancelRequested, armed, taskVars,
                 supVars, bootVars>>

PeerBoot ==
  /\ peerBoots < MaxPeerBoots
  /\ peerBoots' = peerBoots + 1
  /\ MarkOrphansFailed
  /\ UNCHANGED <<diskVars, workerVars, memVars, taskVars, supVars, restarts>>
-----------------------------------------------------------------------------
Start ==
  \/ CreateRun \/ Spawn \/ SpawnFails \/ MarkRunning \/ StartSnapshot \/ Launch \/ LaunchFails

Supervise ==
  \/ SupBegin \/ ConsumeLine \/ ConsumeEOF \/ RunTimeout \/ TimeoutLogged \/ SupervisorCrash
  \/ Leave \/ ExitLogged \/ ExitLogRaises

Finalize(t) == FinalizeUpdate(t) \/ FinalizeEvent(t) \/ FinalizeEnd(t)

Drain == DrainLine \/ DrainEnd \/ DrainDropped

Request(t) == RequestRead(t) \/ CancelRun(t) \/ FinalizeCheck(t)

Delete(t) == DeleteLoad(t) \/ DeletePurge(t) \/ DeleteDir(t)

ApiProcess == Crash \/ ShutdownKill \/ ShutdownDrain \/ Boot \/ PeerBoot

Next ==
  \/ \E t \in Tasks : AppendRead(t) \/ AppendCommit(t)
  \/ Start
  \/ Supervise
  \/ \E t \in {"sup"} \cup Requests : Finalize(t)
  \/ Drain
  \/ \E t \in Requests : Request(t)
  \/ \E t \in Deletes : Delete(t)
  \/ Escalate
  \/ WorkerStep
  \/ WorkerStderr
  \/ ApiProcess

Spec == Init /\ [][Next]_vars

(* The event loop runs every ready task, sleeps and timeouts end, the      *)
(* database answers, and a stopped API process is started again (compose   *)
(* file: "restart: unless-stopped").  Nothing is assumed of the worker, of *)
(* users, or of when an API process stops.                                 *)
Fairness ==
  /\ \A t \in Tasks : WF_vars(AppendRead(t)) /\ WF_vars(AppendCommit(t))
  /\ WF_vars(Start /\ ~CreateRun)
  /\ WF_vars(Supervise)
  /\ \A t \in {"sup"} \cup Requests : WF_vars(Finalize(t))
  /\ WF_vars(Drain)
  /\ \A t \in Requests : WF_vars(CancelRun(t) \/ FinalizeCheck(t))
  /\ \A t \in Deletes : WF_vars(Delete(t))
  /\ WF_vars(Escalate)
  /\ WF_vars(Boot)

FairSpec == Spec /\ Fairness
-----------------------------------------------------------------------------
AtRest == {"idle", "done", "raised", "cancelled", "lost"}

Label == AtRest \cup
  {"spawn", "mark", "snapshot", "launch", "begin", "consume", "timedout", "leave", "exitlog",
   "finalize", "final", "end", "drain", "request", "check", "delete", "purge", "rmdir"}

RowType ==
  /\ status \in Status /\ lastSeq \in Nat /\ events \in SUBSET Event
  /\ activity \in BOOLEAN /\ results \in SUBSET Nat

WorkerType ==
  /\ dir \in BOOLEAN /\ flag \in BOOLEAN
  /\ proc \in {"none", "up", "dead"} /\ out \in Seq(W!Line) /\ errOut \in Nat /\ piped \in BOOLEAN

MemType ==
  /\ api \in {"up", "draining", "down"}
  /\ registered \in BOOLEAN /\ cancelRequested \in BOOLEAN /\ armed \in BOOLEAN
  /\ verdict \in Terminal \cup {"none"} /\ nread \in Nat /\ errRead \in Nat
  /\ restarts \in Nat /\ peerBoots \in Nat

TaskType ==
  /\ pc \in [Tasks -> Label]
  /\ app \in [Tasks -> {"idle", "read", "commit", "raised"}]
  /\ ev \in [Tasks -> Event]
  /\ rd \in [Tasks -> Nat]

TypeOK == RowType /\ WorkerType /\ MemType /\ TaskType

(* The inductive invariant behind LogDense: a number read by a pending     *)
(* append is never ahead of the counter, nothing is written before the row *)
(* is created, and a supervisor that finalizes has chosen a final status.  *)
LogInv ==
  /\ LogDense
  /\ \A t \in Tasks : app[t] = "commit" => rd[t] <= lastSeq
  /\ pc["start"] = "idle" => (~RowExists /\ lastSeq = 0 /\ events = {})
  /\ pc["sup"] \in {"exitlog", "finalize"} => verdict \in Terminal

(* A run shown as completed kept every line of its worker: each log,       *)
(* progress and result line is an event, in the order written, and every   *)
(* stored Result row belongs to a result event.  It takes _consume, whose  *)
(* appends may collide with the drainer's, to have read to the end.        *)
CompletedIsWhole ==
  status = "completed" =>
    /\ \A i \in 1..Len(out) : out[i].kind \in W!Kind =>
         \E e \in events : e.line = i /\ e.type = out[i].kind
    /\ \A e, f \in events : (e.line # 0 /\ f.line # 0 /\ e.seq < f.seq) => e.line < f.line
    /\ \A i \in results : \E e \in events : e.line = i /\ e.type = "result"

(* When a supervisor has returned, the row is terminal and shows no        *)
(* activity, whatever cancel requests, peers or drainers did meanwhile.    *)
SupervisedRunIsFinal ==
  (pc["sup"] = "done" /\ RowExists) => (status \in Terminal /\ ~activity)

(* A run that nobody works on any more is terminal, unless start_run or    *)
(* the supervisor itself ended with an exception.                          *)
StuckOnlyIfRaised ==
  (/\ \A t \in Tasks : pc[t] \in AtRest /\ app[t] = "idle"
   /\ api = "up" /\ status \in Active)
  => (pc["start"] = "raised" \/ pc["sup"] = "raised")

(* A live worker can be reached: the registry or an escalation holds it,   *)
(* except after the supervisor was left through "except Exception".        *)
WorkerReachable ==
  (proc = "up" /\ piped /\ ~registered /\ ~armed)
  => (pc["sup"] \in {"exitlog", "finalize", "final", "end", "done", "raised"} /\ verdict = "failed")

(* No request has touched the run, and no process has stopped or booted. *)
Undisturbed ==
  (\A t \in Requests : pc[t] = "idle") /\ restarts = 0 /\ peerBoots = 0

(* docs/API.md: "A run_status event with a terminal status is always the   *)
(* last event."  So it is while the run is left alone, whatever the        *)
(* drainer still has in flight.                                            *)
TerminalEventLast ==
  Undisturbed =>
    \A e, f \in events : (e.type = "run_status" /\ e.st \in Terminal) => f.seq <= e.seq

(* Module comment of jobs.py: the supervisor "persists every event".       *)
EveryLinePersisted ==
  (pc["sup"] = "done" /\ verdict # "timed_out" /\ RowExists) =>
    \A i \in 1..Len(out) : out[i].kind \in W!Kind => \E e \in events : e.line = i

(* A cancel that found the process ends it after the grace period, also    *)
(* when the run is deleted or its supervisor fails meanwhile.              *)
EscalationKills == armed ~> (proc # "up")

(* A supervisor comes to an end, however the worker behaves. *)
SupervisionEnds == (pc["sup"] = "begin") ~> (pc["sup"] \in {"done", "raised"})

(* Left alone, a run whose worker was started reaches a terminal status    *)
(* and announces it, however the worker behaves (docs/API.md: run_status   *)
(* is "sent on state transitions and as final event").                     *)
StartedRunEnds ==
  (pc["start"] = "mark") ~>
    \/ ~Undisturbed
    \/ /\ status \in Terminal
       /\ \E e \in events : e.type = "run_status" /\ e.st = status

(* The persistent record behaves as RunLog promises. *)
ImplementsRunLog == Log!Spec
=============================================================================
