--------------------------- MODULE WorkerProtocol ---------------------------
(***************************************************************************)
(* The worker process as its supervisor sees it: lines of JSON on stdout,  *)
(* at most one of which announces how the run ended, and then an exit.     *)
(* Executor (the worker's own code) is shown to implement it, JobManager   *)
(* uses it as its environment.                                             *)
(*                                                                         *)
(* Source: backend/app/worker/__main__.py.                                 *)
(***************************************************************************)
EXTENDS Naturals, Sequences

CONSTANT MaxBody   \* bound: lines before the one that announces the end

VARIABLES
  proc,   \* "none", "up" or "dead"
  out,    \* every line written to stdout so far
  flag    \* the cancel file exists in the run's directory

Kind == {"log", "progress", "result"}
Body(k) == [kind |-> k, st |-> "none"]
Done(s) == [kind |-> "done", st |-> s]
Fatal   == [kind |-> "fatal", st |-> "failed"]
Line    == [kind : Kind \cup {"done", "fatal"},
            st : {"none", "completed", "failed", "cancelled"}]

(* The line that announces the end has been written. *)
Ended == \E i \in DOMAIN out : out[i].kind \in {"done", "fatal"}

(* Any line of the run itself. *)
EmitBody ==
  /\ proc = "up" /\ ~Ended /\ Len(out) < MaxBody
  /\ \E k \in Kind : out' = Append(out, Body(k))
  /\ UNCHANGED <<proc, flag>>

(* "done": completed, failed by the pre-flight check, or cancelled after   *)
(* the cancel file was seen.                                               *)
EmitDone ==
  /\ proc = "up" /\ ~Ended
  /\ \E s \in {"completed", "failed"} \cup (IF flag THEN {"cancelled"} ELSE {}) :
        out' = Append(out, Done(s))
  /\ UNCHANGED <<proc, flag>>

(* "fatal": the executor raised. *)
EmitFatal ==
  /\ proc = "up" /\ ~Ended
  /\ out' = Append(out, Fatal)
  /\ UNCHANGED <<proc, flag>>

(* "Run complete" is logged after "done". *)
EmitTrailer ==
  /\ proc = "up" /\ out # <<>> /\ out[Len(out)] = Done("completed")
  /\ out' = Append(out, Body("log"))
  /\ UNCHANGED <<proc, flag>>

(* The process ends: after its last line, or at any earlier point.         *)
Exit ==
  /\ proc = "up"
  /\ proc' = "dead"
  /\ UNCHANGED <<out, flag>>

Next == EmitBody \/ EmitDone \/ EmitFatal \/ EmitTrailer \/ Exit

(* The other side: the process is spawned once, the cancel file created    *)
(* and, with the run's directory, removed.                                 *)
Spawned   == proc = "none" /\ proc' = "up" /\ UNCHANGED <<out, flag>>
Requested == flag' = ~flag /\ UNCHANGED <<proc, out>>

Init == proc = "none" /\ out = <<>> /\ flag = FALSE

Spec == Init /\ [][Next \/ Spawned \/ Requested]_<<proc, out, flag>>
=============================================================================
