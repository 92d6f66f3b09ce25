------------------------------ MODULE RunRecord ------------------------------
(***************************************************************************)
(* The persistent record of one test run: its row in the runs table and    *)
(* its rows in the run_events table (backend/app/orm.py).                  *)
(***************************************************************************)
EXTENDS Naturals

VARIABLES
  status,   \* Run.status, or "absent" when the table has no such row
  lastSeq,  \* Run.last_seq
  events    \* the RunEvent rows of the run

Active   == {"queued", "running"}
Terminal == {"completed", "failed", "cancelled", "timed_out"}
Status   == Active \cup Terminal \cup {"absent"}

EventType == {"log", "progress", "result", "run_status"}

(* A RunEvent row.  st is the status inside a run_status payload ("absent"  *)
(* otherwise); line is the number of the worker line it came from, or 0.    *)
Event == [seq : Nat, type : EventType, st : Status, line : Nat]

RowExists == status # "absent"

(* The log of a stored run is dense: its sequence numbers are exactly      *)
(* 1..last_seq, each used once, so a replay of "seq > after_seq" never     *)
(* skips or repeats an event (the unique index on run_id and seq).         *)
LogDense ==
  RowExists =>
    /\ \A n \in 1..lastSeq : \E e \in events : e.seq = n
    /\ \A e \in events : e.seq \in 1..lastSeq
    /\ \A e, f \in events : e.seq = f.seq => e = f
=============================================================================
