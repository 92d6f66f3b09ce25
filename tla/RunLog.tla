------------------------------- MODULE RunLog -------------------------------
(***************************************************************************)
(* What the persistent record of one test run promises, whoever writes it: *)
(* a row with a status and a counter, and an append-only event log whose   *)
(* sequence numbers are 1, 2, 3, ... with no gap.  Replaying the log from  *)
(* any sequence number therefore yields the same events for every reader.  *)
(* JobManager is shown to implement this specification; RunStream is built *)
(* on it and so holds for every writer that implements it.                 *)
(*                                                                         *)
(* Source: the Run and RunEvent tables of backend/app/orm.py.              *)
(***************************************************************************)
EXTENDS RunRecord

logVars == <<status, lastSeq, events>>

Init ==
  /\ status = "absent"
  /\ lastSeq = 0
  /\ events = {}

(* The row is inserted once, before any event. *)
Create ==
  /\ status = "absent" /\ lastSeq = 0 /\ events = {}
  /\ status' = "queued"
  /\ UNCHANGED <<lastSeq, events>>

(* An UPDATE of the status column. *)
SetStatus ==
  /\ RowExists
  /\ status' \in Active \cup Terminal
  /\ UNCHANGED <<lastSeq, events>>

(* One more event, under the next sequence number. *)
AppendEvent ==
  /\ RowExists
  /\ lastSeq' = lastSeq + 1
  /\ \E e \in events' : /\ e \in Event /\ e.seq = lastSeq + 1
                        /\ events' = events \cup {e}
  /\ UNCHANGED status

(* Deleting the run removes the row and (some of) its events. *)
Purge ==
  /\ status' = "absent"
  /\ events' \in SUBSET events
  /\ UNCHANGED lastSeq

Next == Create \/ SetStatus \/ AppendEvent \/ Purge

Spec == Init /\ [][Next]_logVars
=============================================================================
