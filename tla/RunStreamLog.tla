---------------------------- MODULE RunStreamLog ----------------------------
(***************************************************************************)
(* RunStream over an arbitrary writer that RunLog allows: any events, any  *)
(* status changes, deletion at any time.  What holds here holds for every  *)
(* implementation of RunLog, JobManager among them.                        *)
(***************************************************************************)
EXTENDS RunStream

CONSTANT MaxSeq   \* bound: events of the run
ASSUME MaxSeqAssumption == MaxSeq \in Nat

vars == <<status, lastSeq, events, streamVars>>

Log == INSTANCE RunLog

Init == Log!Init /\ StreamInit

(* The data of other events does not matter to a stream. *)
Payload == {[type |-> "log", st |-> "absent"], [type |-> "run_status", st |-> "failed"]}

WriterAppend ==
  /\ RowExists /\ lastSeq < MaxSeq
  /\ lastSeq' = lastSeq + 1
  /\ \E p \in Payload :
        events' = events \cup {[seq |-> lastSeq + 1, type |-> p.type, st |-> p.st, line |-> 0]}
  /\ UNCHANGED status

WriterStatus ==
  /\ RowExists
  /\ status' \in {"running", "failed"}
  /\ UNCHANGED <<lastSeq, events>>

WriterPurge ==
  /\ RowExists
  /\ status' = "absent" /\ events' = {}
  /\ UNCHANGED lastSeq

Writer == (WriterAppend \/ WriterStatus \/ WriterPurge \/ Log!Create) /\ Written

Reader == StreamNext /\ UNCHANGED <<status, lastSeq, events>>

Next == Writer \/ Reader

(* The server's coroutines and the browser's reconnect timer run; the poll *)
(* interval passes.  Nothing is assumed of the writer or of the network.   *)
Fairness ==
  \A c \in Clients : WF_vars(Reader /\ ServerStep(c)) /\ WF_vars(Reader /\ ClientStep(c))

Spec == Init /\ [][Next]_vars /\ Fairness
-----------------------------------------------------------------------------
TypeOK ==
  /\ status \in Status /\ lastSeq \in 0..MaxSeq /\ events \in SUBSET Event
  /\ StreamType

(* Every event of the log reaches every open page, unless the page stopped *)
(* at a terminal run_status or the run is deleted: lost wakeups and lost   *)
(* connections only delay it (the poll interval and the reconnect).        *)
EveryEventShown ==
  \A c \in Clients, n \in 1..MaxSeq :
    (lastSeq >= n) ~> (Len(shown[c]) >= n \/ stopped[c] \/ ~RowExists)
=============================================================================
