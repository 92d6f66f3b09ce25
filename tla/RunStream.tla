----------------------------- MODULE RunStream ------------------------------
(***************************************************************************)
(* Live streams of one run's event log: the server side (_event_stream of  *)
(* backend/app/api/stream.py and RunNotifier of jobs.py) and the browser   *)
(* side (connectRunStream of frontend/src/lib/stream.ts), with connections *)
(* that drop at any time.                                                  *)
(*                                                                         *)
(* The log itself is written by others; the actions here only read it.     *)
(* RunStreamLog drives them with any writer that RunLog allows,            *)
(* StreamSystem with JobManager.                                           *)
(***************************************************************************)
EXTENDS RunRecord, Sequences, FiniteSets

CONSTANTS
  Clients,    \* browsers with the run's page open
  Limit,      \* _fetch_events: at most this many events per query
  MaxDrops    \* bound: lost connections

ASSUME RunStreamAssumption == Limit \in Nat \ {0} /\ MaxDrops \in Nat

VARIABLES
  phase,    \* server: where the client's _event_stream stands
  cursor,   \* server: its last_seq
  wire,     \* events sent and not yet received
  lastGot,  \* browser: lastSeq
  shown,    \* browser: every event handed to onEvent
  stopped,  \* browser: the terminal run_status was seen
  bell,     \* RunNotifier: "none", "clear" or "set"
  woken,    \* clients whose wait() was resolved by signal()
  owed,     \* an append was committed and has not signalled yet
  drops

streamVars == <<phase, cursor, wire, lastGot, shown, stopped, bell, woken, owed, drops>>

StreamInit ==
  /\ phase = [c \in Clients |-> "closed"]
  /\ cursor = [c \in Clients |-> 0]
  /\ wire = [c \in Clients |-> <<>>]
  /\ lastGot = [c \in Clients |-> 0]
  /\ shown = [c \in Clients |-> <<>>]
  /\ stopped = [c \in Clients |-> FALSE]
  /\ bell = "none" /\ woken = {} /\ owed = FALSE /\ drops = 0
-----------------------------------------------------------------------------
(* Mutant: a page that has received events does not reconnect. *)
ConnectOnce(c) ==
  /\ phase[c] = "closed" /\ ~stopped[c] /\ RowExists /\ lastGot[c] = 0
  /\ phase' = [phase EXCEPT ![c] = "fetch"]
  /\ UNCHANGED <<cursor, wire, lastGot, shown, stopped, bell, woken, owed, drops>>

(* connect(): WebSocket or SSE, from the last event received.  A run that  *)
(* does not exist is refused, which the browser retries later.             *)
Connect(c) ==
  /\ phase[c] = "closed" /\ ~stopped[c] /\ RowExists
  /\ phase' = [phase EXCEPT ![c] = "fetch"]
  /\ cursor' = [cursor EXCEPT ![c] = lastGot[c]]
  /\ UNCHANGED <<wire, lastGot, shown, stopped, bell, woken, owed, drops>>

(* _fetch_events: the events after the cursor, by seq, at most Limit. *)
FetchEvents(after) ==
  LET newer == {e \in events : e.seq > after}
      n     == IF Cardinality(newer) < Limit THEN Cardinality(newer) ELSE Limit
      Nth(i) == CHOOSE e \in newer : Cardinality({f \in newer : f.seq < e.seq}) = i - 1
  IN  [i \in 1..n |-> Nth(i)]

(* Mutant: the cursor stays where it is. *)
YieldAgain(c, batch) ==
  /\ wire' = [wire EXCEPT ![c] = @ \o batch]
  /\ UNCHANGED cursor

(* Yield a batch; the cursor follows the last event yielded. *)
Yield(c, batch) ==
  /\ wire' = [wire EXCEPT ![c] = @ \o batch]
  /\ cursor' = [cursor EXCEPT ![c] = IF batch = <<>> THEN @ ELSE batch[Len(batch)].seq]

Fetch(c) ==
  /\ phase[c] = "fetch"
  /\ LET batch == FetchEvents(cursor[c]) IN
       /\ Yield(c, batch)
       /\ phase' = [phase EXCEPT ![c] = IF batch = <<>> THEN "status" ELSE "fetch"]
  /\ UNCHANGED <<lastGot, shown, stopped, bell, woken, owed, drops>>

(* No event: the run's status decides (_run_status). *)
CheckStatus(c) ==
  /\ phase[c] = "status"
  /\ phase' = [phase EXCEPT ![c] = IF ~RowExists THEN "ended"
                                   ELSE IF status \in Terminal THEN "flush" ELSE "wait"]
  /\ bell' = IF status \in Active /\ bell = "none" THEN "clear" ELSE bell
  /\ UNCHANGED <<cursor, wire, lastGot, shown, stopped, woken, owed, drops>>

(* "Final flush guards against events committed after the check." *)
FinalFlush(c) ==
  /\ phase[c] = "flush"
  /\ Yield(c, FetchEvents(cursor[c]))
  /\ phase' = [phase EXCEPT ![c] = "ended"]
  /\ UNCHANGED <<lastGot, shown, stopped, bell, woken, owed, drops>>

(* RunNotifier.wait returns: signalled, or after POLL_INTERVAL_SECONDS;    *)
(* both clear the event shared by all subscribers.                         *)
Resume(c) ==
  /\ phase[c] = "wait"
  /\ phase' = [phase EXCEPT ![c] = "fetch"]
  /\ bell' = "clear" /\ woken' = woken \ {c}
  /\ UNCHANGED <<cursor, wire, lastGot, shown, stopped, owed, drops>>

Wake(c) == (bell = "set" \/ c \in woken) /\ Resume(c)

(* Mutant: wait() has no timeout. *)
NoPoll(c) == Wake(c)

PollTimeout(c) == Resume(c)

(* A step of the writer: an append it commits is signalled a little later. *)
Written ==
  /\ owed' = (owed \/ lastSeq' # lastSeq)
  /\ UNCHANGED <<phase, cursor, wire, lastGot, shown, stopped, bell, woken, drops>>

(* RunNotifier.signal, after an append has been committed. *)
Signal ==
  /\ owed /\ owed' = FALSE
  /\ bell' = IF bell = "none" THEN "none" ELSE "set"
  /\ woken' = IF bell = "none" THEN woken ELSE woken \cup {c \in Clients : phase[c] = "wait"}
  /\ UNCHANGED <<phase, cursor, wire, lastGot, shown, stopped, drops>>
-----------------------------------------------------------------------------
(* handleMessage: a terminal run_status stops the client for good. *)
IsTerminalEvent(e) == e.type = "run_status" /\ e.st \in Terminal

HangUp(c) ==
  /\ phase' = [phase EXCEPT ![c] = "closed"]
  /\ woken' = woken \ {c}

(* onmessage. *)
Receive(c) ==
  /\ wire[c] # <<>>
  /\ LET e == Head(wire[c]) IN
       /\ lastGot' = [lastGot EXCEPT ![c] = IF e.seq > @ THEN e.seq ELSE @]
       /\ shown' = [shown EXCEPT ![c] = Append(@, e)]
       /\ IF IsTerminalEvent(e)
            THEN /\ stopped' = [stopped EXCEPT ![c] = TRUE]
                 /\ wire' = [wire EXCEPT ![c] = <<>>]
                 /\ HangUp(c)
            ELSE /\ wire' = [wire EXCEPT ![c] = Tail(@)]
                 /\ UNCHANGED <<stopped, phase, woken>>
  /\ UNCHANGED <<cursor, bell, owed, drops>>

(* onclose after the server ended the stream: the browser reconnects. *)
ServerClose(c) ==
  /\ phase[c] = "ended" /\ wire[c] = <<>>
  /\ HangUp(c)
  /\ UNCHANGED <<cursor, wire, lastGot, shown, stopped, bell, owed, drops>>

(* The connection is lost with whatever it carried. *)
Drop(c) ==
  /\ phase[c] # "closed" /\ drops < MaxDrops
  /\ drops' = drops + 1
  /\ wire' = [wire EXCEPT ![c] = <<>>]
  /\ HangUp(c)
  /\ UNCHANGED <<cursor, lastGot, shown, stopped, bell, owed>>

ServerStep(c) ==
  Fetch(c) \/ CheckStatus(c) \/ FinalFlush(c) \/ Wake(c) \/ PollTimeout(c)

ClientStep(c) == Connect(c) \/ Receive(c) \/ ServerClose(c)

StreamNext == Signal \/ \E c \in Clients : ServerStep(c) \/ ClientStep(c) \/ Drop(c)

StreamType ==
  /\ phase \in [Clients -> {"closed", "fetch", "status", "flush", "wait", "ended"}]
  /\ cursor \in [Clients -> 0..lastSeq] /\ lastGot \in [Clients -> 0..lastSeq]
  /\ wire \in [Clients -> Seq(Event)] /\ shown \in [Clients -> Seq(Event)]
  /\ stopped \in [Clients -> BOOLEAN]
  /\ bell \in {"none", "clear", "set"} /\ woken \in SUBSET Clients
  /\ owed \in BOOLEAN /\ drops \in Nat
-----------------------------------------------------------------------------
(* What a browser shows of an existing run is the log from its beginning:  *)
(* no event missing, repeated or out of order, through every reconnect.    *)
ShownIsPrefix ==
  RowExists => \A c \in Clients : \A i \in 1..Len(shown[c]) :
                  shown[c][i].seq = i /\ shown[c][i] \in events
=============================================================================
