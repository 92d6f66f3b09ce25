---------------------------- MODULE StreamProofs ----------------------------
(***************************************************************************)
(* What a browser shows is a prefix of the log, for any number of pages,   *)
(* any batch limit, any number of events and lost connections, and every   *)
(* writer that RunLog allows.                                              *)
(***************************************************************************)
EXTENDS RunStreamLog, FiniteSetTheorems, FunctionTheorems, TLAPS

(* The log the streams read: dense while the row is there, empty after. *)
LogInv ==
  /\ status \in Status /\ lastSeq \in Nat /\ events \in SUBSET Event
  /\ LogDense
  /\ ~RowExists => events = {}

(* The sequences and cursors of the streams. *)
WireType ==
  /\ phase \in [Clients -> {"closed", "fetch", "status", "flush", "wait", "ended"}]
  /\ cursor \in [Clients -> Nat] /\ lastGot \in [Clients -> Nat]
  /\ wire \in [Clients -> Seq(Event)] /\ shown \in [Clients -> Seq(Event)]

(* A page has received events 1..lastGot, the wire carries the ones that   *)
(* follow, and the cursor of an open stream stands behind the last one     *)
(* sent.  The numbers stay within the log even when the run is deleted.    *)
Received(c) ==
  /\ lastGot[c] = Len(shown[c])
  /\ \A i \in 1..Len(shown[c]) : shown[c][i].seq = i

Sent(c) ==
  /\ \A j \in 1..Len(wire[c]) : wire[c][j].seq = lastGot[c] + j
  /\ lastGot[c] + Len(wire[c]) <= lastSeq
  /\ phase[c] # "closed" => cursor[c] = lastGot[c] + Len(wire[c])
  /\ phase[c] = "closed" => wire[c] = <<>>

Stored(c) ==
  RowExists => /\ \A i \in 1..Len(shown[c]) : shown[c][i] \in events
               /\ \A j \in 1..Len(wire[c]) : wire[c][j] \in events

StreamInv == LogInv /\ WireType /\ \A c \in Clients : Received(c) /\ Sent(c) /\ Stored(c)

(* The rows between two positions of a dense log are as many as there are  *)
(* numbers between them.                                                   *)
LEMMA DenseCount ==
  ASSUME LogInv, RowExists, NEW a \in Nat, NEW b \in Nat, a <= b, b <= lastSeq,
         NEW S, S = {e \in events : e.seq > a /\ e.seq <= b}
  PROVE  IsFiniteSet(S) /\ Cardinality(S) = b - a
<1> DEFINE At(n) == CHOOSE e \in events : e.seq = n
           f == [n \in (a + 1)..b |-> At(n)]
<1>1. \A n \in (a + 1)..b : At(n) \in events /\ At(n).seq = n
  <2> TAKE n \in (a + 1)..b
  <2>1. \E e \in events : e.seq = n
    BY DEF LogInv, LogDense
  <2>2. QED
    BY <2>1
<1>2. \A e \in S : e \in events /\ e.seq \in (a + 1)..b /\ e.seq \in Nat
  BY DEF LogInv, LogDense, Event
<1>3. \A n \in (a + 1)..b : At(n) \in S
  BY <1>1
<1>4. \A e \in S : At(e.seq) = e
  BY <1>1, <1>2 DEF LogInv, LogDense
<1>5. f \in Bijection((a + 1)..b, S)
  <2> HIDE DEF At
  <2>1. f \in [(a + 1)..b -> S]
    BY <1>3
  <2>2. \A m, n \in (a + 1)..b : f[m] = f[n] => m = n
    BY <1>1
  <2>3. \A e \in S : \E n \in (a + 1)..b : f[n] = e
    BY <1>2, <1>4
  <2> HIDE DEF f
  <2>4. QED
    BY <2>1, <2>2, <2>3, Fun_IsBij
<1>6. ExistsBijection((a + 1)..b, S)
  BY <1>5 DEF ExistsBijection
<1>7. IsFiniteSet((a + 1)..b) /\ Cardinality((a + 1)..b) = b - a
  <2>1. a + 1 \in Int /\ b \in Int
    OBVIOUS
  <2>2. /\ IsFiniteSet((a + 1)..b)
        /\ Cardinality((a + 1)..b) = IF a + 1 > b THEN 0 ELSE b - (a + 1) + 1
    BY ONLY <2>1, FS_Interval
  <2>3. QED
    BY <2>2
<1> HIDE DEF f, At
<1>8. QED
  BY <1>6, <1>7, FS_Bijection

(* _fetch_events returns the events that follow the cursor, in order and   *)
(* without a gap, and nothing once the run is deleted.                     *)
LEMMA Fetched ==
  ASSUME LogInv, NEW after \in Nat, after <= lastSeq
  PROVE  /\ FetchEvents(after) \in Seq(Event)
         /\ after + Len(FetchEvents(after)) <= lastSeq
         /\ \A i \in 1..Len(FetchEvents(after)) :
              /\ FetchEvents(after)[i] \in events
              /\ FetchEvents(after)[i].seq = after + i
<1> DEFINE newer == {e \in events : e.seq > after}
           n     == IF Cardinality(newer) < Limit THEN Cardinality(newer) ELSE Limit
           Nth(i) == CHOOSE e \in newer : Cardinality({f \in newer : f.seq < e.seq}) = i - 1
           batch == [i \in 1..n |-> Nth(i)]
<1>0. FetchEvents(after) = batch
  BY DEF FetchEvents
<1>L. Limit \in Nat
  BY RunStreamAssumption
<1>1. CASE ~RowExists
  <2>1. newer = {}
    BY <1>1 DEF LogInv
  <2>2. Cardinality(newer) = 0
    BY <2>1, FS_EmptySet
  <2>3. n = 0
    BY <2>2, <1>L, RunStreamAssumption
  <2> HIDE DEF n, Nth
  <2>4. batch \in Seq(Event) /\ Len(batch) = 0
    BY <2>3
  <2> HIDE DEF batch
  <2>5. QED
    BY <1>0, <2>4 DEF LogInv
<1>2. CASE RowExists
  <2>1. newer = {e \in events : e.seq > after /\ e.seq <= lastSeq}
    BY <1>2 DEF LogInv, LogDense
  <2>2. Cardinality(newer) = lastSeq - after
    BY <1>2, <2>1, DenseCount DEF LogInv
  <2>3. n \in Nat /\ after + n <= lastSeq
    BY <2>2, <1>L DEF LogInv
  <2>4. \A e \in newer : Cardinality({f \in newer : f.seq < e.seq}) = e.seq - after - 1
    <3> TAKE e \in newer
    <3>1. e.seq \in Nat /\ e.seq - 1 \in Nat /\ after <= e.seq - 1 /\ e.seq - 1 <= lastSeq
      BY <1>2 DEF LogInv, LogDense, Event
    <3>2. {f \in newer : f.seq < e.seq} = {f \in events : f.seq > after /\ f.seq <= e.seq - 1}
      BY <3>1 DEF LogInv, Event
    <3> HIDE DEF newer
    <3>3. Cardinality({f \in newer : f.seq < e.seq}) = (e.seq - 1) - after
      BY <1>2, <3>1, <3>2, DenseCount
    <3>4. QED
      BY <3>1, <3>3
  <2>5. \A i \in 1..n : Nth(i) \in events /\ Nth(i).seq = after + i
    <3> TAKE i \in 1..n
    <3>1. PICK e \in events : e.seq = after + i
      BY <1>2, <2>3 DEF LogInv, LogDense
    <3>2. e \in newer
      BY <3>1
    <3>3. \A g \in newer : g.seq \in Nat
      BY DEF LogInv, Event
    <3> HIDE DEF newer
    <3>4. \E g \in newer : Cardinality({f \in newer : f.seq < g.seq}) = i - 1
      BY <2>4, <3>1, <3>2
    <3>5. Nth(i) \in newer /\ Cardinality({f \in newer : f.seq < Nth(i).seq}) = i - 1
      BY <3>4
    <3> HIDE DEF Nth
    <3>6. Nth(i).seq - after - 1 = i - 1
      BY <2>4, <3>5
    <3>7. Nth(i).seq = after + i
      BY <3>3, <3>5, <3>6
    <3>8. Nth(i) \in events
      BY <3>5 DEF newer
    <3>9. QED
      BY <3>7, <3>8
  <2> HIDE DEF n, Nth
  <2>6. batch \in [1..n -> Event]
    BY <2>5 DEF LogInv
  <2>7. batch \in Seq(Event) /\ Len(batch) = n
    BY <2>3, <2>6
  <2>8. \A i \in 1..n : batch[i] = Nth(i)
    OBVIOUS
  <2> HIDE DEF batch
  <2>9. QED
    BY <1>0, <2>3, <2>5, <2>7, <2>8
<1>3. QED
  BY <1>1, <1>2

(* The three parts of the invariant that speak of one page. *)
PageInv(c) == Received(c) /\ Sent(c) /\ Stored(c)

(* A page keeps its part of the invariant while nobody touches its stream. *)
LEMMA PageFrame ==
  ASSUME NEW c \in Clients, PageInv(c),
         phase'[c] = phase[c], cursor'[c] = cursor[c], wire'[c] = wire[c],
         lastGot'[c] = lastGot[c], shown'[c] = shown[c],
         UNCHANGED <<status, lastSeq, events>>
  PROVE  PageInv(c)'
BY DEF PageInv, Received, Sent, Stored, RowExists

(* The frame of a step of page c. *)
LEMMA OtherPages ==
  ASSUME NEW c \in Clients, StreamInv, UNCHANGED <<status, lastSeq, events>>, WireType', PageInv(c)',
         \A d \in Clients \ {c} :
           /\ phase'[d] = phase[d] /\ cursor'[d] = cursor[d] /\ wire'[d] = wire[d]
           /\ lastGot'[d] = lastGot[d] /\ shown'[d] = shown[d]
  PROVE  StreamInv'
<1>1. LogInv'
  BY DEF StreamInv, LogInv, LogDense, RowExists
<1>2. \A d \in Clients : PageInv(d)
  BY DEF StreamInv, PageInv
<1>3. \A d \in Clients : PageInv(d)'
  BY <1>2, PageFrame
<1>4. QED
  BY <1>1, <1>3 DEF StreamInv, PageInv

(* A batch is put on the wire behind the events already there. *)
LEMMA YieldStep ==
  ASSUME NEW c \in Clients, StreamInv, phase[c] # "closed", phase'[c] # "closed",
         phase' = [phase EXCEPT ![c] = phase'[c]],
         phase'[c] \in {"fetch", "status", "ended"},
         Yield(c, FetchEvents(cursor[c])),
         UNCHANGED <<lastGot, shown, status, lastSeq, events>>
  PROVE  StreamInv'
<1> DEFINE batch == FetchEvents(cursor[c])
<1>T. WireType /\ LogInv /\ Received(c) /\ Sent(c) /\ Stored(c)
  BY DEF StreamInv
<1>0. cursor[c] = lastGot[c] + Len(wire[c]) /\ cursor[c] \in Nat /\ cursor[c] <= lastSeq
  BY <1>T DEF Sent, WireType
<1>1. /\ batch \in Seq(Event) /\ cursor[c] + Len(batch) <= lastSeq
      /\ \A i \in 1..Len(batch) : batch[i] \in events /\ batch[i].seq = cursor[c] + i
  BY <1>0, <1>T, Fetched
<1> HIDE DEF batch
<1>2. /\ wire' = [wire EXCEPT ![c] = @ \o batch]
      /\ cursor' = [cursor EXCEPT ![c] = IF batch = <<>> THEN @ ELSE batch[Len(batch)].seq]
  BY DEF Yield, batch
<1>3. wire'[c] = wire[c] \o batch /\ wire'[c] \in Seq(Event)
  BY <1>T, <1>1, <1>2 DEF WireType
<1>4. cursor'[c] = cursor[c] + Len(batch)
  <2>1. CASE batch = <<>>
    BY <2>1, <1>0, <1>T, <1>2 DEF WireType
  <2>2. CASE batch # <<>>
    <3>1. Len(batch) \in 1..Len(batch)
      BY <1>1, <2>2
    <3>2. QED
      BY <3>1, <2>2, <1>1, <1>2, <1>T DEF WireType
  <2>3. QED
    BY <2>1, <2>2
<1>5. WireType'
  <2>1. cursor'[c] \in Nat
    BY <1>0, <1>1, <1>4
  <2>2. QED
    BY <2>1, <1>2, <1>3, <1>T DEF WireType
<1>6. Len(wire'[c]) = Len(wire[c]) + Len(batch)
  BY <1>T, <1>1, <1>3 DEF WireType
<1>7. \A j \in 1..Len(wire'[c]) :
         wire'[c][j] = IF j <= Len(wire[c]) THEN wire[c][j] ELSE batch[j - Len(wire[c])]
  BY <1>T, <1>1, <1>3 DEF WireType
<1>8. \A j \in 1..Len(wire'[c]) : wire'[c][j].seq = lastGot[c] + j
  <2> TAKE j \in 1..Len(wire'[c])
  <2>0. Len(wire[c]) \in Nat /\ lastGot[c] \in Nat /\ Len(batch) \in Nat
    BY <1>T, <1>1 DEF WireType
  <2>1. CASE j <= Len(wire[c])
    BY <2>0, <2>1, <1>T, <1>7 DEF Sent
  <2>2. CASE j > Len(wire[c])
    <3>1. j - Len(wire[c]) \in 1..Len(batch)
      BY <2>0, <2>2, <1>6
    <3>2. batch[j - Len(wire[c])].seq = cursor[c] + (j - Len(wire[c]))
      BY <3>1, <1>1
    <3>3. wire'[c][j] = batch[j - Len(wire[c])]
      BY <2>0, <2>2, <1>7
    <3>4. batch[j - Len(wire[c])].seq = lastGot[c] + j
      BY <2>0, <3>2, <1>0
    <3>5. QED
      BY <3>3, <3>4
  <2>3. QED
    BY <2>0, <2>1, <2>2
<1>9. RowExists => \A j \in 1..Len(wire'[c]) : wire'[c][j] \in events
  <2> SUFFICES ASSUME RowExists, NEW j \in 1..Len(wire'[c]) PROVE wire'[c][j] \in events
    OBVIOUS
  <2>0. Len(wire[c]) \in Nat /\ Len(batch) \in Nat
    BY <1>T, <1>1 DEF WireType
  <2>1. CASE j <= Len(wire[c])
    BY <2>0, <2>1, <1>T, <1>7 DEF Stored
  <2>2. CASE j > Len(wire[c])
    <3>1. j - Len(wire[c]) \in 1..Len(batch)
      BY <2>0, <2>2, <1>6
    <3>2. QED
      BY <2>0, <2>2, <3>1, <1>1, <1>7
  <2>3. QED
    BY <2>0, <2>1, <2>2
<1>10. Received(c)'
  BY <1>T DEF Received
<1>11. Sent(c)'
  <2>0. Len(wire[c]) \in Nat /\ lastGot[c] \in Nat /\ Len(batch) \in Nat
    BY <1>T, <1>1 DEF WireType
  <2>1. lastGot[c] + Len(wire'[c]) <= lastSeq /\ cursor'[c] = lastGot[c] + Len(wire'[c])
    BY <2>0, <1>0, <1>1, <1>4, <1>6
  <2>2. QED
    BY <2>1, <1>8 DEF Sent
<1>12. Stored(c)'
  BY <1>T, <1>9 DEF Stored, RowExists
<1>13. \A d \in Clients \ {c} :
           /\ phase'[d] = phase[d] /\ cursor'[d] = cursor[d] /\ wire'[d] = wire[d]
           /\ lastGot'[d] = lastGot[d] /\ shown'[d] = shown[d]
  BY <1>2, <1>T DEF WireType
<1>14. QED
  BY <1>5, <1>10, <1>11, <1>12, <1>13, OtherPages DEF PageInv

(* A page takes the first event off the wire; a terminal run_status makes  *)
(* it hang up, which discards the rest.                                    *)
LEMMA ReceiveStep ==
  ASSUME NEW c \in Clients, StreamInv, Receive(c), UNCHANGED <<status, lastSeq, events>>
  PROVE  StreamInv'
<1> DEFINE e == Head(wire[c])
<1>T. WireType /\ LogInv /\ Received(c) /\ Sent(c) /\ Stored(c)
  BY DEF StreamInv
<1>0. /\ wire[c] \in Seq(Event) /\ shown[c] \in Seq(Event) /\ lastGot[c] \in Nat
      /\ Len(wire[c]) \in Nat /\ Len(shown[c]) \in Nat /\ lastSeq \in Nat
  BY <1>T DEF WireType, LogInv
<1>1. wire[c] # <<>> /\ Len(wire[c]) > 0 /\ e = wire[c][1] /\ e \in Event
  BY <1>0 DEF Receive
<1>2. e.seq = lastGot[c] + 1 /\ (RowExists => e \in events)
  BY <1>0, <1>1, <1>T DEF Sent, Stored
<1> HIDE DEF e
<1>3. /\ lastGot' = [lastGot EXCEPT ![c] = IF e.seq > @ THEN e.seq ELSE @]
      /\ shown' = [shown EXCEPT ![c] = Append(@, e)]
      /\ cursor' = cursor
  BY DEF Receive, e
<1>4. lastGot'[c] = lastGot[c] + 1 /\ lastGot'[c] \in Nat
  BY <1>0, <1>2, <1>3, <1>T DEF WireType
<1>5. /\ shown'[c] = Append(shown[c], e) /\ shown'[c] \in Seq(Event)
      /\ Len(shown'[c]) = Len(shown[c]) + 1
      /\ \A i \in 1..Len(shown'[c]) :
            shown'[c][i] = IF i <= Len(shown[c]) THEN shown[c][i] ELSE e
  BY <1>0, <1>1, <1>3, <1>T DEF WireType
<1>6. Received(c)'
  <2>1. \A i \in 1..Len(shown'[c]) : shown'[c][i].seq = i
    BY <1>0, <1>2, <1>5, <1>T DEF Received
  <2>2. QED
    BY <2>1, <1>0, <1>4, <1>5, <1>T DEF Received
<1>7. RowExists => \A i \in 1..Len(shown'[c]) : shown'[c][i] \in events
  <2> SUFFICES ASSUME RowExists, NEW i \in 1..Len(shown'[c]) PROVE shown'[c][i] \in events
    OBVIOUS
  <2>1. CASE i <= Len(shown[c])
    BY <2>1, <1>0, <1>5, <1>T DEF Stored
  <2>2. CASE i > Len(shown[c])
    BY <2>2, <1>0, <1>2, <1>5
  <2>3. QED
    BY <2>1, <2>2, <1>0
<1>8. CASE IsTerminalEvent(e)
  <2>1. /\ wire' = [wire EXCEPT ![c] = <<>>]
        /\ phase' = [phase EXCEPT ![c] = "closed"]
    BY <1>8 DEF Receive, HangUp, e
  <2>2. wire'[c] = <<>> /\ phase'[c] = "closed" /\ Len(wire'[c]) = 0
    BY <2>1, <1>T DEF WireType
  <2>3. WireType'
    BY <2>1, <1>3, <1>4, <1>5, <1>T DEF WireType
  <2>4. Sent(c)'
    <3>1. lastGot'[c] + Len(wire'[c]) <= lastSeq
      BY <2>2, <1>0, <1>1, <1>4, <1>T DEF Sent
    <3>2. QED
      BY <3>1, <2>2 DEF Sent
  <2>5. Stored(c)'
    BY <2>2, <1>7 DEF Stored, RowExists
  <2>6. \A d \in Clients \ {c} :
           /\ phase'[d] = phase[d] /\ cursor'[d] = cursor[d] /\ wire'[d] = wire[d]
           /\ lastGot'[d] = lastGot[d] /\ shown'[d] = shown[d]
    BY <2>1, <1>3, <1>T DEF WireType
  <2>7. QED
    BY <2>3, <1>6, <2>4, <2>5, <2>6, OtherPages DEF PageInv
<1>9. CASE ~IsTerminalEvent(e)
  <2>1. wire' = [wire EXCEPT ![c] = Tail(@)] /\ phase' = phase
    BY <1>9 DEF Receive, e
  <2>2. /\ wire'[c] = Tail(wire[c]) /\ wire'[c] \in Seq(Event)
        /\ Len(wire'[c]) = Len(wire[c]) - 1
        /\ \A j \in 1..Len(wire'[c]) : wire'[c][j] = wire[c][j + 1] /\ j + 1 \in 1..Len(wire[c])
    BY <2>1, <1>0, <1>1, <1>T DEF WireType
  <2>3. WireType'
    BY <2>1, <2>2, <1>3, <1>4, <1>5, <1>T DEF WireType
  <2>4. Sent(c)'
    <3>1. \A j \in 1..Len(wire'[c]) : wire'[c][j].seq = lastGot'[c] + j
      <4> TAKE j \in 1..Len(wire'[c])
      <4>1. wire[c][j + 1].seq = lastGot[c] + (j + 1)
        BY <2>2, <1>T DEF Sent
      <4>2. lastGot'[c] + j = lastGot[c] + (j + 1)
        BY <2>2, <1>0, <1>4
      <4>3. wire'[c][j] = wire[c][j + 1]
        BY <2>2
      <4>4. QED
        BY <4>1, <4>2, <4>3
    <3>2. lastGot'[c] + Len(wire'[c]) = lastGot[c] + Len(wire[c])
      BY <2>2, <1>0, <1>4
    <3>3. phase[c] # "closed"
      BY <1>1, <1>T DEF Sent
    <3>4. QED
      BY <3>1, <3>2, <3>3, <2>1, <1>3, <1>T DEF Sent
  <2>5. Stored(c)'
    BY <2>2, <1>7, <1>T DEF Stored, RowExists
  <2>6. \A d \in Clients \ {c} :
           /\ phase'[d] = phase[d] /\ cursor'[d] = cursor[d] /\ wire'[d] = wire[d]
           /\ lastGot'[d] = lastGot[d] /\ shown'[d] = shown[d]
    BY <2>1, <1>3, <1>T DEF WireType
  <2>7. QED
    BY <2>3, <1>6, <2>4, <2>5, <2>6, OtherPages DEF PageInv
<1>10. QED
  BY <1>8, <1>9

(* A stream is cut: what it carried is gone, what the page has stays. *)
LEMMA CutStep ==
  ASSUME NEW c \in Clients, StreamInv, UNCHANGED <<cursor, lastGot, shown, status, lastSeq, events>>,
         phase' = [phase EXCEPT ![c] = "closed"], wire' = [wire EXCEPT ![c] = <<>>]
  PROVE  StreamInv'
<1>T. WireType /\ LogInv /\ Received(c) /\ Sent(c) /\ Stored(c)
  BY DEF StreamInv
<1>1. wire'[c] = <<>> /\ phase'[c] = "closed" /\ Len(wire'[c]) = 0
  BY <1>T DEF WireType
<1>2. WireType'
  BY <1>T DEF WireType
<1>3. Sent(c)'
  <2>1. lastGot[c] \in Nat /\ Len(wire[c]) \in Nat /\ lastSeq \in Nat
    BY <1>T DEF WireType, LogInv
  <2>2. lastGot[c] + Len(wire'[c]) <= lastSeq
    BY <2>1, <1>1, <1>T DEF Sent
  <2>3. QED
    BY <2>2, <1>1 DEF Sent
<1>4. Received(c)' /\ Stored(c)'
  BY <1>1, <1>T DEF Received, Stored, RowExists
<1>5. \A d \in Clients \ {c} :
           /\ phase'[d] = phase[d] /\ cursor'[d] = cursor[d] /\ wire'[d] = wire[d]
           /\ lastGot'[d] = lastGot[d] /\ shown'[d] = shown[d]
  BY <1>T DEF WireType
<1>6. QED
  BY <1>2, <1>3, <1>4, <1>5, OtherPages DEF PageInv

(* A stream moves on without sending anything. *)
LEMMA MoveStep ==
  ASSUME NEW c \in Clients, StreamInv,
         UNCHANGED <<cursor, wire, lastGot, shown, status, lastSeq, events>>,
         phase[c] # "closed",
         NEW p \in {"fetch", "status", "flush", "wait", "ended"},
         phase' = [phase EXCEPT ![c] = p]
  PROVE  StreamInv'
<1>T. WireType /\ LogInv /\ Received(c) /\ Sent(c) /\ Stored(c)
  BY DEF StreamInv
<1>1. phase'[c] = p /\ WireType'
  BY <1>T DEF WireType
<1>2. Received(c)' /\ Stored(c)' /\ Sent(c)'
  BY <1>1, <1>T DEF Received, Stored, Sent, RowExists
<1>3. \A d \in Clients \ {c} : phase'[d] = phase[d]
  BY <1>T DEF WireType
<1>4. QED
  BY <1>1, <1>2, <1>3, OtherPages DEF PageInv

(* Every step of the streams and the pages keeps the invariant. *)
LEMMA ReaderStep ==
  ASSUME StreamInv, StreamNext, UNCHANGED <<status, lastSeq, events>>
  PROVE  StreamInv'
<1>T. WireType
  BY DEF StreamInv
<1>1. CASE Signal
  <2>1. UNCHANGED <<phase, cursor, wire, lastGot, shown>>
    BY <1>1 DEF Signal
  <2>2. QED
    BY <2>1 DEF StreamInv, LogInv, LogDense, RowExists, WireType, Received, Sent, Stored
<1>2. ASSUME NEW c \in Clients, Fetch(c) \/ FinalFlush(c)
      PROVE  StreamInv'
  <2>1. /\ phase[c] # "closed" /\ phase'[c] \in {"fetch", "status", "ended"}
        /\ phase' = [phase EXCEPT ![c] = phase'[c]]
    BY <1>2, <1>T DEF Fetch, FinalFlush, WireType
  <2>2. Yield(c, FetchEvents(cursor[c])) /\ UNCHANGED <<lastGot, shown>>
    BY <1>2 DEF Fetch, FinalFlush
  <2>3. QED
    BY <2>1, <2>2, YieldStep
<1>3. ASSUME NEW c \in Clients, CheckStatus(c)
      PROVE  StreamInv'
  <2>1. PICK p \in {"ended", "flush", "wait"} : phase' = [phase EXCEPT ![c] = p]
    BY <1>3 DEF CheckStatus
  <2>2. phase[c] # "closed" /\ UNCHANGED <<cursor, wire, lastGot, shown>>
    BY <1>3 DEF CheckStatus
  <2>3. QED
    BY <2>1, <2>2, MoveStep
<1>4. ASSUME NEW c \in Clients, Resume(c)
      PROVE  StreamInv'
  BY <1>4, MoveStep DEF Resume
<1>5. ASSUME NEW c \in Clients, Connect(c)
      PROVE  StreamInv'
  <2>0. LogInv /\ Received(c) /\ Sent(c) /\ Stored(c)
    BY DEF StreamInv
  <2>1. /\ phase' = [phase EXCEPT ![c] = "fetch"] /\ phase[c] = "closed"
        /\ cursor' = [cursor EXCEPT ![c] = lastGot[c]]
        /\ UNCHANGED <<wire, lastGot, shown>>
    BY <1>5 DEF Connect
  <2>2. phase'[c] = "fetch" /\ cursor'[c] = lastGot[c] /\ WireType'
    BY <2>1, <1>T DEF WireType
  <2>3. wire[c] = <<>> /\ Len(wire[c]) = 0 /\ lastGot[c] \in Nat
    BY <2>0, <2>1, <1>T DEF Sent, WireType
  <2>4. Received(c)' /\ Stored(c)' /\ Sent(c)'
    BY <2>0, <2>1, <2>2, <2>3 DEF Received, Stored, Sent, RowExists
  <2>5. \A d \in Clients \ {c} : phase'[d] = phase[d] /\ cursor'[d] = cursor[d]
    BY <2>1, <1>T DEF WireType
  <2>6. QED
    BY <2>1, <2>2, <2>4, <2>5, OtherPages DEF PageInv
<1>6. ASSUME NEW c \in Clients, Receive(c)
      PROVE  StreamInv'
  BY <1>6, ReceiveStep
<1>7. ASSUME NEW c \in Clients, ServerClose(c) \/ Drop(c)
      PROVE  StreamInv'
  <2>1. wire' = [wire EXCEPT ![c] = <<>>]
    BY <1>7, <1>T DEF ServerClose, Drop, WireType
  <2>2. phase' = [phase EXCEPT ![c] = "closed"] /\ UNCHANGED <<cursor, lastGot, shown>>
    BY <1>7 DEF ServerClose, Drop, HangUp
  <2>3. QED
    BY <2>1, <2>2, CutStep
<1>8. QED
  BY <1>1, <1>2, <1>3, <1>4, <1>5, <1>6, <1>7
     DEF StreamNext, ServerStep, ClientStep, Wake, PollTimeout

(* Every step of a writer that follows RunLog keeps the invariant: it      *)
(* appends after everything that was sent, and a deleted run is not filled *)
(* again.                                                                  *)
LEMMA WriterStep ==
  ASSUME StreamInv, Writer
  PROVE  StreamInv'
<1>T. LogInv /\ WireType /\ \A c \in Clients : Received(c) /\ Sent(c) /\ Stored(c)
  BY DEF StreamInv
<1>0. UNCHANGED <<phase, cursor, wire, lastGot, shown>>
  BY DEF Writer, Written
<1>1. WireType' /\ \A c \in Clients : Received(c)'
  BY <1>0, <1>T DEF WireType, Received
<1>2. \A c \in Clients : /\ Len(wire[c]) \in Nat /\ lastGot[c] \in Nat /\ Len(shown[c]) \in Nat
                         /\ lastGot[c] = Len(shown[c])
  BY <1>T DEF WireType, Received
<1>3. CASE WriterAppend
  <2>1. PICK p \in Payload :
          events' = events \cup {[seq |-> lastSeq + 1, type |-> p.type, st |-> p.st, line |-> 0]}
    BY <1>3 DEF WriterAppend
  <2> DEFINE new == [seq |-> lastSeq + 1, type |-> p.type, st |-> p.st, line |-> 0]
  <2>2. /\ RowExists /\ status' = status /\ lastSeq' = lastSeq + 1
        /\ events' = events \cup {new}
    BY <1>3, <2>1 DEF WriterAppend
  <2>3. new \in Event /\ new.seq = lastSeq + 1
    BY <1>T DEF LogInv, Event, EventType, Status, Terminal, Payload
  <2> HIDE DEF new
  <2>4. \A e \in events : e.seq \in 1..lastSeq
    BY <1>T, <2>2 DEF LogInv, LogDense
  <2>5. LogInv'
    <3>1. \A n \in 1..lastSeq' : \E e \in events' : e.seq = n
      BY <1>T, <2>2, <2>3 DEF LogInv, LogDense
    <3>2. \A e \in events' : e.seq \in 1..lastSeq'
      BY <1>T, <2>2, <2>3, <2>4 DEF LogInv
    <3>3. \A e, f \in events' : e.seq = f.seq => e = f
      BY <1>T, <2>2, <2>3, <2>4 DEF LogInv, LogDense
    <3>4. QED
      BY <1>T, <2>2, <2>3, <3>1, <3>2, <3>3 DEF LogInv, LogDense, RowExists
  <2>6. \A c \in Clients : Sent(c)'
    BY <1>0, <1>2, <1>T, <2>2 DEF Sent, LogInv
  <2>7. \A c \in Clients : Stored(c)'
    BY <1>0, <1>T, <2>2 DEF Stored
  <2>8. QED
    BY <1>1, <2>5, <2>6, <2>7 DEF StreamInv
<1>4. CASE WriterStatus
  <2>1. RowExists /\ RowExists' /\ status' \in Status /\ UNCHANGED <<lastSeq, events>>
    BY <1>4 DEF WriterStatus, RowExists, Status, Active, Terminal
  <2>2. LogInv' /\ \A c \in Clients : Sent(c)' /\ Stored(c)'
    BY <1>0, <1>T, <2>1 DEF LogInv, LogDense, Sent, Stored
  <2>3. QED
    BY <1>1, <2>2 DEF StreamInv
<1>5. CASE WriterPurge
  <2>1. ~RowExists' /\ status' \in Status /\ lastSeq' = lastSeq /\ events' = {}
    BY <1>5 DEF WriterPurge, RowExists, Status
  <2>2. LogInv' /\ \A c \in Clients : Sent(c)' /\ Stored(c)'
    BY <1>0, <1>T, <2>1 DEF LogInv, LogDense, Sent, Stored
  <2>3. QED
    BY <1>1, <2>2 DEF StreamInv
<1>6. CASE Log!Create
  <2>1. /\ lastSeq = 0 /\ events = {} /\ status' = "queued"
        /\ UNCHANGED <<lastSeq, events>>
    BY <1>6 DEF Log!Create
  <2>2. LogInv'
    BY <2>1 DEF LogInv, LogDense, RowExists, Status, Active
  <2>3. \A c \in Clients : Sent(c)'
    BY <1>0, <1>T, <2>1 DEF Sent
  <2>4. \A c \in Clients : Stored(c)'
    <3> TAKE c \in Clients
    <3>1. Len(shown[c]) = 0 /\ Len(wire[c]) = 0
      BY <1>2, <1>T, <2>1 DEF Sent
    <3>2. QED
      BY <1>0, <3>1 DEF Stored
  <2>5. QED
    BY <1>1, <2>2, <2>3, <2>4 DEF StreamInv
<1>7. QED
  BY <1>3, <1>4, <1>5, <1>6 DEF Writer

(* Each page holds the events up to lastGot, its wire the ones after them, *)
(* and the server's cursor stands behind both, always.                     *)
THEOREM StreamInvariance == Spec => []StreamInv
<1>1. Init => StreamInv
  <2> SUFFICES ASSUME Init PROVE StreamInv
    OBVIOUS
  <2>1. LogInv
    BY DEF Init, Log!Init, LogInv, LogDense, RowExists, Status
  <2>2. WireType
    BY DEF Init, StreamInit, WireType
  <2>3. \A c \in Clients : Received(c) /\ Sent(c) /\ Stored(c)
    BY DEF Init, Log!Init, StreamInit, Received, Sent, Stored
  <2>4. QED
    BY <2>1, <2>2, <2>3 DEF StreamInv
<1>2. StreamInv /\ [Next]_vars => StreamInv'
  <2> SUFFICES ASSUME StreamInv, [Next]_vars PROVE StreamInv'
    OBVIOUS
  <2>1. CASE Writer
    BY <2>1, WriterStep
  <2>2. CASE Reader
    BY <2>2, ReaderStep DEF Reader
  <2>3. CASE UNCHANGED vars
    BY <2>3 DEF vars, streamVars, StreamInv, LogInv, LogDense, RowExists, WireType, Received, Sent,
       Stored
  <2>4. QED
    BY <2>1, <2>2, <2>3 DEF Next
<1>3. QED
  BY <1>1, <1>2, PTL DEF Spec

(* What a browser shows of an existing run is the log from its beginning,  *)
(* through every reconnect, lost message and lost wakeup.                  *)
THEOREM PagesShowPrefix == Spec => []ShownIsPrefix
<1>1. StreamInv => ShownIsPrefix
  BY DEF StreamInv, ShownIsPrefix, Received, Stored
<1>2. QED
  BY <1>1, StreamInvariance, PTL
=============================================================================
