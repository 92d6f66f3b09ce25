--------------------------- MODULE ExecutorProofs ---------------------------
(***************************************************************************)
(* The worker for any catalog of categories and tests, any configuration   *)
(* and any point of a crash, cancel or kill: what it reports, and that it  *)
(* implements WorkerProtocol.                                              *)
(***************************************************************************)
EXTENDS Executor, FiniteSetTheorems, FunctionTheorems, TLAPS

(* The lines that run() writes. *)
Written ==
  [kind : {"progress", "result", "done", "fatal", "log"},
   st : {"none", "completed", "failed", "cancelled"},
   cat : Categories \cup {"setup", "none"}, test : AllTests \cup {"error", "none"}, n : Nat]

Busy == {"next", "engine", "finish"}
Open == {"init", "preflight", "blocked"} \cup Busy

ExecutorType ==
  /\ proc \in {"none", "up", "dead"} /\ flag \in BOOLEAN
  /\ pc \in Open \cup {"trailer", "exit"}
  /\ categories \in SUBSET Categories
  /\ selectionMap \in [Categories -> {Unrestricted} \cup SUBSET AllTests]
  /\ \A k \in Categories : selectionMap[k] = Unrestricted \/ selectionMap[k] \subseteq Tests[k]
  /\ done \in 0..Len(Enabled)
  /\ emitted \in Seq(Written)

(* The selection in force is that of the category whose tests run, and     *)
(* what the engine is through with has its result if it was selected.      *)
EngineInv ==
  /\ pc \in {"engine", "finish"} => done < Len(Enabled) /\ reported \subseteq Tests[Current]
  /\ pc = "engine" => /\ active = selectionMap[Current]
                      /\ \A t \in reported : ShouldRun(t) => t \in Results(Current)

(* Nothing but what is to be finished is missing. *)
Covered(k) == Selected(k) \subseteq Results(k) \/ "error" \in Results(k)

CoverInv ==
  /\ \A i \in 1..done : Covered(Enabled[i])
  /\ pc = "finish" => Covered(Current)
  /\ (\E i \in DOMAIN emitted : emitted[i].kind = "done" /\ emitted[i].st = "completed") =>
       done = Len(Enabled)

(* The line that ends the run is the last but for the closing log line. *)
EndInv ==
  /\ pc \in Open => \A i \in DOMAIN emitted : emitted[i].kind \notin {"done", "fatal"}
  /\ pc = "trailer" => /\ emitted # <<>>
                       /\ emitted[Len(emitted)].kind = "done"
                       /\ emitted[Len(emitted)].st = "completed"

(* The number of lines: one per test, and three per category. *)
Finished == UNION {Tests[Enabled[i]] : i \in 1..done}

CountInv ==
  /\ pc \in {"init", "preflight"} => Len(emitted) = 0 /\ done = 0
  /\ pc = "blocked" => Len(emitted) = 1
  /\ pc = "next" => Len(emitted) <= Cardinality(Finished) + 3 * done
  /\ pc = "engine" => Len(emitted) <= Cardinality(Finished \cup reported) + 3 * done + 1
  /\ pc = "finish" => Len(emitted) <= Cardinality(Finished \cup reported) + 3 * done + 2

ExecutorInv ==
  ExecutorType /\ EngineInv /\ CoverInv /\ EndInv /\ CountInv /\ SelectionHonoured

(* CATEGORY_ORDER has a category at one position, and finitely many. *)
LEMMA PositionFacts ==
  /\ IsFiniteSet(Categories)
  /\ Cardinality(Categories) <= Len(CategoryOrder) /\ Len(CategoryOrder) \in Nat
  /\ \A k \in Categories : Position(k) \in 1..Len(CategoryOrder) /\ CategoryOrder[Position(k)] = k
<1>1. Len(CategoryOrder) \in Nat /\ DOMAIN CategoryOrder = 1..Len(CategoryOrder)
  BY ExecutorAssumption
<1>2. \A k \in Categories : Position(k) \in 1..Len(CategoryOrder) /\ CategoryOrder[Position(k)] = k
  <2> TAKE k \in Categories
  <2>1. \E i \in DOMAIN CategoryOrder : CategoryOrder[i] = k
    BY DEF Categories
  <2>2. QED
    BY <1>1, <2>1 DEF Position
<1> DEFINE f == [k \in Categories |-> Position(k)]
<1>3. f \in Injection(Categories, 1..Len(CategoryOrder))
  <2>1. f \in [Categories -> 1..Len(CategoryOrder)]
    BY <1>2
  <2>2. \A k, l \in Categories : f[k] = f[l] => k = l
    BY <1>2
  <2> HIDE DEF f
  <2>3. QED
    BY <2>1, <2>2 DEF Injection, IsInjective
<1>4. IsFiniteSet(1..Len(CategoryOrder)) /\ Cardinality(1..Len(CategoryOrder)) = Len(CategoryOrder)
  <2>1. 1 \in Int /\ Len(CategoryOrder) \in Int
    BY <1>1
  <2>2. /\ IsFiniteSet(1..Len(CategoryOrder))
        /\ Cardinality(1..Len(CategoryOrder)) =
             IF 1 > Len(CategoryOrder) THEN 0 ELSE Len(CategoryOrder) - 1 + 1
    BY ONLY <2>1, FS_Interval
  <2>3. QED
    BY <1>1, <2>2
<1> HIDE DEF f
<1>5. IsFiniteSet(Categories) /\ Cardinality(Categories) <= Cardinality(1..Len(CategoryOrder))
  BY <1>3, <1>4, FS_Injection
<1>6. QED
  BY <1>1, <1>2, <1>4, <1>5

(* The list of enabled categories has each of them once. *)
LEMMA EnabledFacts ==
  ASSUME categories \in SUBSET Categories
  PROVE  /\ Enabled \in Seq(categories) /\ Len(Enabled) \in Nat
         /\ Len(Enabled) <= Len(CategoryOrder)
         /\ \A k \in categories : \E n \in 1..Len(Enabled) : Enabled[n] = k
         /\ \A m, n \in 1..Len(Enabled) : Enabled[m] = Enabled[n] => m = n
<1> DEFINE N == Cardinality(categories)
           Rank(k) == Cardinality(Before(k))
           f == [k \in categories |-> Rank(k) + 1]
           En(n) == CHOOSE k \in categories : Rank(k) = n - 1
<1>1. IsFiniteSet(categories) /\ N \in Nat /\ N <= Len(CategoryOrder) /\ Len(CategoryOrder) \in Nat
  <2>1. IsFiniteSet(Categories) /\ Cardinality(Categories) \in Nat
    BY PositionFacts, FS_CardinalityType
  <2>2. IsFiniteSet(categories) /\ N <= Cardinality(Categories)
    BY <2>1, FS_Subset
  <2>3. N \in Nat
    BY <2>2, FS_CardinalityType
  <2>4. QED
    BY <2>1, <2>2, <2>3, PositionFacts
<1>2. \A k \in categories : Position(k) \in Nat
  BY PositionFacts
<1>3. \A k, l \in categories : Position(k) = Position(l) => k = l
  BY PositionFacts
<1>4. \A k \in categories : IsFiniteSet(Before(k)) /\ Rank(k) \in Nat /\ Rank(k) < N
  <2> TAKE k \in categories
  <2>1. Before(k) \in SUBSET categories /\ k \notin Before(k)
    BY <1>2 DEF Before
  <2>2. /\ IsFiniteSet(Before(k)) /\ Rank(k) <= N
        /\ N = Rank(k) => categories = Before(k)
    BY <1>1, <2>1, FS_Subset
  <2>3. Rank(k) \in Nat
    BY <2>2, FS_CardinalityType
  <2> HIDE DEF N, Rank
  <2>4. QED
    BY <1>1, <2>1, <2>2, <2>3
<1>5. ASSUME NEW k \in categories, NEW l \in categories, Position(k) < Position(l)
      PROVE  Rank(k) < Rank(l)
  <2>1. Before(k) \cup {k} \in SUBSET Before(l) /\ k \notin Before(k)
    BY <1>2, <1>5 DEF Before
  <2>2. Cardinality(Before(k) \cup {k}) = Rank(k) + 1
    BY <1>4, <2>1, FS_AddElement
  <2>3. Cardinality(Before(k) \cup {k}) <= Rank(l)
    BY <1>4, <2>1, FS_Subset
  <2>4. QED
    BY <1>4, <2>2, <2>3
<1>6. \A k, l \in categories : Rank(k) = Rank(l) => k = l
  <2> SUFFICES ASSUME NEW k \in categories, NEW l \in categories, Rank(k) = Rank(l)
               PROVE  k = l
    OBVIOUS
  <2>1. ~(Position(k) < Position(l)) /\ ~(Position(l) < Position(k))
    BY <1>4, <1>5
  <2>2. Position(k) = Position(l)
    BY <1>2, <2>1
  <2>3. QED
    BY <1>3, <2>2
<1> HIDE DEF Rank, N
<1>7. f \in Injection(categories, 1..N)
  <2>1. f \in [categories -> 1..N]
    BY <1>1, <1>4
  <2>2. \A k, l \in categories : f[k] = f[l] => k = l
    BY <1>4, <1>6
  <2> HIDE DEF f
  <2>3. QED
    BY <2>1, <2>2 DEF Injection, IsInjective
<1>8. IsFiniteSet(1..N) /\ Cardinality(1..N) = N
  <2>1. 1 \in Int /\ N \in Int
    BY <1>1
  <2>2. IsFiniteSet(1..N) /\ Cardinality(1..N) = IF 1 > N THEN 0 ELSE N - 1 + 1
    BY ONLY <2>1, FS_Interval
  <2>3. QED
    BY <1>1, <2>2
<1>9. f \in Surjection(categories, 1..N)
  <2> HIDE DEF f
  <2>1. Cardinality(categories) = Cardinality(1..N)
    BY <1>8 DEF N
  <2>2. QED
    BY <1>7, <1>8, <2>1, FS_Injection
<1>10. \A n \in 1..N : \E k \in categories : Rank(k) = n - 1
  <2> TAKE n \in 1..N
  <2>1. PICK k \in categories : f[k] = n
    BY <1>9 DEF Surjection
  <2>2. QED
    BY <2>1, <1>4
<1>11. \A n \in 1..N : En(n) \in categories /\ Rank(En(n)) = n - 1
  BY <1>10
<1>12. Enabled = [n \in 1..N |-> En(n)]
  BY DEF Enabled, N, Rank
<1> HIDE DEF En
<1>13. Enabled \in Seq(categories) /\ Len(Enabled) = N /\ \A n \in 1..N : Enabled[n] = En(n)
  BY <1>1, <1>11, <1>12
<1>14. \A k \in categories : \E n \in 1..N : Enabled[n] = k
  <2> TAKE k \in categories
  <2>1. Rank(k) + 1 \in 1..N
    BY <1>1, <1>4
  <2>2. Rank(En(Rank(k) + 1)) = Rank(k) /\ En(Rank(k) + 1) \in categories
    BY <1>4, <1>11, <2>1
  <2>3. En(Rank(k) + 1) = k
    BY <1>6, <2>2
  <2>4. QED
    BY <1>13, <2>1, <2>3
<1>15. \A m, n \in 1..N : Enabled[m] = Enabled[n] => m = n
  BY <1>1, <1>11, <1>13
<1>16. QED
  BY <1>1, <1>13, <1>14, <1>15

(* The category at work is one of the enabled ones. *)
LEMMA CurrentFacts ==
  ASSUME ExecutorType, done < Len(Enabled)
  PROVE  Current \in categories /\ Current \in Categories /\ done + 1 \in 1..Len(Enabled)
<1>1. Enabled \in Seq(categories) /\ Len(Enabled) \in Nat
  BY EnabledFacts DEF ExecutorType
<1>2. done + 1 \in 1..Len(Enabled)
  BY <1>1 DEF ExecutorType
<1>3. QED
  BY <1>1, <1>2 DEF Current, ExecutorType

(* What one more line adds. *)
LEMMA EmitFacts ==
  ASSUME ExecutorType, NEW l \in Written, Emit(l)
  PROVE  /\ emitted' \in Seq(Written) /\ Len(emitted') = Len(emitted) + 1 /\ Len(emitted) \in Nat
         /\ DOMAIN emitted = 1..Len(emitted) /\ DOMAIN emitted' = 1..(Len(emitted) + 1)
         /\ emitted'[Len(emitted) + 1] = l
         /\ \A i \in 1..Len(emitted) : emitted'[i] = emitted[i]
BY DEF ExecutorType, Emit

(* The results of a category after one more line. *)
LEMMA ResultsAfter ==
  ASSUME ExecutorType, NEW l \in Written, Emit(l), NEW k
  PROVE  Results(k)' = Results(k) \cup (IF l.kind = "result" /\ l.cat = k THEN {l.test} ELSE {})
<1> DEFINE n == Len(emitted)
<1>1. /\ n \in Nat /\ DOMAIN emitted = 1..n /\ DOMAIN emitted' = 1..(n + 1)
      /\ emitted'[n + 1] = l /\ \A i \in 1..n : emitted'[i] = emitted[i]
  BY EmitFacts
<1> HIDE DEF n
<1>2. \A x : x \in Results(k) <=> \E i \in 1..n : emitted[i].kind = "result" /\ emitted[i].cat = k
                                                 /\ emitted[i].test = x
  BY <1>1 DEF Results
<1>3. \A x : x \in Results(k)' <=> \E i \in 1..(n + 1) :
                 emitted'[i].kind = "result" /\ emitted'[i].cat = k /\ emitted'[i].test = x
  BY <1>1 DEF Results
<1>4. \A i \in 1..(n + 1) : i \in 1..n \/ i = n + 1
  BY <1>1
<1>5. \A i \in 1..n : i \in 1..(n + 1)
  BY <1>1
<1>6. n + 1 \in 1..(n + 1)
  BY <1>1
<1>7. ASSUME NEW x \in Results(k)'
      PROVE  x \in Results(k) \cup (IF l.kind = "result" /\ l.cat = k THEN {l.test} ELSE {})
  <2>1. PICK i \in 1..(n + 1) :
          emitted'[i].kind = "result" /\ emitted'[i].cat = k /\ emitted'[i].test = x
    BY <1>3, <1>7
  <2>2. CASE i \in 1..n
    BY <1>1, <1>2, <2>1, <2>2
  <2>3. CASE i = n + 1
    BY <1>1, <2>1, <2>3
  <2>4. QED
    BY <1>4, <2>2, <2>3
<1>8. ASSUME NEW x \in Results(k) PROVE x \in Results(k)'
  BY <1>1, <1>2, <1>3, <1>5, <1>8
<1>9. ASSUME l.kind = "result", l.cat = k PROVE l.test \in Results(k)'
  BY <1>1, <1>3, <1>6, <1>9
<1>10. QED
  BY <1>7, <1>8, <1>9

(* The configuration is read once. *)
LEMMA ConfigFrame ==
  ASSUME UNCHANGED cfgVars
  PROVE  /\ UNCHANGED <<categories, selectionMap>> /\ Enabled' = Enabled
         /\ \A k : Selected(k)' = Selected(k)
BY DEF cfgVars, Enabled, Before, Selected

(* Lines are never taken back: what is covered stays covered. *)
LEMMA CoverStays ==
  ASSUME ExecutorType, UNCHANGED cfgVars, NEW l \in Written, Emit(l) \/ UNCHANGED emitted, NEW k
  PROVE  (Results(k) \subseteq Results(k)') /\ (Covered(k) => Covered(k)')
<1>1. Results(k) \subseteq Results(k)'
  <2>1. CASE Emit(l)
    BY <2>1, ResultsAfter
  <2>2. CASE UNCHANGED emitted
    BY <2>2 DEF Results
  <2>3. QED
    BY <2>1, <2>2
<1>2. Selected(k)' = Selected(k)
  BY ConfigFrame
<1>3. QED
  BY <1>1, <1>2 DEF Covered

(* A line is no result, or one of a test that its category selects. *)
Admissible(l) ==
  l.kind = "result" =>
    \/ l.cat \notin Categories
    \/ l.cat \in categories /\ l.test \in Selected(l.cat) \cup {"error"}

(* Such a line keeps the selections honoured. *)
LEMMA HonouredStays ==
  ASSUME ExecutorType, SelectionHonoured, UNCHANGED cfgVars, NEW l \in Written, Admissible(l),
         Emit(l) \/ UNCHANGED emitted
  PROVE  SelectionHonoured'
<1>0. Categories' = Categories /\ categories' = categories /\ \A k : Selected(k)' = Selected(k)
  BY ConfigFrame
<1> SUFFICES ASSUME NEW k \in Categories
             PROVE  Results(k)' \subseteq IF k \in categories THEN Selected(k) \cup {"error"} ELSE {}
  BY <1>0 DEF SelectionHonoured
<1>1. Results(k) \subseteq IF k \in categories THEN Selected(k) \cup {"error"} ELSE {}
  BY DEF SelectionHonoured
<1>2. CASE UNCHANGED emitted
  BY <1>1, <1>2 DEF Results
<1>3. CASE Emit(l)
  BY <1>1, <1>3, ResultsAfter DEF Admissible
<1>4. QED
  BY <1>2, <1>3

(* The line that announces completion comes when all categories are done,  *)
(* and no line that announces an end comes before the last step.           *)
LEMMA EndStays ==
  ASSUME ExecutorType, EndInv, pc \in Open, NEW l \in Written, Emit(l) \/ UNCHANGED emitted,
         pc' \in Open \cup {"exit"}, pc' = "exit" \/ UNCHANGED emitted \/ l.kind \notin {"done", "fatal"}
  PROVE  EndInv'
<1>1. CASE UNCHANGED emitted
  BY <1>1 DEF EndInv, Open, Busy
<1>2. CASE Emit(l)
  <2>1. /\ DOMAIN emitted = 1..Len(emitted) /\ DOMAIN emitted' = 1..(Len(emitted) + 1)
        /\ Len(emitted) \in Nat /\ emitted'[Len(emitted) + 1] = l
        /\ \A i \in 1..Len(emitted) : emitted'[i] = emitted[i]
    BY <1>2, EmitFacts
  <2>2. pc' # "trailer"
    BY DEF Open, Busy
  <2>3. ASSUME pc' \in Open, NEW i \in DOMAIN emitted' PROVE emitted'[i].kind \notin {"done", "fatal"}
    <3>1. i \in 1..Len(emitted) \/ i = Len(emitted) + 1
      BY <2>1
    <3>2. pc' # "exit"
      BY <2>3 DEF Open, Busy
    <3>3. CASE i \in 1..Len(emitted)
      BY <2>1, <3>3 DEF EndInv
    <3>4. CASE i = Len(emitted) + 1
      <4>1. CASE UNCHANGED emitted
        BY <4>1, <2>1
      <4>2. CASE l.kind \notin {"done", "fatal"}
        BY <2>1, <3>4, <4>2
      <4>3. QED
        BY <3>2, <4>1, <4>2
    <3>5. QED
      BY <3>1, <3>3, <3>4
  <2>4. QED
    BY <2>2, <2>3 DEF EndInv
<1>3. QED
  BY <1>1, <1>2

Announced == \E i \in DOMAIN emitted : emitted[i].kind = "done" /\ emitted[i].st = "completed"

(* Completion is announced by its own line only. *)
LEMMA AnnouncedStays ==
  ASSUME ExecutorType, NEW l \in Written, Emit(l) \/ UNCHANGED emitted,
         ~(l.kind = "done" /\ l.st = "completed")
  PROVE  Announced' => Announced
<1>1. CASE UNCHANGED emitted
  BY <1>1 DEF Announced
<1>2. CASE Emit(l)
  <2>1. /\ DOMAIN emitted = 1..Len(emitted) /\ DOMAIN emitted' = 1..(Len(emitted) + 1)
        /\ Len(emitted) \in Nat /\ emitted'[Len(emitted) + 1] = l
        /\ \A i \in 1..Len(emitted) : emitted'[i] = emitted[i]
    BY <1>2, EmitFacts
  <2> SUFFICES ASSUME NEW i \in DOMAIN emitted', emitted'[i].kind = "done", emitted'[i].st = "completed"
               PROVE  Announced
    BY DEF Announced
  <2>2. i \in 1..Len(emitted)
    BY <2>1
  <2>3. QED
    BY <2>1, <2>2 DEF Announced
<1>3. QED
  BY <1>1, <1>2

(* The part of the type that concerns a step of run(). *)
LEMMA TypeStays ==
  ASSUME ExecutorType, UNCHANGED <<flag, cfgVars>>, proc' \in {"none", "up", "dead"},
         pc' \in Open \cup {"trailer", "exit"}, done' \in 0..Len(Enabled),
         NEW l \in Written, Emit(l) \/ UNCHANGED emitted
  PROVE  ExecutorType'
<1>1. emitted' \in Seq(Written)
  BY EmitFacts DEF ExecutorType
<1>2. Enabled' = Enabled /\ UNCHANGED <<categories, selectionMap>>
  BY ConfigFrame
<1>3. QED
  BY <1>1, <1>2 DEF ExecutorType

(* The lines that the actions build. *)
LEMMA LineFacts ==
  ASSUME ExecutorType
  PROVE  /\ done \in Nat
         /\ \A k \in {"progress", "log"} : Line(k) \in Written /\ Line(k).kind = k
         /\ \A k \in Categories \cup {"setup"}, t \in AllTests \cup {"error"} :
              /\ ResultLine(k, t) \in Written /\ ResultLine(k, t).kind = "result"
              /\ ResultLine(k, t).cat = k /\ ResultLine(k, t).test = t
         /\ \A s \in {"completed", "failed", "cancelled"} :
              DoneLine(s) \in Written /\ DoneLine(s).kind = "done" /\ DoneLine(s).st = s
         /\ [Line("fatal") EXCEPT !.st = "failed"] \in Written
         /\ [Line("fatal") EXCEPT !.st = "failed"].kind = "fatal"
         /\ [Line("progress") EXCEPT !.n = done + 1] \in Written
         /\ [Line("progress") EXCEPT !.n = done + 1].kind = "progress"
<1>1. done \in Nat
  BY EnabledFacts DEF ExecutorType
<1>2. \A k \in {"progress", "log"} : Line(k) \in Written /\ Line(k).kind = k
  BY <1>1 DEF Line, Written
<1>3. ASSUME NEW k \in Categories \cup {"setup"}, NEW t \in AllTests \cup {"error"}
      PROVE  /\ ResultLine(k, t) \in Written /\ ResultLine(k, t).kind = "result"
             /\ ResultLine(k, t).cat = k /\ ResultLine(k, t).test = t
  <2>1. ResultLine(k, t) = [kind |-> "result", st |-> "none", cat |-> k, test |-> t, n |-> done]
    <3> DEFINE r == [kind |-> "result", st |-> "none", cat |-> k, test |-> "none", n |-> done]
    <3>1. [Line("result") EXCEPT !.cat = k] = r
      BY DEF Line
    <3>2. ResultLine(k, t) = [[Line("result") EXCEPT !.cat = k] EXCEPT !.test = t]
      BY DEF ResultLine
    <3>3. QED
      BY <3>1, <3>2
  <2>2. QED
    BY <1>1, <2>1 DEF Written
<1>4. ASSUME NEW s \in {"completed", "failed", "cancelled"}
      PROVE  DoneLine(s) \in Written /\ DoneLine(s).kind = "done" /\ DoneLine(s).st = s
  <2>1. DoneLine(s) = [kind |-> "done", st |-> s, cat |-> "none", test |-> "none", n |-> done]
    BY DEF Line, DoneLine
  <2>2. QED
    BY <1>1, <2>1 DEF Written
<1>5. /\ [Line("fatal") EXCEPT !.st = "failed"] \in Written
      /\ [Line("fatal") EXCEPT !.st = "failed"].kind = "fatal"
  BY <1>1 DEF Line, Written
<1>6. /\ [Line("progress") EXCEPT !.n = done + 1] \in Written
      /\ [Line("progress") EXCEPT !.n = done + 1].kind = "progress"
  BY <1>1 DEF Line, Written
<1>7. QED
  BY <1>1, <1>2, <1>3, <1>4, <1>5, <1>6

(* The tests of the categories that are done, and of the one at work. *)
LEMMA FinishedFacts ==
  ASSUME ExecutorType
  PROVE  /\ Finished \in SUBSET AllTests /\ IsFiniteSet(Finished) /\ IsFiniteSet(AllTests)
         /\ Cardinality(Finished) \in Nat /\ Cardinality(AllTests) \in Nat
         /\ Cardinality(Finished) <= Cardinality(AllTests)
         /\ \A R \in SUBSET AllTests :
              /\ IsFiniteSet(Finished \cup R) /\ Cardinality(Finished \cup R) \in Nat
              /\ Cardinality(Finished \cup R) <= Cardinality(AllTests)
<1>1. Enabled \in Seq(categories) /\ Len(Enabled) \in Nat /\ done \in 0..Len(Enabled)
      /\ categories \in SUBSET Categories
  BY EnabledFacts DEF ExecutorType
<1>2. \A i \in 1..done : Enabled[i] \in Categories
  BY <1>1
<1>3. Finished \in SUBSET AllTests
  BY <1>2 DEF Finished, AllTests
<1>4. IsFiniteSet(AllTests)
  BY ExecutorAssumption
<1>5. ASSUME NEW S \in SUBSET AllTests
      PROVE  IsFiniteSet(S) /\ Cardinality(S) \in Nat /\ Cardinality(S) <= Cardinality(AllTests)
  BY <1>4, FS_Subset, FS_CardinalityType
<1>6. Cardinality(AllTests) \in Nat
  BY <1>4, FS_CardinalityType
<1>7. \A R \in SUBSET AllTests : Finished \cup R \in SUBSET AllTests
  BY <1>3
<1>8. QED
  BY <1>3, <1>4, <1>5, <1>6, <1>7

(* Tests of a category are tests. *)
LEMMA CurrentTests ==
  ASSUME ExecutorType, done < Len(Enabled)
  PROVE  Tests[Current] \in SUBSET AllTests /\ Tests[Current] \cap Finished = {}
<1>1. Current \in Categories /\ done + 1 \in 1..Len(Enabled)
  BY CurrentFacts
<1>2. Tests[Current] \in SUBSET AllTests
  BY <1>1 DEF AllTests
<1>3. /\ Enabled \in Seq(categories) /\ categories \in SUBSET Categories /\ Len(Enabled) \in Nat
      /\ \A m, n \in 1..Len(Enabled) : Enabled[m] = Enabled[n] => m = n
  BY EnabledFacts DEF ExecutorType
<1>4. ASSUME NEW i \in 1..done PROVE Tests[Current] \cap Tests[Enabled[i]] = {}
  <2>1. i \in 1..Len(Enabled) /\ i # done + 1
    BY <1>1, <1>3 DEF ExecutorType
  <2>2. Enabled[i] # Current
    BY <1>1, <1>3, <2>1 DEF Current
  <2>3. Enabled[i] \in Categories
    BY <1>3, <2>1
  <2>4. QED
    BY <1>1, <2>2, <2>3, ExecutorAssumption
<1>5. QED
  BY <1>2, <1>4 DEF Finished

(* Start, cancel and kill do not touch what run() keeps. *)
LEMMA OutsideStep ==
  ASSUME ExecutorInv, UNCHANGED <<emitted, pc, cfgVars, done, active, reported>>,
         proc' \in {"none", "up", "dead"}, flag' \in BOOLEAN
  PROVE  ExecutorInv'
<1>1. UNCHANGED <<categories, selectionMap>> /\ Enabled' = Enabled /\ \A k : Selected(k)' = Selected(k)
  BY ConfigFrame
<1>2. /\ Current' = Current /\ Finished' = Finished
      /\ (\A k : Results(k)' = Results(k)) /\ \A t : ShouldRun(t)' = ShouldRun(t)
  BY <1>1 DEF Current, Finished, Results, ShouldRun
<1>3. \A k : Covered(k)' = Covered(k)
  BY <1>1, <1>2 DEF Covered
<1>4. ExecutorType'
  BY <1>1 DEF ExecutorInv, ExecutorType
<1>5. EngineInv'
  BY <1>1, <1>2 DEF ExecutorInv, EngineInv
<1>6. CoverInv'
  BY <1>1, <1>2, <1>3 DEF ExecutorInv, CoverInv
<1>7. EndInv' /\ CountInv'
  BY <1>2 DEF ExecutorInv, EndInv, CountInv
<1>8. SelectionHonoured'
  BY <1>1, <1>2 DEF ExecutorInv, SelectionHonoured
<1>9. QED
  BY <1>4, <1>5, <1>6, <1>7, <1>8 DEF ExecutorInv

(* The categories that are done stay covered while done is the same. *)
LEMMA CoverInvStays ==
  ASSUME ExecutorType, CoverInv, UNCHANGED <<cfgVars, done>>, pc' # "finish",
         NEW l \in Written, Emit(l) \/ UNCHANGED emitted, ~(l.kind = "done" /\ l.st = "completed")
  PROVE  CoverInv'
<1>1. Enabled' = Enabled /\ done' = done
  BY ConfigFrame
<1>2. \A k : Covered(k) => Covered(k)'
  BY CoverStays
<1>3. Announced' => Announced
  BY AnnouncedStays
<1>4. \A i \in 1..done : Covered(Enabled[i])'
  BY <1>1, <1>2 DEF CoverInv
<1>5. \A i \in 1..done' : Covered(Enabled[i])'
  BY <1>1, <1>4
<1>6. Announced' => done' = Len(Enabled')
  BY <1>1, <1>3 DEF CoverInv, Announced
<1>7. QED
  BY <1>5, <1>6 DEF CoverInv, Announced

(* Up to the first category: the manifest and the pre-flight check. *)
LEMMA SetupStep ==
  ASSUME ExecutorInv, Initialize \/ Preflight \/ Blocked
  PROVE  ExecutorInv'
<1>T. ExecutorType /\ CoverInv /\ EndInv /\ CountInv /\ SelectionHonoured
  BY DEF ExecutorInv
<1>1. /\ UNCHANGED <<proc, flag, cfgVars, done, active, reported>>
      /\ pc \in {"init", "preflight", "blocked"}
  BY DEF Initialize, Preflight, Blocked
<1>2. PICK l \in Written :
        /\ Emit(l) \/ UNCHANGED emitted
        /\ Admissible(l) /\ ~(l.kind = "done" /\ l.st = "completed")
        /\ pc' \in {"preflight", "next", "blocked", "exit"}
        /\ pc' = "exit" \/ UNCHANGED emitted \/ l.kind \notin {"done", "fatal"}
        /\ pc' \in {"preflight", "next"} => UNCHANGED emitted /\ pc \in {"init", "preflight"}
        /\ pc' = "blocked" => Emit(l) /\ pc = "preflight"
  <2> DEFINE fatal == [Line("fatal") EXCEPT !.st = "failed"]
             setup == ResultLine("setup", "error")
             failed == DoneLine("failed")
  <2>1. /\ fatal \in Written /\ fatal.kind = "fatal"
        /\ setup \in Written /\ setup.kind = "result" /\ setup.cat = "setup"
        /\ failed \in Written /\ failed.kind = "done" /\ failed.st = "failed"
    BY <1>T, LineFacts
  <2>2. Admissible(fatal) /\ Admissible(setup) /\ Admissible(failed)
    BY <2>1, ExecutorAssumption DEF Admissible
  <2>3. CASE Initialize
    <3>1. /\ pc = "init"
          /\ \/ pc' = "preflight" /\ UNCHANGED emitted
             \/ pc' = "exit" /\ Emit(fatal)
      BY <2>3 DEF Initialize
    <3> HIDE DEF fatal
    <3>2. QED
      BY <2>1, <2>2, <3>1
  <2>4. CASE Preflight
    <3>1. /\ pc = "preflight"
          /\ \/ pc' = "next" /\ UNCHANGED emitted
             \/ pc' = "blocked" /\ Emit(setup)
             \/ pc' = "exit" /\ Emit(fatal)
      BY <2>4 DEF Preflight
    <3> HIDE DEF fatal, setup
    <3>2. QED
      BY <2>1, <2>2, <3>1
  <2>5. CASE Blocked
    <3>1. pc = "blocked" /\ pc' = "exit" /\ Emit(failed)
      BY <2>5 DEF Blocked
    <3> HIDE DEF failed
    <3>2. QED
      BY <2>1, <2>2, <3>1
  <2>6. QED
    BY <2>3, <2>4, <2>5
<1>3. ExecutorType'
  <2>1. proc' \in {"none", "up", "dead"} /\ done' \in 0..Len(Enabled)
        /\ pc' \in Open \cup {"trailer", "exit"}
    BY <1>T, <1>1, <1>2 DEF ExecutorType, Open, Busy
  <2>2. QED
    BY <1>T, <1>1, <1>2, <2>1, TypeStays
<1>4. EngineInv'
  BY <1>2 DEF EngineInv
<1>5. CoverInv'
  BY <1>T, <1>1, <1>2, CoverInvStays
<1>6. EndInv'
  <2>1. pc \in Open /\ pc' \in Open \cup {"exit"}
    BY <1>1, <1>2 DEF Open, Busy
  <2>2. QED
    BY <1>T, <1>2, <2>1, EndStays
<1>7. CountInv'
  <2>1. Cardinality(Finished) \in Nat /\ Finished' = Finished /\ done \in Nat
    <3>1. Enabled' = Enabled
      BY <1>1, ConfigFrame
    <3>2. QED
      BY <1>T, <1>1, <3>1, FinishedFacts, LineFacts DEF Finished
  <2>2. CASE pc' \in {"preflight", "next"}
    <3>1. Len(emitted') = 0 /\ done' = 0
      BY <1>T, <1>1, <1>2, <2>2 DEF CountInv
    <3>2. QED
      BY <2>1, <2>2, <3>1 DEF CountInv
  <2>3. CASE pc' = "blocked"
    <3>1. Len(emitted') = 1
      BY <1>T, <1>2, <2>3, EmitFacts DEF CountInv
    <3>2. QED
      BY <2>3, <3>1 DEF CountInv
  <2>4. CASE pc' = "exit"
    BY <2>4 DEF CountInv
  <2>5. QED
    BY <1>2, <2>2, <2>3, <2>4
<1>8. SelectionHonoured'
  BY <1>T, <1>1, <1>2, HonouredStays
<1>9. QED
  BY <1>3, <1>4, <1>5, <1>6, <1>7, <1>8 DEF ExecutorInv

(* run() ends: cancelled, or past the line that says completed. *)
LEMMA LeaveStep ==
  ASSUME ExecutorInv, Cancelled \/ Trailer
  PROVE  ExecutorInv'
<1>T. ExecutorType /\ CoverInv /\ EndInv /\ CountInv /\ SelectionHonoured
  BY DEF ExecutorInv
<1>1. UNCHANGED <<proc, flag, cfgVars, done, active, reported>> /\ pc' = "exit"
  BY DEF Cancelled, Trailer
<1>2. PICK l \in Written : Emit(l) /\ l.kind # "result" /\ ~(l.kind = "done" /\ l.st = "completed")
  <2>1. CASE Cancelled
    BY <2>1, <1>T, LineFacts DEF Cancelled
  <2>2. CASE Trailer
    BY <2>2, <1>T, LineFacts DEF Trailer
  <2>3. QED
    BY <2>1, <2>2
<1>3. ExecutorType'
  BY <1>T, <1>1, <1>2, TypeStays DEF ExecutorType
<1>4. EngineInv' /\ CountInv' /\ EndInv'
  BY <1>1 DEF EngineInv, CountInv, EndInv, Open, Busy
<1>5. CoverInv'
  BY <1>T, <1>1, <1>2, CoverInvStays
<1>6. SelectionHonoured'
  BY <1>T, <1>1, <1>2, HonouredStays DEF Admissible
<1>7. QED
  BY <1>3, <1>4, <1>5, <1>6 DEF ExecutorInv

(* All categories are done: the run says so. *)
LEMMA CompleteStep ==
  ASSUME ExecutorInv, Complete
  PROVE  ExecutorInv'
<1>T. ExecutorType /\ CoverInv /\ EndInv /\ CountInv /\ SelectionHonoured
  BY DEF ExecutorInv
<1> DEFINE l == DoneLine("completed")
<1>1. /\ UNCHANGED <<proc, flag, cfgVars, done, active, reported>> /\ pc' = "trailer"
      /\ Emit(l) /\ done = Len(Enabled)
  BY DEF Complete
<1>2. l \in Written /\ l.kind = "done" /\ l.st = "completed"
  BY <1>T, LineFacts
<1> HIDE DEF l
<1>3. ExecutorType'
  BY <1>T, <1>1, <1>2, TypeStays DEF ExecutorType
<1>4. EngineInv' /\ CountInv'
  BY <1>1 DEF EngineInv, CountInv
<1>5. EndInv'
  <2>1. Len(emitted') = Len(emitted) + 1 /\ emitted'[Len(emitted')] = l /\ Len(emitted) \in Nat
    BY <1>T, <1>1, <1>2, EmitFacts
  <2>2. emitted' # <<>>
    BY <2>1
  <2>3. QED
    BY <1>1, <1>2, <2>1, <2>2 DEF EndInv, Open, Busy
<1>6. CoverInv'
  <2>1. Enabled' = Enabled /\ done' = done
    BY <1>1, ConfigFrame
  <2>2. \A k : Covered(k) => Covered(k)'
    BY <1>T, <1>1, <1>2, CoverStays
  <2>3. \A i \in 1..done' : Covered(Enabled[i])'
    BY <1>T, <2>1, <2>2 DEF CoverInv
  <2>4. done' = Len(Enabled')
    BY <1>1, <2>1
  <2>5. QED
    BY <1>1, <2>3, <2>4 DEF CoverInv
<1>7. SelectionHonoured'
  BY <1>T, <1>1, <1>2, HonouredStays DEF Admissible
<1>8. QED
  BY <1>3, <1>4, <1>5, <1>6, <1>7 DEF ExecutorInv

(* A category begins with its own selection, whatever came before. *)
LEMMA BeginStep ==
  ASSUME ExecutorInv, BeginCategory
  PROVE  ExecutorInv'
<1>T. ExecutorType /\ CoverInv /\ EndInv /\ CountInv /\ SelectionHonoured
  BY DEF ExecutorInv
<1> DEFINE l == Line("progress")
<1>1. /\ UNCHANGED <<proc, flag, cfgVars, done>> /\ pc = "next" /\ pc' = "engine"
      /\ Emit(l) /\ done < Len(Enabled) /\ active' = selectionMap[Current] /\ reported' = {}
  BY DEF BeginCategory
<1>2. l \in Written /\ l.kind = "progress"
  BY <1>T, LineFacts
<1> HIDE DEF l
<1>3. ExecutorType'
  BY <1>T, <1>1, <1>2, TypeStays DEF ExecutorType, Open, Busy
<1>4. Enabled' = Enabled /\ selectionMap' = selectionMap /\ Current' = Current /\ Finished' = Finished
  BY <1>1, ConfigFrame DEF Current, Finished
<1>5. EngineInv'
  BY <1>1, <1>4 DEF EngineInv
<1>6. CoverInv'
  BY <1>T, <1>1, <1>2, CoverInvStays
<1>7. EndInv'
  BY <1>T, <1>1, <1>2, EndStays DEF Open, Busy
<1>8. CountInv'
  <2>1. Len(emitted') = Len(emitted) + 1 /\ Len(emitted) \in Nat
    BY <1>T, <1>1, <1>2, EmitFacts
  <2>2. Len(emitted) <= Cardinality(Finished) + 3 * done /\ Cardinality(Finished) \in Nat /\ done \in Nat
    BY <1>T, <1>1, FinishedFacts, LineFacts DEF CountInv
  <2>3. Finished' \cup reported' = Finished
    BY <1>1, <1>4
  <2>4. Len(emitted') <= Cardinality(Finished' \cup reported') + 3 * done' + 1
    BY <1>1, <2>1, <2>2, <2>3
  <2>5. QED
    BY <1>1, <2>4 DEF CountInv
<1>9. SelectionHonoured'
  BY <1>T, <1>1, <1>2, HonouredStays DEF Admissible
<1>10. QED
  BY <1>3, <1>5, <1>6, <1>7, <1>8, <1>9 DEF ExecutorInv

(* With the selection of its category in force, should_run admits exactly  *)
(* the selected tests.                                                     *)
LEMMA AdmitsSelected ==
  ASSUME ExecutorInv, pc = "engine", NEW t \in Tests[Current]
  PROVE  ShouldRun(t) <=> t \in Selected(Current)
<1>1. active = selectionMap[Current]
  BY DEF ExecutorInv, EngineInv
<1>2. QED
  BY <1>1 DEF ShouldRun, Selected

(* The engine is through with one more test. *)
LEMMA ResultStep ==
  ASSUME ExecutorInv, NEW t \in AllTests, StreamResult(t)
  PROVE  ExecutorInv'
<1>T. ExecutorType /\ EngineInv /\ CoverInv /\ EndInv /\ CountInv /\ SelectionHonoured
  BY DEF ExecutorInv
<1> DEFINE l == ResultLine(Current, t)
<1>1. /\ UNCHANGED <<proc, flag, pc, cfgVars, done, active>> /\ pc = "engine"
      /\ t \in Tests[Current] /\ t \notin reported /\ reported' = reported \cup {t}
      /\ IF ShouldRun(t) THEN Emit(l) ELSE UNCHANGED emitted
  BY DEF StreamResult
<1>2. done < Len(Enabled) /\ reported \in SUBSET Tests[Current]
  BY <1>T, <1>1 DEF EngineInv
<1>3. Current \in categories /\ Current \in Categories
  BY <1>T, <1>2, CurrentFacts
<1>4. l \in Written /\ l.kind = "result" /\ l.cat = Current /\ l.test = t
  BY <1>T, <1>3, LineFacts
<1> HIDE DEF l
<1>5. Emit(l) \/ UNCHANGED emitted
  BY <1>1
<1>6. ExecutorType'
  BY <1>T, <1>1, <1>4, <1>5, TypeStays DEF ExecutorType
<1>7. /\ Enabled' = Enabled /\ selectionMap' = selectionMap /\ Current' = Current /\ Finished' = Finished
      /\ \A x : ShouldRun(x)' = ShouldRun(x)
  BY <1>1, ConfigFrame DEF Current, Finished, ShouldRun
<1>8. EngineInv'
  <2>1. PICK c : c = Current
    OBVIOUS
  <2>2. Results(c) \subseteq Results(c)'
    BY <1>T, <1>1, <1>4, <1>5, CoverStays
  <2>3. \A x \in reported : ShouldRun(x) => x \in Results(c)
    BY <1>T, <1>1, <2>1 DEF EngineInv
  <2>4. ASSUME Emit(l) PROVE t \in Results(c)'
    <3>1. Results(c)' = Results(c) \cup (IF l.kind = "result" /\ l.cat = c THEN {l.test} ELSE {})
      BY <1>T, <1>4, <2>4, ResultsAfter
    <3>2. QED
      BY <1>4, <2>1, <3>1
  <2>5. \A x \in reported' : ShouldRun(x) => x \in Results(c)'
    BY <1>1, <2>2, <2>3, <2>4
  <2>6. reported' \subseteq Tests[Current']
    BY <1>1, <1>2, <1>7
  <2>7. active' = selectionMap'[Current']
    BY <1>T, <1>1, <1>7 DEF EngineInv
  <2>8. \A x \in reported' : ShouldRun(x)' => x \in Results(Current)'
    BY <1>7, <2>1, <2>5 DEF Results
  <2>9. done' < Len(Enabled')
    BY <1>1, <1>2, <1>7
  <2>10. QED
    BY <1>1, <2>6, <2>7, <2>8, <2>9 DEF EngineInv
<1>9. CoverInv'
  BY <1>T, <1>1, <1>4, <1>5, CoverInvStays
<1>10. EndInv'
  BY <1>T, <1>1, <1>4, <1>5, EndStays DEF Open, Busy
<1>11. CountInv'
  <2>1. Len(emitted') <= Len(emitted) + 1 /\ Len(emitted) \in Nat /\ Len(emitted') \in Nat
    <3>1. CASE Emit(l)
      BY <1>T, <1>4, <3>1, EmitFacts
    <3>2. CASE UNCHANGED emitted
      BY <1>T, <3>2 DEF ExecutorType
    <3>3. QED
      BY <1>5, <3>1, <3>2
  <2>2. reported \in SUBSET AllTests /\ t \notin Finished
    BY <1>T, <1>1, <1>2, CurrentTests
  <2>3. IsFiniteSet(Finished \cup reported) /\ Cardinality(Finished \cup reported) \in Nat
    BY <1>T, <2>2, FinishedFacts
  <2>4. t \notin Finished \cup reported
    BY <1>1, <2>2
  <2>5. Cardinality((Finished \cup reported) \cup {t}) = Cardinality(Finished \cup reported) + 1
    BY <2>3, <2>4, FS_AddElement
  <2>6. (Finished \cup reported) \cup {t} = Finished' \cup reported'
    BY <1>1, <1>7
  <2>7. Len(emitted) <= Cardinality(Finished \cup reported) + 3 * done + 1 /\ done \in Nat
    BY <1>T, <1>1, LineFacts DEF CountInv
  <2>8. Cardinality(Finished' \cup reported') = Cardinality(Finished \cup reported) + 1
    BY <2>5, <2>6
  <2>9. Len(emitted') <= Cardinality(Finished' \cup reported') + 3 * done' + 1
    BY <1>1, <2>1, <2>3, <2>7, <2>8
  <2>10. QED
    BY <1>1, <2>9 DEF CountInv
<1>12. SelectionHonoured'
  <2>1. CASE Emit(l) /\ ShouldRun(t)
    <3>1. Admissible(l)
      BY <1>1, <1>3, <1>4, <2>1, AdmitsSelected DEF Admissible
    <3>2. QED
      BY <1>T, <1>1, <1>4, <2>1, <3>1, HonouredStays
  <2>2. CASE UNCHANGED emitted
    <3>1. Line("log") \in Written /\ Admissible(Line("log"))
      BY <1>T, LineFacts DEF Admissible
    <3>2. QED
      BY <1>T, <1>1, <2>2, <3>1, HonouredStays
  <2>3. QED
    BY <1>1, <2>1, <2>2
<1>13. QED
  BY <1>6, <1>8, <1>9, <1>10, <1>11, <1>12 DEF ExecutorInv

(* The runner returned with every selected test reported, or its crash is  *)
(* reported.                                                               *)
LEMMA RunnerStep ==
  ASSUME ExecutorInv, RunnerEnds
  PROVE  ExecutorInv'
<1>T. ExecutorType /\ EngineInv /\ CoverInv /\ EndInv /\ CountInv /\ SelectionHonoured
  BY DEF ExecutorInv
<1> DEFINE l == ResultLine(Current, "error")
<1>1. /\ UNCHANGED <<proc, flag, cfgVars, done, reported>> /\ pc = "engine" /\ pc' = "finish"
      /\ \/ (\A t \in Tests[Current] : ShouldRun(t) => t \in reported) /\ UNCHANGED emitted
         \/ Emit(l)
  BY DEF RunnerEnds
<1>2. done < Len(Enabled) /\ reported \in SUBSET Tests[Current]
  BY <1>T, <1>1 DEF EngineInv
<1>3. Current \in categories /\ Current \in Categories
  BY <1>T, <1>2, CurrentFacts
<1>4. l \in Written /\ l.kind = "result" /\ l.cat = Current /\ l.test = "error"
  BY <1>T, <1>3, LineFacts
<1> HIDE DEF l
<1>5. Emit(l) \/ UNCHANGED emitted
  BY <1>1
<1>6. ExecutorType'
  BY <1>T, <1>1, <1>4, <1>5, TypeStays DEF ExecutorType, Open, Busy
<1>7. /\ Enabled' = Enabled /\ Current' = Current /\ Finished' = Finished
      /\ \A k : Selected(k)' = Selected(k)
  BY <1>1, ConfigFrame DEF Current, Finished
<1>8. EngineInv'
  BY <1>1, <1>2, <1>7 DEF EngineInv
<1>9. CoverInv'
  <2>1. PICK c : c = Current
    OBVIOUS
  <2>2. \A k : Covered(k) => Covered(k)'
    BY <1>T, <1>1, <1>4, <1>5, CoverStays
  <2>3. Covered(c)'
    <3>1. CASE Emit(l)
      <4>1. Results(c)' = Results(c) \cup (IF l.kind = "result" /\ l.cat = c THEN {l.test} ELSE {})
        BY <1>T, <1>4, <3>1, ResultsAfter
      <4>2. QED
        BY <1>4, <2>1, <4>1 DEF Covered
    <3>2. CASE \A t \in Tests[Current] : ShouldRun(t) => t \in reported
      <4>1. Selected(Current) \subseteq Tests[Current]
        BY <1>T, <1>3 DEF ExecutorType, Selected
      <4>2. ASSUME NEW t \in Selected(Current) PROVE t \in Results(Current)
        <5>1. t \in Tests[Current]
          BY <4>1, <4>2
        <5>2. ShouldRun(t)
          BY <1>1, <4>2, <5>1, AdmitsSelected
        <5>3. t \in reported
          BY <3>2, <5>1, <5>2
        <5>4. QED
          BY <1>T, <1>1, <5>2, <5>3 DEF EngineInv
      <4>3. Covered(c)
        BY <2>1, <4>2 DEF Covered
      <4>4. QED
        BY <2>2, <4>3
    <3>3. QED
      BY <1>1, <3>1, <3>2
  <2>4. Covered(Current)'
    BY <1>7, <2>1, <2>3 DEF Covered, Results, Selected
  <2>5. \A i \in 1..done' : Covered(Enabled[i])'
    BY <1>T, <1>1, <1>7, <2>2 DEF CoverInv
  <2>6. Announced' => done' = Len(Enabled')
    <3>1. Announced' => Announced
      BY <1>T, <1>4, <1>5, AnnouncedStays
    <3>2. QED
      BY <1>T, <1>1, <1>7, <3>1 DEF CoverInv, Announced
  <2>7. QED
    BY <2>4, <2>5, <2>6 DEF CoverInv, Announced
<1>10. EndInv'
  BY <1>T, <1>1, <1>4, <1>5, EndStays DEF Open, Busy
<1>11. CountInv'
  <2>1. Len(emitted') <= Len(emitted) + 1 /\ Len(emitted) \in Nat /\ Len(emitted') \in Nat
    <3>1. CASE Emit(l)
      BY <1>T, <1>4, <3>1, EmitFacts
    <3>2. CASE UNCHANGED emitted
      BY <1>T, <3>2 DEF ExecutorType
    <3>3. QED
      BY <1>5, <3>1, <3>2
  <2>2. reported \in SUBSET AllTests
    BY <1>T, <1>2, CurrentTests
  <2>3. Cardinality(Finished \cup reported) \in Nat
    BY <1>T, <2>2, FinishedFacts
  <2>4. Len(emitted) <= Cardinality(Finished \cup reported) + 3 * done + 1 /\ done \in Nat
    BY <1>T, <1>1, LineFacts DEF CountInv
  <2>5. Len(emitted') <= Cardinality(Finished' \cup reported') + 3 * done' + 2
    BY <1>1, <1>7, <2>1, <2>3, <2>4
  <2>6. QED
    BY <1>1, <2>5 DEF CountInv
<1>12. SelectionHonoured'
  <2>1. Admissible(l)
    BY <1>3, <1>4 DEF Admissible
  <2>2. QED
    BY <1>T, <1>1, <1>4, <1>5, <2>1, HonouredStays
<1>13. QED
  BY <1>6, <1>8, <1>9, <1>10, <1>11, <1>12 DEF ExecutorInv

(* The category at work joins the ones that are done. *)
LEMMA FinishStep ==
  ASSUME ExecutorInv, FinishCategory
  PROVE  ExecutorInv'
<1>T. ExecutorType /\ EngineInv /\ CoverInv /\ EndInv /\ CountInv /\ SelectionHonoured
  BY DEF ExecutorInv
<1> DEFINE l == [Line("progress") EXCEPT !.n = done + 1]
<1>1. /\ UNCHANGED <<proc, flag, cfgVars, reported>> /\ pc = "finish" /\ pc' = "next"
      /\ Emit(l) /\ done' = done + 1
  BY DEF FinishCategory
<1>2. l \in Written /\ l.kind = "progress" /\ done \in Nat
  BY <1>T, LineFacts
<1> HIDE DEF l
<1>3. done < Len(Enabled) /\ reported \in SUBSET Tests[Current]
  BY <1>T, <1>1 DEF EngineInv
<1>4. done + 1 \in 1..Len(Enabled) /\ Len(Enabled) \in Nat
  BY <1>T, <1>3, CurrentFacts, EnabledFacts DEF ExecutorType
<1>5. done' \in 0..Len(Enabled)
  BY <1>1, <1>2, <1>4
<1>6. ExecutorType'
  BY <1>T, <1>1, <1>2, <1>5, TypeStays DEF ExecutorType, Open, Busy
<1>7. Enabled' = Enabled
  BY <1>1, ConfigFrame
<1>8. EngineInv'
  BY <1>1 DEF EngineInv
<1>9. CoverInv'
  <2>1. \A k : Covered(k) => Covered(k)'
    BY <1>T, <1>1, <1>2, CoverStays
  <2>2. ASSUME NEW i \in 1..(done + 1) PROVE Covered(Enabled[i])
    <3>1. CASE i \in 1..done
      BY <1>T, <3>1 DEF CoverInv
    <3>2. CASE i = done + 1
      BY <1>T, <1>1, <3>2 DEF CoverInv, Current
    <3>3. QED
      BY <1>2, <3>1, <3>2
  <2>3. \A i \in 1..done' : Covered(Enabled[i])'
    BY <1>1, <1>7, <2>1, <2>2
  <2>4. ~Announced'
    <3>1. ~Announced
      BY <1>T, <1>1 DEF EndInv, Announced, Open, Busy
    <3>2. QED
      BY <1>T, <1>1, <1>2, <3>1, AnnouncedStays
  <2>5. QED
    BY <1>1, <2>3, <2>4 DEF CoverInv, Announced
<1>10. EndInv'
  BY <1>T, <1>1, <1>2, EndStays DEF Open, Busy
<1>11. CountInv'
  <2>1. Len(emitted') = Len(emitted) + 1 /\ Len(emitted) \in Nat
    BY <1>T, <1>1, <1>2, EmitFacts
  <2>2. Finished' = Finished \cup Tests[Current]
    <3>1. Finished' = UNION {Tests[Enabled[i]] : i \in 1..(done + 1)}
      BY <1>1, <1>7 DEF Finished
    <3>2. 1..(done + 1) = 1..done \cup {done + 1}
      BY <1>2
    <3>3. QED
      BY <3>1, <3>2 DEF Finished, Current
  <2>3. /\ Finished \cup reported \in SUBSET Finished'
        /\ Finished' \in SUBSET AllTests /\ reported \in SUBSET AllTests
    BY <1>T, <1>3, <2>2, CurrentTests, FinishedFacts
  <2>4. IsFiniteSet(Finished') /\ Cardinality(Finished') \in Nat
    BY <1>6, FinishedFacts, <1>T, <2>3, FS_Subset, FS_CardinalityType
  <2>5. Cardinality(Finished \cup reported) <= Cardinality(Finished')
    BY <2>3, <2>4, FS_Subset
  <2>6. Cardinality(Finished \cup reported) \in Nat
    BY <1>T, <2>3, FinishedFacts
  <2>7. Len(emitted) <= Cardinality(Finished \cup reported) + 3 * done + 2
    BY <1>T, <1>1 DEF CountInv
  <2>8. Len(emitted') <= Cardinality(Finished') + 3 * done'
    BY <1>1, <1>2, <2>1, <2>4, <2>5, <2>6, <2>7
  <2>9. QED
    BY <1>1, <2>8 DEF CountInv
<1>12. SelectionHonoured'
  BY <1>T, <1>1, <1>2, HonouredStays DEF Admissible
<1>13. QED
  BY <1>6, <1>8, <1>9, <1>10, <1>11, <1>12 DEF ExecutorInv

(* Nothing has been written at first. *)
LEMMA ExecutorInit == Init => ExecutorInv
<1> SUFFICES ASSUME Init PROVE ExecutorInv
  OBVIOUS
<1>1. categories \in SUBSET Categories /\ Len(Enabled) \in Nat
  BY EnabledFacts DEF Init
<1>2. emitted = <<>> /\ done = 0 /\ pc = "init" /\ DOMAIN emitted = {} /\ Len(emitted) = 0
  BY DEF Init
<1>3. ExecutorType
  <2>1. done \in 0..Len(Enabled) /\ emitted \in Seq(Written) /\ pc \in Open
    BY <1>1, <1>2 DEF Open
  <2>2. proc \in {"none", "up", "dead"} /\ flag \in BOOLEAN
    BY DEF Init
  <2>3. QED
    BY <2>1, <2>2 DEF Init, ExecutorType
<1>4. EngineInv /\ EndInv /\ CountInv
  BY <1>2 DEF EngineInv, EndInv, CountInv, Open, Busy
<1>5. CoverInv
  BY <1>2 DEF CoverInv
<1>6. SelectionHonoured
  BY <1>2 DEF SelectionHonoured, Results
<1>7. QED
  BY <1>3, <1>4, <1>5, <1>6 DEF ExecutorInv

(* Every step keeps it. *)
LEMMA ExecutorStep == ExecutorInv /\ [Next]_vars => ExecutorInv'
<1> SUFFICES ASSUME ExecutorInv, [Next]_vars PROVE ExecutorInv'
  OBVIOUS
<1>1. flag \in BOOLEAN /\ proc \in {"none", "up", "dead"}
  BY DEF ExecutorInv, ExecutorType
<1>2. CASE Start
  BY <1>1, <1>2, OutsideStep DEF Start
<1>3. CASE RequestCancel
  BY <1>1, <1>3, OutsideStep DEF RequestCancel
<1>4. CASE Exit
  BY <1>1, <1>4, OutsideStep DEF Exit
<1>5. CASE UNCHANGED vars
  BY <1>1, <1>5, OutsideStep DEF vars
<1>6. CASE Work
  BY <1>6, SetupStep, LeaveStep, BeginStep, ResultStep, RunnerStep, FinishStep, CompleteStep DEF Work
<1>7. QED
  BY <1>2, <1>3, <1>4, <1>5, <1>6 DEF Next

(* The inductive invariant of the worker: what is written matches what the *)
(* engine is through with and the selection in force, category by category *)
(* and line by line.                                                       *)
THEOREM ExecutorInvariance == Spec => []ExecutorInv
<1>1. QED
  BY ExecutorInit, ExecutorStep, PTL DEF Spec

(* A completed run accounts for every selected test of every category that *)
(* was switched on (RunExecutor.run), or has the category's ERROR result.  *)
THEOREM CompletedAccountsForAll == Spec => []CompletedAccounts
<1>1. ExecutorInv => CompletedAccounts
  <2> SUFFICES ASSUME ExecutorInv, Completed, NEW k \in categories PROVE Covered(k)
    BY DEF CompletedAccounts, Covered
  <2>1. ExecutorType /\ CoverInv
    BY DEF ExecutorInv
  <2>2. DoneLine("completed").kind = "done" /\ DoneLine("completed").st = "completed"
    BY <2>1, LineFacts
  <2>3. done = Len(Enabled)
    BY <2>1, <2>2 DEF Completed, CoverInv
  <2>4. PICK n \in 1..Len(Enabled) : Enabled[n] = k
    BY <2>1, EnabledFacts DEF ExecutorType
  <2>5. QED
    BY <2>1, <2>3, <2>4 DEF CoverInv
<1>2. QED
  BY <1>1, ExecutorInvariance, PTL

(* Whatever category ran before, no result of an unselected test and none  *)
(* of a category that is off is written (selection.should_run and the      *)
(* backstop of _stream_result).                                            *)
THEOREM SelectionsAreHonoured == Spec => []SelectionHonoured
<1>1. ExecutorInv => SelectionHonoured
  BY DEF ExecutorInv
<1>2. QED
  BY <1>1, ExecutorInvariance, PTL

(* The line as the supervisor reads it, and the room left for more. *)
Seen == [i \in DOMAIN emitted |-> [kind |-> emitted[i].kind, st |-> emitted[i].st]]
Room == Cardinality(AllTests) + 3 * Len(CategoryOrder) + 1

(* One more line written is one more line read. *)
LEMMA SeenAppends ==
  ASSUME ExecutorType, NEW l \in Written, Emit(l)
  PROVE  Seen' = Append(Seen, [kind |-> l.kind, st |-> l.st])
<1> DEFINE n == Len(emitted)
           r(i) == [kind |-> emitted[i].kind, st |-> emitted[i].st]
           S == [kind : {"progress", "result", "done", "fatal", "log"},
                 st : {"none", "completed", "failed", "cancelled"}]
           last == [kind |-> l.kind, st |-> l.st]
<1>1. /\ n \in Nat /\ DOMAIN emitted = 1..n /\ DOMAIN emitted' = 1..(n + 1)
      /\ emitted'[n + 1] = l /\ \A i \in 1..n : emitted'[i] = emitted[i]
  BY EmitFacts
<1> HIDE DEF n
<1>2. Seen = [i \in 1..n |-> r(i)]
  BY <1>1 DEF Seen
<1>3. Seen' = [i \in 1..(n + 1) |-> [kind |-> emitted'[i].kind, st |-> emitted'[i].st]]
  BY <1>1 DEF Seen
<1>4. \A i \in 1..n : r(i) \in S
  <2> TAKE i \in 1..n
  <2>1. emitted[i] \in Written
    BY <1>1 DEF ExecutorType
  <2>2. QED
    BY <2>1 DEF Written
<1>5. last \in S
  BY DEF Written
<1>6. \A i \in 1..n : [kind |-> emitted'[i].kind, st |-> emitted'[i].st] = r(i)
  BY <1>1
<1>7. [kind |-> emitted'[n + 1].kind, st |-> emitted'[n + 1].st] = last
  BY <1>1
<1> HIDE DEF r, S, last
<1>8. Seen \in Seq(S) /\ Len(Seen) = n
  BY <1>1, <1>2, <1>4
<1>9. Append(Seen, last) = [i \in 1..(n + 1) |-> IF i = n + 1 THEN last ELSE r(i)]
  BY <1>1, <1>2, <1>5, <1>8
<1>10. \A i \in 1..(n + 1) : i \in 1..n \/ i = n + 1
  BY <1>1
<1>11. \A i \in 1..(n + 1) :
         [kind |-> emitted'[i].kind, st |-> emitted'[i].st] = IF i = n + 1 THEN last ELSE r(i)
  BY <1>1, <1>6, <1>7, <1>10
<1>12. QED
  BY <1>3, <1>9, <1>11 DEF last

(* While run() has not ended there is no line that says so, and room for   *)
(* one more.                                                               *)
LEMMA SeenFacts ==
  ASSUME ExecutorInv
  PROVE  /\ DOMAIN Seen = 1..Len(emitted) /\ Len(Seen) = Len(emitted) /\ Len(emitted) \in Nat
         /\ \A i \in DOMAIN Seen : Seen[i] = [kind |-> emitted[i].kind, st |-> emitted[i].st]
         /\ pc \in Open => \A i \in DOMAIN Seen : Seen[i].kind \notin {"done", "fatal"}
         /\ pc \in Open => Len(Seen) < Room \/ pc = "blocked"
<1>T. ExecutorType /\ EngineInv /\ EndInv /\ CountInv
  BY DEF ExecutorInv
<1>1. /\ DOMAIN Seen = 1..Len(emitted) /\ Len(Seen) = Len(emitted) /\ Len(emitted) \in Nat
      /\ DOMAIN emitted = 1..Len(emitted)
      /\ \A i \in DOMAIN Seen : Seen[i] = [kind |-> emitted[i].kind, st |-> emitted[i].st]
  <2>1. Len(emitted) \in Nat /\ DOMAIN emitted = 1..Len(emitted)
    BY <1>T DEF ExecutorType
  <2>2. Seen = [i \in 1..Len(emitted) |-> [kind |-> emitted[i].kind, st |-> emitted[i].st]]
    BY <2>1 DEF Seen
  <2>3. QED
    BY <2>1, <2>2
<1>2. pc \in Open => \A i \in DOMAIN Seen : Seen[i].kind \notin {"done", "fatal"}
  BY <1>T, <1>1 DEF EndInv
<1>3. ASSUME pc \in Open PROVE Len(emitted) < Room \/ pc = "blocked"
  <2>1. /\ done \in Nat /\ done <= Len(Enabled) /\ Len(Enabled) <= Len(CategoryOrder)
        /\ Len(Enabled) \in Nat /\ Len(CategoryOrder) \in Nat
    BY <1>T, EnabledFacts, PositionFacts DEF ExecutorType
  <2>2. /\ Cardinality(Finished) \in Nat /\ Cardinality(AllTests) \in Nat
        /\ Cardinality(Finished) <= Cardinality(AllTests)
    BY <1>T, FinishedFacts
  <2>3. CASE pc \in {"init", "preflight"}
    BY <1>1, <1>T, <2>1, <2>2, <2>3 DEF CountInv, Room
  <2>4. CASE pc = "next"
    BY <1>1, <1>T, <2>1, <2>2, <2>4 DEF CountInv, Room
  <2>5. CASE pc \in {"engine", "finish"}
    <3>1. done < Len(Enabled) /\ reported \in SUBSET AllTests
      BY <1>T, <2>5, CurrentTests DEF EngineInv
    <3>2. /\ Cardinality(Finished \cup reported) \in Nat
          /\ Cardinality(Finished \cup reported) <= Cardinality(AllTests)
      BY <1>T, <3>1, FinishedFacts
    <3>3. Len(emitted) <= Cardinality(Finished \cup reported) + 3 * done + 2
      BY <1>1, <1>T, <2>1, <2>5, <3>2 DEF CountInv
    <3>4. QED
      BY <1>1, <2>1, <2>2, <3>1, <3>2, <3>3 DEF Room
  <2>6. QED
    BY <1>3, <2>3, <2>4, <2>5 DEF Open, Busy
<1>4. QED
  BY <1>1, <1>2, <1>3

(* What a step of run() means to the supervisor. *)
LEMMA ProtocolStep ==
  ASSUME ExecutorInv, [Next]_vars
  PROVE  [Protocol!Next \/ Protocol!Spawned \/ Protocol!Requested]_<<proc, Seen, flag>>
<1>T. ExecutorType
  BY DEF ExecutorInv
<1> DEFINE fatal == [Line("fatal") EXCEPT !.st = "failed"]
           over == [Line("progress") EXCEPT !.n = done + 1]
<1>S. Seen = [i \in DOMAIN emitted |-> [kind |-> emitted[i].kind, st |-> emitted[i].st]]
  BY DEF Seen
<1>1. ASSUME UNCHANGED <<proc, flag, emitted>> PROVE UNCHANGED <<proc, Seen, flag>>
  BY <1>1 DEF Seen
<1>2. ASSUME proc = "up", UNCHANGED <<proc, flag>>, pc \in Open, pc # "blocked", NEW l \in Written,
             Emit(l), l.kind \in {"progress", "result", "log"}, l.st = "none"
      PROVE  Protocol!EmitBody
  <2>1. Seen' = Append(Seen, [kind |-> l.kind, st |-> l.st])
    BY <1>T, <1>2, SeenAppends
  <2>2. (\A i \in DOMAIN Seen : Seen[i].kind \notin {"done", "fatal"}) /\ Len(Seen) < Room
    BY <1>2, SeenFacts
  <2>3. QED
    BY <1>2, <2>1, <2>2 DEF Protocol!EmitBody, Protocol!Ended, Protocol!Kind, Protocol!Body, Seen, Room
<1>3. ASSUME proc = "up", UNCHANGED <<proc, flag>>, pc \in Open, NEW l \in Written, Emit(l),
             l.kind = "done", l.st \in {"completed", "failed"} \/ (l.st = "cancelled" /\ flag)
      PROVE  Protocol!EmitDone
  <2>1. Seen' = Append(Seen, [kind |-> l.kind, st |-> l.st])
    BY <1>T, <1>3, SeenAppends
  <2>2. \A i \in DOMAIN Seen : Seen[i].kind \notin {"done", "fatal"}
    BY <1>3, SeenFacts
  <2>3. QED
    BY <1>3, <2>1, <2>2 DEF Protocol!EmitDone, Protocol!Ended, Protocol!Done, Seen
<1>4. ASSUME proc = "up", UNCHANGED <<proc, flag>>, pc \in Open, Emit(fatal)
      PROVE  Protocol!EmitFatal
  <2>1. fatal \in Written /\ fatal.kind = "fatal" /\ fatal.st = "failed"
    BY <1>T, LineFacts DEF Line
  <2> HIDE DEF fatal
  <2>2. Seen' = Append(Seen, [kind |-> "fatal", st |-> "failed"])
    BY <1>T, <1>4, <2>1, SeenAppends
  <2>3. \A i \in DOMAIN Seen : Seen[i].kind \notin {"done", "fatal"}
    BY <1>4, SeenFacts
  <2>4. QED
    BY <1>4, <2>2, <2>3 DEF Protocol!EmitFatal, Protocol!Ended, Protocol!Fatal, Seen
<1>5. CASE Start
  BY <1>5 DEF Start, Protocol!Spawned, Seen
<1>6. CASE RequestCancel
  BY <1>6 DEF RequestCancel, Protocol!Requested, Seen
<1>7. CASE Exit
  BY <1>7 DEF Exit, Protocol!Exit, Protocol!Next, Seen
<1>8. CASE UNCHANGED vars
  BY <1>1, <1>8 DEF vars
<1>F. /\ over \in Written /\ over.kind = "progress" /\ over.st = "none"
      /\ Line("progress") \in Written /\ Line("progress").kind = "progress"
      /\ Line("progress").st = "none" /\ Line("log").st = "none"
      /\ \A k, t : ResultLine(k, t).st = "none"
  <2>1. over \in Written /\ over.kind = "progress" /\ Line("progress") \in Written
    BY <1>T, LineFacts
  <2>2. over.st = "none" /\ Line("progress").st = "none" /\ Line("log").st = "none"
        /\ Line("progress").kind = "progress"
    BY DEF Line
  <2>3. ASSUME NEW k, NEW t PROVE ResultLine(k, t).st = "none"
    BY DEF Line, ResultLine
  <2>4. QED
    BY <2>1, <2>2, <2>3
<1>9. CASE Initialize
  <2>1. /\ proc = "up" /\ UNCHANGED <<proc, flag>> /\ pc \in Open
        /\ UNCHANGED emitted \/ Emit(fatal)
    BY <1>9 DEF Initialize, Open
  <2>2. QED
    BY <1>1, <1>4, <2>1 DEF Protocol!Next
<1>10. CASE Preflight
  <2>1. /\ proc = "up" /\ UNCHANGED <<proc, flag>> /\ pc \in Open /\ pc # "blocked"
        /\ UNCHANGED emitted \/ Emit(ResultLine("setup", "error")) \/ Emit(fatal)
    BY <1>10 DEF Preflight, Open
  <2>2. ResultLine("setup", "error") \in Written /\ ResultLine("setup", "error").kind = "result"
    BY <1>T, LineFacts
  <2>3. QED
    BY <1>1, <1>2, <1>4, <1>F, <2>1, <2>2 DEF Protocol!Next
<1>11. CASE Blocked \/ Cancelled \/ Complete
  <2>1. PICK s \in {"completed", "failed", "cancelled"} :
          /\ proc = "up" /\ UNCHANGED <<proc, flag>> /\ pc \in Open /\ Emit(DoneLine(s))
          /\ s = "cancelled" => flag
    BY <1>11 DEF Blocked, Cancelled, Complete, Open, Busy
  <2>2. DoneLine(s) \in Written /\ DoneLine(s).kind = "done" /\ DoneLine(s).st = s
    BY <1>T, LineFacts
  <2>3. \/ DoneLine(s).st \in {"completed", "failed"}
        \/ DoneLine(s).st = "cancelled" /\ flag
    BY <2>1, <2>2
  <2>4. PICK l \in Written : Emit(l) /\ l.kind = "done"
                            /\ (l.st \in {"completed", "failed"} \/ (l.st = "cancelled" /\ flag))
    BY <2>1, <2>2, <2>3
  <2>5. Protocol!EmitDone
    <3>1. proc = "up" /\ UNCHANGED <<proc, flag>> /\ pc \in Open
      BY <2>1
    <3>2. QED
      BY ONLY <1>3, <2>4, <3>1, Zenon
  <2>6. QED
    BY <2>5 DEF Protocol!Next
<1>12. CASE BeginCategory
  <2>1. /\ proc = "up" /\ UNCHANGED <<proc, flag>> /\ pc \in Open /\ pc # "blocked"
        /\ Emit(Line("progress"))
    BY <1>12 DEF BeginCategory, Open, Busy
  <2>2. QED
    BY <1>2, <1>F, <2>1 DEF Protocol!Next
<1>13. ASSUME NEW t \in AllTests \cup {"error"}, proc = "up", UNCHANGED <<proc, flag>>, pc = "engine",
              Emit(ResultLine(Current, t)) \/ UNCHANGED emitted
       PROVE  Protocol!EmitBody \/ UNCHANGED <<proc, Seen, flag>>
  <2>1. Current \in Categories
    BY <1>13, CurrentFacts DEF ExecutorInv, EngineInv
  <2>2. ResultLine(Current, t) \in Written /\ ResultLine(Current, t).kind = "result"
    BY <1>T, <2>1, LineFacts
  <2>3. pc \in Open /\ pc # "blocked"
    BY <1>13 DEF Open, Busy
  <2>4. QED
    BY <1>1, <1>2, <1>13, <1>F, <2>2, <2>3
<1>14. CASE \E t \in AllTests : StreamResult(t)
  <2>1. PICK t \in AllTests : StreamResult(t)
    BY <1>14
  <2>2. /\ proc = "up" /\ UNCHANGED <<proc, flag>> /\ pc = "engine"
        /\ Emit(ResultLine(Current, t)) \/ UNCHANGED emitted
    BY <2>1 DEF StreamResult
  <2>3. QED
    BY <1>13, <2>2 DEF Protocol!Next
<1>15. CASE RunnerEnds
  <2>1. /\ proc = "up" /\ UNCHANGED <<proc, flag>> /\ pc = "engine"
        /\ Emit(ResultLine(Current, "error")) \/ UNCHANGED emitted
    BY <1>15 DEF RunnerEnds
  <2>2. QED
    BY <1>13, <2>1 DEF Protocol!Next
<1>16. CASE FinishCategory
  <2>1. /\ proc = "up" /\ UNCHANGED <<proc, flag>> /\ pc \in Open /\ pc # "blocked" /\ Emit(over)
    BY <1>16 DEF FinishCategory, Open, Busy
  <2> HIDE DEF over
  <2>2. QED
    BY <1>2, <1>F, <2>1 DEF Protocol!Next
<1>17. CASE Trailer
  <2>1. proc = "up" /\ UNCHANGED <<proc, flag>> /\ pc = "trailer" /\ Emit(Line("log"))
    BY <1>17 DEF Trailer
  <2>2. Line("log") \in Written /\ Line("log").kind = "log"
    BY <1>T, LineFacts
  <2>3. Seen' = Append(Seen, [kind |-> "log", st |-> "none"])
    BY <1>T, <1>F, <2>1, <2>2, SeenAppends
  <2>4. /\ emitted # <<>> /\ emitted[Len(emitted)].kind = "done"
        /\ emitted[Len(emitted)].st = "completed"
    BY <2>1 DEF ExecutorInv, EndInv
  <2>5. /\ DOMAIN Seen = 1..Len(emitted) /\ Len(Seen) = Len(emitted) /\ Len(emitted) \in Nat
        /\ \A i \in DOMAIN Seen : Seen[i] = [kind |-> emitted[i].kind, st |-> emitted[i].st]
    BY SeenFacts
  <2>6. Len(emitted) \in 1..Len(emitted)
    BY <1>T, <2>4, <2>5 DEF ExecutorType
  <2>7. Seen # <<>> /\ Seen[Len(Seen)] = [kind |-> "done", st |-> "completed"]
    BY <2>4, <2>5, <2>6
  <2>8. Protocol!EmitTrailer
    BY <2>1, <2>3, <2>7 DEF Protocol!EmitTrailer, Protocol!Body, Protocol!Done, Seen
  <2>9. QED
    BY <2>8 DEF Protocol!Next
<1>18. QED
  BY <1>5, <1>6, <1>7, <1>8, <1>9, <1>10, <1>11, <1>12, <1>14, <1>15, <1>16, <1>17 DEF Next, Work

(* The worker's code implements what JobManager assumes of the process it  *)
(* supervises: at most one line that ends the run, "cancelled" only when   *)
(* asked for, nothing after the end but the closing log line, and no more  *)
(* lines than one per test and three per category.                         *)
THEOREM WorkerImplementsProtocol == Spec => ImplementsProtocol
<1>1. Init => Protocol!Init
  <2>1. ASSUME Init PROVE Seen = <<>>
    BY <2>1 DEF Init, Seen
  <2>2. QED
    BY <2>1 DEF Init, Protocol!Init, Seen
<1>2. ExecutorInv /\ [Next]_vars =>
        [Protocol!Next \/ Protocol!Spawned \/ Protocol!Requested]_<<proc, Seen, flag>>
  BY ProtocolStep
<1>3. QED
  BY <1>1, <1>2, ExecutorInvariance, PTL DEF Spec, ImplementsProtocol, Protocol!Spec, Seen
=============================================================================
