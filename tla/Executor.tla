------------------------------ MODULE Executor ------------------------------
(***************************************************************************)
(* The worker process of one run: RunExecutor.run of                       *)
(* backend/app/worker/executor.py under main of worker/__main__.py.  It    *)
(* runs the enabled categories in order, restricts the engine to the       *)
(* category's selected tests through a process-wide variable, emits one    *)
(* line per result as the engine produces it, looks for the cancel file    *)
(* between categories, and turns a crash of a category into a result.      *)
(*                                                                         *)
(* Log lines are left out, except the one after "done".                    *)
(***************************************************************************)
EXTENDS Naturals, Sequences, FiniteSets

CONSTANTS
  CategoryOrder,   \* CATEGORY_ORDER
  Tests            \* the tests of each category in the engine

Categories == {CategoryOrder[i] : i \in DOMAIN CategoryOrder}
AllTests   == UNION {Tests[k] : k \in Categories}

(* None, where a selection is expected (an empty selection is not None). *)
Unrestricted == {"*"}

ASSUME ExecutorAssumption ==
  /\ CategoryOrder \in Seq(Categories) /\ "setup" \notin Categories
  /\ IsFiniteSet(AllTests)
  /\ \A i, j \in DOMAIN CategoryOrder : CategoryOrder[i] = CategoryOrder[j] => i = j
  /\ AllTests \cap Unrestricted = {}
  /\ \A k, l \in Categories : k # l => Tests[k] \cap Tests[l] = {}

VARIABLES
  proc, flag,   \* the process and its cancel file (see WorkerProtocol)
  emitted,      \* every line written to the event channel
  pc,           \* where run() stands
  categories,   \* config: the categories switched on
  selectionMap, \* config: resolved_test_selection, Unrestricted where missing
  done,         \* number of categories finished
  active,       \* ocsp_tester.selection._active
  reported      \* tests of the current category the engine is through with

cfgVars == <<categories, selectionMap>>
vars == <<proc, flag, emitted, pc, cfgVars, done, active, reported>>

(* A line: its kind, the status inside "done", the category and the test   *)
(* of a result ("error" for the result that stands for a crash), and the   *)
(* categories_done of a progress line.                                     *)
Line(k) == [kind |-> k, st |-> "none", cat |-> "none", test |-> "none", n |-> done]
ResultLine(k, t) == [Line("result") EXCEPT !.cat = k, !.test = t]
DoneLine(s) == [Line("done") EXCEPT !.st = s]

Emit(l) == emitted' = Append(emitted, l)

(* enabled: the categories switched on, in CATEGORY_ORDER.  The n-th is    *)
(* the one with n - 1 of them before it.                                   *)
Position(k) == CHOOSE i \in DOMAIN CategoryOrder : CategoryOrder[i] = k
Before(k) == {l \in categories : Position(l) < Position(k)}
Enabled ==
  [n \in 1..Cardinality(categories) |-> CHOOSE k \in categories : Cardinality(Before(k)) = n - 1]
Current == Enabled[done + 1]

(* A saved selection names tests of its category, or none. *)
Init ==
  /\ proc = "none" /\ flag = FALSE /\ emitted = <<>> /\ pc = "init"
  /\ categories \in SUBSET Categories
  /\ selectionMap \in [Categories -> {Unrestricted} \cup SUBSET AllTests]
  /\ \A k \in Categories : selectionMap[k] = Unrestricted \/ selectionMap[k] \subseteq Tests[k]
  /\ done = 0 /\ active = Unrestricted /\ reported = {}

(* Mutant: an empty selection is taken for no selection. *)
ShouldRunEmpty(t) == active \in {Unrestricted, {}} \/ t \in active

(* selection.should_run: no active selection means every test runs.  A     *)
(* selected name also admits names it is a prefix of; no name of the       *)
(* catalog is a prefix of another, so that this is membership.             *)
ShouldRun(t) == active = Unrestricted \/ t \in active

(* start_run has spawned the process. *)
Start ==
  /\ proc = "none"
  /\ proc' = "up"
  /\ UNCHANGED <<flag, emitted, pc, cfgVars, done, active, reported>>

(* The API process touches the cancel file. *)
RequestCancel ==
  /\ ~flag /\ flag' = TRUE
  /\ UNCHANGED <<proc, emitted, pc, cfgVars, done, active, reported>>

(* The manifest is read; a missing or broken one is fatal. *)
Initialize ==
  /\ proc = "up" /\ pc = "init"
  /\ \/ pc' = "preflight" /\ UNCHANGED emitted
     \/ pc' = "exit" /\ Emit([Line("fatal") EXCEPT !.st = "failed"])
  /\ UNCHANGED <<proc, flag, cfgVars, done, active, reported>>

(* validate_url of every target: a blocked one gives an ERROR result and   *)
(* ends the run; a certificate that does not load is fatal.                *)
Preflight ==
  /\ proc = "up" /\ pc = "preflight"
  /\ \/ pc' = "next" /\ UNCHANGED emitted
     \/ pc' = "blocked" /\ Emit(ResultLine("setup", "error"))
     \/ pc' = "exit" /\ Emit([Line("fatal") EXCEPT !.st = "failed"])
  /\ UNCHANGED <<proc, flag, cfgVars, done, active, reported>>

(* Mutant: no return after the "done" of a blocked run. *)
BlockedGoesOn ==
  /\ proc = "up" /\ pc = "blocked"
  /\ Emit(DoneLine("failed"))
  /\ pc' = "next"
  /\ UNCHANGED <<proc, flag, cfgVars, done, active, reported>>

Blocked ==
  /\ proc = "up" /\ pc = "blocked"
  /\ Emit(DoneLine("failed"))
  /\ pc' = "exit"
  /\ UNCHANGED <<proc, flag, cfgVars, done, active, reported>>

(* _check_cancel at the head of the loop: RunCancelled is handled by main. *)
Cancelled ==
  /\ proc = "up" /\ pc = "next" /\ done < Len(Enabled) /\ flag
  /\ Emit(DoneLine("cancelled"))
  /\ pc' = "exit"
  /\ UNCHANGED <<proc, flag, cfgVars, done, active, reported>>

BeginCategory ==
  /\ proc = "up" /\ pc = "next" /\ done < Len(Enabled) /\ ~flag
  /\ Emit(Line("progress"))
  /\ active' = selectionMap[Current]
  /\ reported' = {}
  /\ pc' = "engine"
  /\ UNCHANGED <<proc, flag, cfgVars, done>>

(* The engine calls on_result (_stream_result), possibly for a test whose  *)
(* own should_run guard is missing: the backstop drops it.                 *)
StreamResult(t) ==
  /\ proc = "up" /\ pc = "engine" /\ t \in Tests[Current] \ reported
  /\ reported' = reported \cup {t}
  /\ IF ShouldRun(t) THEN Emit(ResultLine(Current, t)) ELSE UNCHANGED emitted
  /\ UNCHANGED <<proc, flag, pc, cfgVars, done, active>>

(* Mutant: a crash of a category leaves no result. *)
RunnerEndsSilently ==
  /\ proc = "up" /\ pc = "engine"
  /\ active' = Unrestricted
  /\ pc' = "finish"
  /\ UNCHANGED <<proc, flag, emitted, cfgVars, done, reported>>

(* The runner returned when the engine was through with every test that    *)
(* should run; or it raised, and an ERROR result stands for the category.  *)
(* finally removes the selection.                                          *)
RunnerEnds ==
  /\ proc = "up" /\ pc = "engine"
  /\ \/ (\A t \in Tests[Current] : ShouldRun(t) => t \in reported) /\ UNCHANGED emitted
     \/ Emit(ResultLine(Current, "error"))
  /\ active' = Unrestricted
  /\ pc' = "finish"
  /\ UNCHANGED <<proc, flag, cfgVars, done, reported>>

FinishCategory ==
  /\ proc = "up" /\ pc = "finish"
  /\ Emit([Line("progress") EXCEPT !.n = done + 1])
  /\ done' = done + 1
  /\ pc' = "next"
  /\ UNCHANGED <<proc, flag, cfgVars, active, reported>>

Complete ==
  /\ proc = "up" /\ pc = "next" /\ done = Len(Enabled)
  /\ Emit(DoneLine("completed"))
  /\ pc' = "trailer"
  /\ UNCHANGED <<proc, flag, cfgVars, done, active, reported>>

(* "Run complete". *)
Trailer ==
  /\ proc = "up" /\ pc = "trailer"
  /\ Emit(Line("log"))
  /\ pc' = "exit"
  /\ UNCHANGED <<proc, flag, cfgVars, done, active, reported>>

(* main returns, or the process is killed at any point. *)
Exit ==
  /\ proc = "up" /\ proc' = "dead"
  /\ UNCHANGED <<flag, emitted, pc, cfgVars, done, active, reported>>

Work ==
  \/ Initialize \/ Preflight \/ Blocked \/ Cancelled \/ BeginCategory
  \/ (\E t \in AllTests : StreamResult(t)) \/ RunnerEnds \/ FinishCategory
  \/ Complete \/ Trailer

Next == Start \/ RequestCancel \/ Work \/ Exit

Spec == Init /\ [][Next]_vars
-----------------------------------------------------------------------------
TypeOK ==
  /\ proc \in {"none", "up", "dead"} /\ flag \in BOOLEAN
  /\ pc \in {"init", "preflight", "blocked", "next", "engine", "finish", "trailer", "exit"}
  /\ categories \in SUBSET Categories
  /\ selectionMap \in [Categories -> {Unrestricted} \cup SUBSET AllTests]
  /\ done \in 0..Len(Enabled)
  /\ active \in {Unrestricted} \cup SUBSET AllTests
  /\ reported \in SUBSET AllTests

Results(k) == {emitted[i].test : i \in {j \in DOMAIN emitted : emitted[j].kind = "result"
                                                              /\ emitted[j].cat = k}}
Completed == \E i \in DOMAIN emitted : emitted[i] = DoneLine("completed")
Selected(k) == IF selectionMap[k] = Unrestricted THEN Tests[k] ELSE selectionMap[k]

(* A run that says "completed" accounts for all that was asked: every      *)
(* selected test of every enabled category has its result, unless the      *)
(* category crashed and has its ERROR result.                              *)
CompletedAccounts ==
  Completed => \A k \in categories : Selected(k) \subseteq Results(k) \/ "error" \in Results(k)

(* No result of a test outside its category's selection is ever written,   *)
(* whatever the category before it left in the shared selection and also   *)
(* when the selection is empty; a category that is off has no result.      *)
SelectionHonoured ==
  \A k \in Categories :
    Results(k) \subseteq IF k \in categories THEN Selected(k) \cup {"error"} ELSE {}

(* What the supervisor relies on. *)
Protocol == INSTANCE WorkerProtocol WITH
  MaxBody <- Cardinality(AllTests) + 3 * Len(CategoryOrder) + 1,
  out <- [i \in DOMAIN emitted |-> [kind |-> emitted[i].kind, st |-> emitted[i].st]]

(* The lines are those JobManager expects: at most one "done" or "fatal",  *)
(* "cancelled" only after a cancel was asked for, and after the end only   *)
(* the closing log line of a completed run.                                *)
ImplementsProtocol == Protocol!Spec
=============================================================================
