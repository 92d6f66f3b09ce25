---------------------------- MODULE LoginLimiter ----------------------------
(***************************************************************************)
(* The limiter of failed local logins (backend/app/api/auth.py), for one   *)
(* client address and user name in one API process.  The limit is checked  *)
(* before the user is read from the database, the failure is recorded      *)
(* after it: other attempts and the clock move in between.                 *)
(***************************************************************************)
EXTENDS Integers, FiniteSets, Sequences

CONSTANTS
  MaxFailures, Window, \* _MAX_FAILURES, _WINDOW
  Attempts,            \* the requests that may be on their way at once
  LastTime,            \* bound on the clock
  MaxFailed            \* bound on the failures of a behaviour

ASSUME LimiterAssumption ==
  /\ MaxFailures \in Nat \ {0} /\ Window \in Nat \ {0}
  /\ Attempts # {} /\ IsFiniteSet(Attempts)

VARIABLES
  now,      \* time.monotonic()
  entry,    \* _FAILURES[key], an option of a count and the time of its first
  checking, \* attempts that were let in and await the database
  failed    \* history: times of the failures since the last success

limiterVars == <<now, entry, checking, failed>>

LimiterInit == now = 0 /\ entry = {} /\ checking = {} /\ failed = <<>>

(* Mutant: one failure too many *)
RateLimitedLate == \E e \in entry : e.count > MaxFailures /\ now - e.first < Window

(* _rate_limited *)
RateLimited == \E e \in entry : e.count >= MaxFailures /\ now - e.first < Window

(* local_login, up to the SELECT *)
Attempt ==
  \E a \in Attempts \ checking :
    /\ ~RateLimited
    /\ checking' = checking \cup {a}
    /\ UNCHANGED <<now, entry, failed>>

(* _record_failure *)
RecordFailure ==
  LET current == {e \in entry : now - e.first < Window} IN
    IF current = {} THEN {[count |-> 1, first |-> now]}
    ELSE {[e EXCEPT !.count = @ + 1] : e \in current}

FailedLogin ==
  \E a \in checking :
    /\ Len(failed) < MaxFailed
    /\ entry' = RecordFailure
    /\ checking' = checking \ {a} /\ failed' = Append(failed, now)
    /\ UNCHANGED now

(* _clear_failures *)
SuccessfulLogin ==
  \E a \in checking :
    /\ entry' = {} /\ checking' = checking \ {a} /\ failed' = <<>>
    /\ UNCHANGED now

TimePasses == now < LastTime /\ now' = now + 1 /\ UNCHANGED <<entry, checking, failed>>

LimiterNext == Attempt \/ FailedLogin \/ SuccessfulLogin \/ TimePasses

LimiterSpec == LimiterInit /\ [][LimiterNext]_limiterVars
-----------------------------------------------------------------------------
(* Properties *)

LimiterTypeOK ==
  /\ now \in Nat /\ checking \subseteq Attempts /\ failed \in Seq(Nat)
  /\ entry \subseteq [count : Nat, first : Nat] /\ Cardinality(entry) <= 1

(* The failures of the last Window *)
Recent == Cardinality({i \in DOMAIN failed : now - failed[i] < Window})

(* An attempt refused with 429 has a reason: that many attempts did fail   *)
(* within the last Window, so that nobody stays locked out for longer.     *)
RefusalHasReason == RateLimited => Recent >= MaxFailures

(* However attempts overlap and wherever the window of the entry starts,   *)
(* a Window without a success has a bounded number of failures: those of   *)
(* two windows of the entry, each exceeded by the attempts on their way,   *)
(* but for the failure that opened the first.                              *)
FailuresBounded == Recent <= 2 * (MaxFailures + Cardinality(Attempts) - 1) - 1

(* The limiter is neither too strict nor too lax, whatever overlaps.       *)
LimiterFair == RefusalHasReason /\ FailuresBounded
=============================================================================
