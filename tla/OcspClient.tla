----------------------------- MODULE OcspClient -----------------------------
(***************************************************************************)
(* What the engine sends to an OCSP responder and what it gets back:       *)
(* send_ocsp_request of ocsp_tester/ocsp_client.py, with the overrides a   *)
(* run configures, and "openssl ocsp" as monitor.py calls it.              *)
(*                                                                         *)
(* A responder is external.  Three classes of them are told apart: one     *)
(* that conforms to RFC 6960, one that never answers, and any.  Times are  *)
(* hours relative to now.                                                  *)
(***************************************************************************)
EXTENDS Integers, Sequences, FiniteSets

CONSTANTS
  Replies, \* successful responses that a responder may give
  MaxAge   \* max_age_hours of the run

(* Options as sets of at most one element. *)
None == {}
Some(x) == {x}
Within(option, S) == \A x \in option : x \in S

Errors == {"malformedRequest", "internalError", "tryLater", "sigRequired", "unauthorized"}

(* An answer that carries no response data: an error status, an HTTP       *)
(* error (400 and 500, or another), data that is no OCSP response, or no   *)
(* answer at all.                                                          *)
Failures == {"silence", "http400", "http503", "noise"}

Bare(kind) ==
  [kind |-> kind, status |-> "none", read |-> FALSE, produced |-> None, this |-> None,
   next |-> None, sig |-> "none", nonce |-> FALSE, entries |-> 0, signers |-> <<>>]

Answers == Replies \cup {Bare(k) : k \in Errors \cup Failures}

ASSUME OcspAssumption ==
  /\ MaxAge \in Nat
  /\ \A r \in Replies :
       /\ r.kind = "successful" /\ r.entries > 0
       /\ r.produced \cup r.this \cup r.next \subseteq Int
-----------------------------------------------------------------------------
(* Requests: whose status is asked, with which nonce, over which method.   *)
(* "issuer" is the issuer certificate asked about itself.  A form other    *)
(* than "whole" is no OCSP request.                                        *)

Asks(cert, nonce, method) == [form |-> "whole", cert |-> cert, nonce |-> nonce, method |-> method]
Malformed(form) == [form |-> form, cert |-> "none", nonce |-> "none", method |-> "POST"]

(* Mutant: the overrides apply to every module. *)
OverriddenAlways(spec, module, runtime) ==
  [spec EXCEPT !.method = IF runtime.method = "auto" THEN @ ELSE runtime.method,
               !.nonce = IF runtime.nonce THEN "valid" ELSE "none"]

(* The overrides of send_ocsp_request.  The modules of                     *)
(* respect_exact_modules send what their tests say.                        *)
Overridden(spec, module, runtime) ==
  IF module \in {"tests_protocol", "tests_security"} THEN spec
  ELSE [spec EXCEPT !.method = IF runtime.method = "auto" THEN @ ELSE runtime.method,
                    !.nonce = IF runtime.nonce THEN "valid" ELSE "none"]

(* send_ocsp_request raises: no connection, raise_for_status,              *)
(* load_der_ocsp_response.  An OCSP error status is a normal return.       *)
Raises(a) == a.kind \in Failures

Successful(a) == a.kind = "successful"

(* version, produced_at, responder_id and the signature algorithm come     *)
(* from a second parser, whose failure is ignored.                         *)
ProducedAt(a) == IF a.read THEN a.produced ELSE None
SignatureOid(a) == IF a.read THEN a.sig ELSE "none"
-----------------------------------------------------------------------------
(* "openssl ocsp -resp_text -noverify": the exit code and what its output  *)
(* is made of.  An error status is printed ("Responder Error: ..."), and   *)
(* the exit code is then 1.  subprocess.run raises on a timeout, and when  *)
(* there is no openssl.                                                    *)

Ran(code, a) == [code |-> code, of |-> a]
Raised == Ran("raised", Bare("silence"))

Openssl(a) ==
  IF a.kind = "silence" THEN {Ran("1", a), Raised}
  ELSE {Ran(IF Successful(a) THEN "0" ELSE "1", a)}

Prints(out, word) == out.code # "raised" /\ out.of.kind = word
-----------------------------------------------------------------------------
(* Responders *)

(* A response as RFC 6960 asks for, with a nextUpdate. *)
Sound(r) ==
  /\ r.read /\ r.entries = 1 /\ r.sig \in {"sha256", "sha512"}
  /\ r.produced # None /\ Within(r.produced, -18..0)
  /\ r.this # None /\ Within(r.this, -MaxAge..0)
  /\ r.next # None /\ \A t \in r.next : t > 0

Answering(status, q) ==
  {r \in Replies : Sound(r) /\ r.status = status /\ r.nonce = (q.nonce # "none")}

(* How a responder treats a certificate that its CA did not issue is a     *)
(* policy: it "refuses" (unauthorized) or "disclaims" (unknown).  About a  *)
(* bad nonce RFC 8954 and RFC 6960 differ.                                 *)
Policies == {"refuses", "disclaims"}

Conforming(q, policy) ==
  IF q.form # "whole" THEN {Bare("malformedRequest"), Bare("http400")}
  ELSE (IF q.nonce \in {"zero", "overlong"} THEN {Bare("malformedRequest")} ELSE {})
       \cup (CASE q.cert = "good" -> Answering("GOOD", q)
               [] q.cert = "revoked" -> Answering("REVOKED", q)
               [] OTHER -> IF policy = "refuses" THEN {Bare("unauthorized")}
                           ELSE Answering("UNKNOWN", q))

AnswersTo(q, responder) ==
  CASE responder = "any" -> Answers
    [] responder = "silent" -> {Bare("silence")}
    [] OTHER -> Conforming(q, responder)
=============================================================================
