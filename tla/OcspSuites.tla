----------------------------- MODULE OcspSuites -----------------------------
(***************************************************************************)
(* The tests that ask an OCSP responder: tests_protocol, tests_status,     *)
(* tests_crl, tests_security, tests_performance and tests_federal of       *)
(* ocsp_tester, and tests_ikev2, which skips all of its own.  A test is a  *)
(* script of exchanges, what it notes of each, and a verdict on the notes. *)
(* Most make one exchange, and note the verdict itself.                    *)
(***************************************************************************)
EXTENDS Monitor

ProtocolTests == <<"GET", "POST", "DER fields", "SHA-1 CertID", "Serial number">>
StatusTests == <<"Good", "Revoked", "Unknown CA", "Non-issued", "Timestamps">>
ResponseTests == <<"Response signature", "Response algorithm", "Response times">>
SecurityTests ==
  <<"Malformed", "Operational", "Unauthorized", "SigRequired", "Nonce echo",
    "Algorithm present", "Preference">>
PerformanceTests == <<"Latency", "Load", "Caching">>
Ikev2Tests == <<"OCSP Content", "CERTREQ", "Trusted responder", "Configuration mapping">>
FederalTests == <<"Environment", "Batch", "Signer signature", "Delegated EKU", "Interval">>

Among(t, tests) == \E i \in DOMAIN tests : tests[i] = t

Module(t) ==
  CASE Among(t, ProtocolTests) -> "tests_protocol"
    [] Among(t, StatusTests) -> "tests_status"
    [] Among(t, SecurityTests) -> "tests_security"
    [] Among(t, ResponseTests) -> "tests_crl"
    [] Among(t, PerformanceTests) -> "tests_performance"
    [] OTHER -> "tests_crl_comprehensive"

(* sample, test_cert or sample_cert: the good certificate, else the        *)
(* revoked one, else the issuer itself.                                    *)
Sample(supplied) ==
  CASE "good" \in supplied -> "good"
    [] "good" \notin supplied /\ "revoked" \in supplied -> "revoked"
    [] OTHER -> "issuer"

Client(cert, nonce, method) == <<Exchange("client", Asks(cert, nonce, method))>>

(* A test of a certificate that was not supplied makes no exchange. *)
ClientIf(cert, supplied) == IF cert \in supplied THEN Client(cert, "valid", "POST") ELSE <<>>

(* _fetch_ocsp_response_text, once before the federal tests that use it. *)
TextReaders == {"Environment", "Batch", "Delegated EKU", "Interval"}
FetchText(supplied) == Text(Sample(supplied), "valid")

Script(t, s) ==
  LET sample == Sample(s.supplied) IN
    CASE t = "GET" -> Client(sample, "valid", "GET")
      [] t = "POST" -> Client(sample, "valid", "POST")
      [] t \in {"DER fields", "SHA-1 CertID", "Timestamps", "Algorithm present"}
           \/ Among(t, ResponseTests) -> Client(sample, "none", "POST")
      [] t = "Good" -> ClientIf("good", s.supplied)
      [] t = "Revoked" -> ClientIf("revoked", s.supplied)
      [] t = "Unknown CA" -> ClientIf("foreign", s.supplied)
      [] t = "Malformed" -> Client(sample, "zero", "POST") \o Client(sample, "overlong", "POST")
                              \o <<Exchange("post", Malformed("truncated"))>>
      [] t = "Operational" -> OperationalErrorSignaling
      [] t = "Unauthorized" -> UnauthorizedQueryHandling
      [] t = "SigRequired" -> SigrequiredValidation
      [] t = "Nonce echo" -> IF s.runtime.nonce THEN NonceEchoValidation ELSE <<>>
      [] t = "Preference" -> CryptographicPreference
      [] t = "Latency" -> Times(s.samples, Client(sample, "none", "POST")[1])
      [] t = "Load" -> Times(s.load, Client(sample, "none", "POST")[1])
      [] t = "Caching" -> Times(2, Client(sample, "none", "GET")[1])
      [] t = "Signer signature" -> <<Text(sample, "valid")>>
      [] OTHER -> <<>>

(* A loop of requests ends with one that raises, and a request that could  *)
(* not be written is not posted.  The load test sends all of its own: the  *)
(* thread pool is left when its last request has ended.                    *)
Broken(t, notes) ==
  /\ notes # <<>> /\ notes[Len(notes)] = "raised"
  /\ \/ t = "Operational" /\ Len(notes) > 3
     \/ t = "Nonce echo" /\ Len(notes) > 2
     \/ t \in {"SigRequired", "Latency", "Caching"}
-----------------------------------------------------------------------------
(* What a test notes of the answer to its i-th request *)

(* Mutant: a response that cannot be had is taken for acceptable. *)
RaisesPass(a, verdict) == IF Raises(a) THEN "PASS" ELSE verdict

(* The handler around most tests. *)
OrError(a, verdict) == IF Raises(a) THEN "ERROR" ELSE verdict

PassOrFail(condition) == IF condition THEN "PASS" ELSE "FAIL"

(* Any OCSP response shows that the transport works. *)
TransportNote(a) == IF Raises(a) THEN "FAIL" ELSE "PASS"

DerNote(a) == OrError(a, PassOrFail(Successful(a) /\ a.read))
Sha1Note(a) == OrError(a, PassOrFail(Successful(a)))
StatusNote(a, expected) == OrError(a, PassOrFail(Successful(a) /\ a.status = expected))
UnknownCaNote(a) == OrError(a, PassOrFail(a.status = "UNKNOWN"))

TimestampsNote(a) ==
  OrError(a, PassOrFail(a.this # None /\ a.next # None /\ ProducedAt(a) # None))

SignaturePresentNote(a) == OrError(a, IF Successful(a) THEN "PASS" ELSE "SKIP")
AlgorithmNote(a) == OrError(a, PassOrFail(SignatureOid(a) \notin {"none", "md5"}))

(* _produced_at_issue: 24 hours; past 18 there is only a note. *)
ProducedAtIssue(a) == \E t \in ProducedAt(a) : t > 0 \/ -t > 24

(* "Response timestamp validation": a time that is missing is no issue. *)
TimesNote(a) ==
  OrError(a, PassOrFail(~(ProducedAtIssue(a) \/ (\E t \in a.this : t > 0)
                                             \/ (\E t \in a.next : t < 0))))

AlgorithmPresentNote(a) == OrError(a, PassOrFail(Successful(a) /\ SignatureOid(a) # "none"))

ClientNote(t, a) ==
  CASE t \in {"GET", "POST"} -> TransportNote(a)
    [] t = "DER fields" -> DerNote(a)
    [] t = "SHA-1 CertID" -> Sha1Note(a)
    [] t = "Good" -> StatusNote(a, "GOOD")
    [] t = "Revoked" -> StatusNote(a, "REVOKED")
    [] t = "Unknown CA" -> UnknownCaNote(a)
    [] t = "Timestamps" -> TimestampsNote(a)
    [] t = "Response signature" -> SignaturePresentNote(a)
    [] t = "Response algorithm" -> AlgorithmNote(a)
    [] t = "Response times" -> TimesNote(a)
    [] t = "Algorithm present" -> AlgorithmPresentNote(a)

(* Two requests with a bad nonce, and one cut short, for which any HTTP    *)
(* answer will do: only an exception counts as a rejection.                *)
MalformedNote(i, a) ==
  IF (IF i = 3 THEN a.kind = "silence" ELSE Raises(a)) THEN "rejected" ELSE "accepted"

Note(t, i, out) ==
  CASE t = "Malformed" -> MalformedNote(i, out)
    [] t = "Operational" -> OperationalNote(i, out)
    [] t = "Unauthorized" -> UnauthorizedNote(i, out)
    [] t = "SigRequired" -> SigrequiredNote(i, out)
    [] t = "Nonce echo" -> NonceNote(i, out)
    [] t = "Preference" -> PreferenceNote(out)
    [] t = "Signer signature" -> SignatureNote(out)
    [] Among(t, PerformanceTests) -> IF Raises(out) THEN "raised" ELSE "answered"
    [] OTHER -> ClientNote(t, out)
-----------------------------------------------------------------------------
(* The verdict, from the notes and, in the federal category, the text *)

MalformedVerdict(notes) ==
  IF "rejected" \in {notes[i] : i \in DOMAIN notes} THEN "PASS" ELSE "SKIP"

AnsweredVerdict(notes) ==
  IF "raised" \in {notes[i] : i \in DOMAIN notes} THEN "ERROR" ELSE "PASS"

Verdict(t, notes, text) ==
  CASE t = "Serial number" -> "PASS"
    [] t = "Environment" -> "PASS"
    [] t = "Batch" -> BatchVerdict(text)
    [] t = "Delegated EKU" -> DelegatedVerdict(text)
    [] t = "Interval" -> IntervalVerdict(text)
    [] OTHER -> IF notes = <<>> THEN "SKIP"
                ELSE CASE t = "Malformed" -> MalformedVerdict(notes)
                       [] t = "Operational" -> OperationalVerdict(notes)
                       [] t = "Unauthorized" -> UnauthorizedVerdict(notes)
                       [] t = "SigRequired" -> SigrequiredVerdict(notes)
                       [] t = "Nonce echo" -> NonceVerdict(notes)
                       [] Among(t, PerformanceTests) -> AnsweredVerdict(notes)
                       [] OTHER -> notes[1]
=============================================================================
