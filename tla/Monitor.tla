------------------------------ MODULE Monitor -------------------------------
(***************************************************************************)
(* The operations of ocsp_tester/monitor.py that the security and federal  *)
(* categories call.  Each starts openssl or posts to the responder and     *)
(* draws a conclusion from exit codes, words of the output, or the HTTP    *)
(* status; each catches every exception and then returns its defaults.     *)
(* An operator here gives what one such exchange contributes.              *)
(***************************************************************************)
EXTENDS OcspClient

CONSTANTS
  OverloadRequests, \* requests of _test_server_overload_error_signaling
  NonceRequests     \* requests of _test_multiple_nonce_requests

ASSUME MonitorAssumption == OverloadRequests \in Nat /\ NonceRequests \in Nat

(* An exchange: over which client, and the request.  "local" is a call of  *)
(* openssl that sends nothing: one that is given a file which is no        *)
(* certificate (the _create_... files) ends with an error before it asks.  *)
Exchange(via, q) == [via |-> via, q |-> q]
Local == Exchange("local", Malformed("none"))
Text(cert, nonce) == Exchange("openssl", Asks(cert, nonce, "POST"))

Times(n, x) == [i \in 1..n |-> x]
-----------------------------------------------------------------------------
(* test_operational_error_signaling *)
OperationalErrorSignaling ==
  <<Exchange("post", Malformed("garbage")), Local, Local>>
    \o Times(OverloadRequests, Text("issuer", "valid"))

(* A transport failure counts as a proper error response. *)
MalformedSignaled(a) == a.kind \in {"http400", "silence"}

(* The overload requests contribute nothing to the verdict; one that       *)
(* raises ends them.                                                       *)
OperationalNote(i, out) ==
  IF i = 1 THEN (IF MalformedSignaled(out) THEN "proper" ELSE "improper")
  ELSE IF out.code = "raised" THEN "raised"
  ELSE IF i <= 3 THEN "proper" ELSE "sent"

OperationalVerdict(notes) == IF \E i \in 1..3 : notes[i] = "proper" THEN "PASS" ELSE "FAIL"
-----------------------------------------------------------------------------
(* test_unauthorized_query_handling: a certificate of another CA, one that *)
(* does not exist, an invalid issuer.  The first needs the word            *)
(* "unauthorized", which openssl cannot print without having asked.        *)
UnauthorizedQueryHandling == <<Local, Local, Local>>

UnauthorizedNote(i, out) == IF out.code # "raised" /\ i # 1 THEN "unauthorized" ELSE "other"

UnauthorizedVerdict(notes) ==
  LET count == Cardinality({i \in DOMAIN notes : notes[i] = "unauthorized"}) IN
    IF 2 * count >= Len(notes) THEN "PASS" ELSE "FAIL"
-----------------------------------------------------------------------------
(* test_sigrequired_validation.  A response is read with "openssl ocsp     *)
(* -respin ... -text -noout"; openssl ocsp has no option -noout and prints *)
(* nothing, so that sigRequired is not detected, and the verdict is that   *)
(* of a server which does not ask for signatures.                          *)
SigrequiredValidation == <<Local, Exchange("post", Asks("issuer", "valid", "POST"))>>

SigrequiredNote(i, out) ==
  IF i = 1 THEN (IF out.code = "raised" THEN "raised" ELSE "written")
  ELSE IF out.kind \in {"http400", "http503"} THEN "rejected" ELSE "not detected"

SigrequiredVerdict(notes) == IF "detected" \in {notes[i] : i \in DOMAIN notes} THEN "FAIL" ELSE "PASS"
-----------------------------------------------------------------------------
(* test_nonce_echo_validation: with a nonce, without one, several with one. *)
NonceEchoValidation ==
  <<Text("issuer", "valid"), Text("issuer", "none")>>
    \o Times(NonceRequests, Text("issuer", "valid"))

NonceNote(i, out) ==
  CASE out.code = "raised" -> "raised"
    [] out.code = "0" -> IF i = 2 THEN (IF out.of.nonce THEN "nothing" ELSE "supported")
                         ELSE IF out.of.nonce THEN "echoed" ELSE "nothing"
    [] OTHER -> IF Prints(out, "unauthorized") /\ i <= 2 THEN "unauthorized" ELSE "nothing"

(* Mutant: a refusal is not told from missing support. *)
NonceVerdictStrict(notes) ==
  IF "echoed" \in {notes[i] : i \in DOMAIN notes} THEN "PASS" ELSE "FAIL"

NonceVerdict(notes) ==
  LET found == {notes[i] : i \in DOMAIN notes} IN
    CASE "echoed" \in found -> "PASS"
      [] "echoed" \notin found /\ "supported" \in found -> "FAIL"
      [] OTHER -> IF "unauthorized" \in found THEN "PASS" ELSE "FAIL"
-----------------------------------------------------------------------------
(* run_cryptographic_preference_test: one request, the algorithm of its    *)
(* response.                                                               *)
CryptographicPreference == <<Text("issuer", "valid")>>

(* negotiate_cryptographic_preferences *)
Assessment(out) ==
  CASE out.code # "0" -> "CRITICAL"
    [] OTHER -> CASE out.of.sig = "sha512" -> "SECURE"
                  [] out.of.sig = "sha256" -> "ACCEPTABLE"
                  [] OTHER -> "WEAK"

(* "CRITICAL" is also what is left when there was no response. *)
PreferenceNote(out) ==
  CASE Assessment(out) \in {"SECURE", "ACCEPTABLE"} -> "PASS"
    [] Assessment(out) = "WEAK" -> "FAIL"
    [] OTHER -> "SKIP"
-----------------------------------------------------------------------------
(* The federal category reads one response text in several ways. *)

HasText(out) == out.code = "0"

(* _detect_batch_ocsp_response: the pattern of an entry includes its       *)
(* Next Update.                                                            *)
BatchVerdict(out) ==
  IF HasText(out) /\ out.of.entries > 1 /\ out.of.next # None THEN "PASS" ELSE "SKIP"

(* validate_response_validity_interval, of which the category uses         *)
(* interval_valid and the warnings.                                        *)
IntervalValid(a) == \E t \in a.this, u \in a.next : u > t
IntervalWarned(a) == (\E t \in a.this : t > 0 \/ -t > MaxAge) \/ (\E u \in a.next : u < 0)

IntervalVerdict(out) ==
  CASE ~HasText(out) \/ ~IntervalValid(out.of) -> "FAIL"
    [] OTHER -> IF IntervalWarned(out.of) THEN "WARN" ELSE "PASS"

(* verify_ocsp_signature: the structure check comes first and looks for    *)
(* labels, among them "Responder ID:".  openssl prints "Responder Id:".    *)
Labels == {"OCSP Response Data:", "Response Type:", "Version:", "Responder Id:", "Produced At:",
           "Responses:", "Signature Algorithm:"}
Required == {"OCSP Response Data:", "Response Type:", "Version:", "Responder ID:", "Produced At:",
             "Responses:"}

SignatureNote(out) == IF HasText(out) /\ Required \subseteq Labels THEN "PASS" ELSE "FAIL"

(* validate_ca_designated_responder, for the first certificate of the      *)
(* response (_extract_ocsp_signer_certificate).  The key usage is found    *)
(* where openssl prints it after that of a TLS server.                     *)
HasEku(c) == c.eku = "server and OCSP"
Designated(c) == HasEku(c) /\ c.issued /\ c.valid /\ c.signs

(* _extract_ocsp_signer_certificate *)
FirstSigner(out) == out.of.signers[1]

DelegatedVerdict(out) ==
  IF ~HasText(out) \/ out.of.signers = <<>> THEN "SKIP"
  ELSE LET c == FirstSigner(out) IN
    IF Designated(c) THEN "PASS" ELSE IF HasEku(c) THEN "WARN" ELSE "FAIL"
=============================================================================
