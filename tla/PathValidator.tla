--------------------------- MODULE PathValidator ----------------------------
(***************************************************************************)
(* CertificatePathValidator (ocsp_tester/path_validator.py) on             *)
(* certificates reduced to the fields it reads.  Its lists of errors,      *)
(* warnings and details are reduced to is_valid; check_revocation_status   *)
(* is called by nobody.                                                    *)
(*                                                                         *)
(* A certificate:                                                          *)
(*   subject, issuer, serial                                               *)
(*   key       the key it certifies                                        *)
(*   signedBy  the key that signed it                                      *)
(*   pkcs1     the signature is RSA with PKCS #1 v1.5 padding              *)
(*   time      "early", "now" or "late": validity period and the clock     *)
(*   exts      "malformed": reading any of its extensions raises           *)
(*   ca        basicConstraints: "absent", "no" or "yes"                   *)
(*   pathLen   its path length, -1 for None                                *)
(*   keyUsage  "absent", "other" or "sign" (keyCertSign)                   *)
(*   aia       the caIssuers URLs                                          *)
(***************************************************************************)
EXTENDS Integers, Sequences

(* _verify_certificate_signature: always PKCS1v15(), so that every other   *)
(* kind of signature ends in an exception and counts as not verified.      *)
Verified(cert, issuer) == cert.pkcs1 /\ cert.signedBy = issuer.key

(* _find_issuer: the first certificate with the issuer's name, among the   *)
(* intermediates and then the trust anchors; {} for None.                  *)
FindIssuer(cert, intermediates, anchors) ==
  LET all == intermediates \o anchors
      named == {i \in 1..Len(all) : all[i].subject = cert.issuer}
  IN  {all[i] : i \in {i \in named : \A j \in named : i <= j}}

SignatureFound(cert, intermediates, anchors) ==
  \E c \in FindIssuer(cert, intermediates, anchors) : Verified(cert, c)

VerifySignatures(endEntity, intermediates, anchors) ==
  /\ SignatureFound(endEntity, intermediates, anchors)
  /\ \A i \in 1..Len(intermediates) : SignatureFound(intermediates[i], intermediates, anchors)

CheckValidityPeriods(endEntity, intermediates) ==
  endEntity.time = "now" /\ \A i \in 1..Len(intermediates) : intermediates[i].time = "now"

(* The end entity's CA flag gives a warning at most. *)
CheckBasicConstraints(intermediates) ==
  \A i \in 1..Len(intermediates) : intermediates[i].ca = "yes"

(* Mutant: a missing key usage extension is an error. *)
KeyUsageRequired(intermediates) ==
  \A i \in 1..Len(intermediates) : intermediates[i].keyUsage = "sign"

(* A missing key usage extension gives a warning. *)
CheckKeyUsage(intermediates) ==
  \A i \in 1..Len(intermediates) : intermediates[i].keyUsage # "other"

(* remaining_path: the intermediates above the i-th (i counts from 1). *)
CheckPathLength(intermediates) ==
  \A i \in 1..Len(intermediates) :
    (intermediates[i].ca = "yes" /\ intermediates[i].pathLen >= 0) =>
      Len(intermediates) - i <= intermediates[i].pathLen

(* validate_certificate_chain: an exception while reading the extensions   *)
(* of the end entity or of an intermediate makes the chain invalid.        *)
ValidateChain(endEntity, intermediates, anchors) ==
  /\ endEntity.exts = "ok" /\ \A i \in 1..Len(intermediates) : intermediates[i].exts = "ok"
  /\ VerifySignatures(endEntity, intermediates, anchors)
  /\ CheckValidityPeriods(endEntity, intermediates)
  /\ CheckBasicConstraints(intermediates)
  /\ CheckKeyUsage(intermediates)
  /\ CheckPathLength(intermediates)
=============================================================================
