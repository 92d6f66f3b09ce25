------------------------------ MODULE MCSuites ------------------------------
(***************************************************************************)
(* A set of configurations for TestSuites: every category with conforming  *)
(* and with silent responders, any responder for a few tests at a time,    *)
(* and all stable sites for two URLs.                                      *)
(***************************************************************************)
EXTENDS TestSuites

MCUrls == {"http://ca/crl", "http://ca/list.crl"}
MCPlain == {"http://ca/crl"}
u == "http://ca/crl"
v == "http://ca/list.crl"

Signer(eku, issued) == [eku |-> eku, issued |-> issued, valid |-> TRUE, signs |-> TRUE]

Reply(status, nonce) ==
  [kind |-> "successful", status |-> status, read |-> TRUE, produced |-> Some(-1),
   this |-> Some(-2), next |-> Some(20), sig |-> "sha256", nonce |-> nonce, entries |-> 1,
   signers |-> <<Signer("OCSP", TRUE)>>]

(* Sound replies, and for each check of a reply one that it may not pass.  *)
MCReplies ==
  {Reply(status, nonce) : status \in {"GOOD", "REVOKED", "UNKNOWN"}, nonce \in BOOLEAN}
  \cup {[Reply("GOOD", TRUE) EXCEPT !.read = FALSE],
        [Reply("GOOD", FALSE) EXCEPT !.produced = Some(-25)],
        [Reply("GOOD", FALSE) EXCEPT !.next = None, !.signers = <<>>],
        [Reply("GOOD", TRUE) EXCEPT !.next = Some(-1), !.sig = "md5"],
        [Reply("GOOD", TRUE) EXCEPT !.this = Some(1), !.entries = 2,
                                    !.signers = <<Signer("server and OCSP", TRUE)>>],
        [Reply("REVOKED", TRUE) EXCEPT !.this = Some(-30),
                                       !.signers = <<Signer("server and OCSP", FALSE)>>]}

MCDocuments ==
  {[form |-> "crl", signed |-> b, age |-> a, lists |-> l, mentions |-> ~b /\ ~l] :
     b \in BOOLEAN, a \in {"current", "past", "open"}, l \in BOOLEAN}
  \cup {Blank("blob"), Blank("page")}

All(category) ==
  CASE category = "protocol" -> ProtocolTests
    [] category = "status" -> StatusTests
    [] category = "security" -> SecurityTests
    [] category = "performance" -> PerformanceTests
    [] category = "ikev2" -> Ikev2Tests
    [] category = "federal" -> FederalTests
    [] category = "crl" -> ResponseTests \o CrlTests \o <<u, v>>
Names(category) == {All(category)[i] : i \in DOMAIN All(category)}

Auto == [method |-> "auto", nonce |-> TRUE]

Config(category, selected, supplied, runtime, responder) ==
  [category |-> category, selected |-> selected, supplied |-> supplied, runtime |-> runtime,
   samples |-> 2, load |-> 3,
   responder |-> responder, openssl |-> "works", crlUrls |-> <<>>, points |-> <<u, v>>,
   site |-> [p \in Places |-> "crl"]]

Categories == {"protocol", "status", "crl", "security", "performance", "ikev2", "federal"}

(* Whole categories, every way to configure the requests. *)
Whole ==
  {[Config(c, Names(c), s, [method |-> m, nonce |-> n], r) EXCEPT !.crlUrls = w] :
     c \in Categories, w \in {<<>>, <<v, u>>}, s \in {{"good", "revoked", "foreign"}, {"revoked"}, {}},
     m \in {"auto", "GET", "POST"}, n \in BOOLEAN, r \in Policies}

(* An outage of the responder and of the sites. *)
Outage ==
  {[Config(c, Names(c), s, Auto, "silent") EXCEPT !.openssl = o, !.crlUrls = w,
                                                  !.site = [p \in Places |-> k]] :
     c \in Categories, s \in {{"good"}, {"revoked"}, {}}, o \in {"works", "slow", "missing"},
     w \in {<<>>, <<v>>}, k \in {"dead", "blocked"}}

(* Any responder. *)
Wild ==
  {Config(c, Names(c), {"good", "revoked", "foreign"}, Auto, "any") :
     c \in Categories \ {"crl"}}
  \cup {Config("crl", {"Response signature", "Response algorithm", "Response times", "Consistency"},
               {"good"}, Auto, "any")}

(* Every stable site, for the tests that look for a CRL.  No suffix is     *)
(* added to v.                                                             *)
Sites ==
  {[p \in Places |-> IF p \in DOMAIN f THEN f[p] ELSE "page"] :
     f \in [{<<u, 0>>, <<u, 1>>, <<u, 2>>, <<v, 0>>} -> {"crl", "page", "dead", "blocked"}]}

Stable ==
  {[Config("crl", {"Download", "Revocation", "Consistency"}, {s}, Auto, "refuses")
      EXCEPT !.crlUrls = w, !.points = d, !.site = f] :
     s \in {"good", "revoked"}, w \in {<<>>, <<v>>}, d \in {<<>>, <<u>>, <<u, v>>},
     f \in Sites}

(* Sites that serve anything at any time. *)
Shifting ==
  {[Config("crl", {t}, s, Auto, "refuses") EXCEPT !.openssl = o, !.crlUrls = w, !.site = <<>>] :
     t \in {"Extraction", "Download", "Accessibility", "CRL signature", "CRL times", "Revocation",
            "Consistency", u}, s \in {{"good"}, {"revoked"}},
     o \in {"works", "slow", "missing"}, w \in {<<>>, <<u>>, <<v, u>>}}

MCSetups == Whole \cup Outage \cup Wild \cup Stable \cup Shifting
=============================================================================
