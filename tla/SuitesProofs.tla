---------------------------- MODULE SuitesProofs ----------------------------
(***************************************************************************)
(* The engine's verdicts, for any catalog of sites and replies, any number *)
(* of URLs, suffixes, samples and repeated requests, and any configuration *)
(* of a run.                                                               *)
(***************************************************************************)
EXTENDS TestSuites, FiniteSetTheorems, TLAPS

LEMMA AmongThree ==
  ASSUME NEW t, NEW a, NEW b, NEW c
  PROVE  Among(t, <<a, b, c>>) <=> t \in {a, b, c}
<1>1. DOMAIN <<a, b, c>> = {1, 2, 3}
  OBVIOUS
<1>2. /\ <<a, b, c>>[1] = a /\ <<a, b, c>>[2] = b /\ <<a, b, c>>[3] = c
  OBVIOUS
<1>3. QED
  BY <1>1, <1>2, Zenon DEF Among

LEMMA AmongFive ==
  ASSUME NEW t, NEW a, NEW b, NEW c, NEW d, NEW e
  PROVE  Among(t, <<a, b, c, d, e>>) <=> t \in {a, b, c, d, e}
<1>1. DOMAIN <<a, b, c, d, e>> = {1, 2, 3, 4, 5}
  OBVIOUS
<1>2. /\ <<a, b, c, d, e>>[1] = a /\ <<a, b, c, d, e>>[2] = b /\ <<a, b, c, d, e>>[3] = c
      /\ <<a, b, c, d, e>>[4] = d /\ <<a, b, c, d, e>>[5] = e
  OBVIOUS
<1>3. QED
  BY <1>1, <1>2, Zenon DEF Among

LEMMA AmongSeven ==
  ASSUME NEW t, NEW a, NEW b, NEW c, NEW d, NEW e, NEW f, NEW g
  PROVE  Among(t, <<a, b, c, d, e, f, g>>) <=> t \in {a, b, c, d, e, f, g}
<1>1. DOMAIN <<a, b, c, d, e, f, g>> = {1, 2, 3, 4, 5, 6, 7}
  OBVIOUS
<1>2. /\ <<a, b, c, d, e, f, g>>[1] = a /\ <<a, b, c, d, e, f, g>>[2] = b /\ <<a, b, c, d, e, f, g>>[3] = c
      /\ <<a, b, c, d, e, f, g>>[4] = d /\ <<a, b, c, d, e, f, g>>[5] = e /\ <<a, b, c, d, e, f, g>>[6] = f
      /\ <<a, b, c, d, e, f, g>>[7] = g
  OBVIOUS
<1>3. QED
  BY <1>1, <1>2, Zenon DEF Among

(* The lists of tests, as sets. *)
LEMMA Lists ==
  ASSUME NEW t
  PROVE  /\ Among(t, ProtocolTests)
              <=> t \in {"GET", "POST", "DER fields", "SHA-1 CertID", "Serial number"}
         /\ Among(t, StatusTests)
              <=> t \in {"Good", "Revoked", "Unknown CA", "Non-issued", "Timestamps"}
         /\ Among(t, ResponseTests)
              <=> t \in {"Response signature", "Response algorithm", "Response times"}
         /\ Among(t, SecurityTests)
              <=> t \in {"Malformed", "Operational", "Unauthorized", "SigRequired", "Nonce echo",
                         "Algorithm present", "Preference"}
         /\ Among(t, PerformanceTests) <=> t \in {"Latency", "Load", "Caching"}
         /\ Among(t, CrlTests)
              <=> t \in {"Extraction", "Download", "Accessibility", "CRL signature", "CRL times",
                         "Revocation", "Consistency"}
<1>1. Among(t, ProtocolTests)
      <=> t \in {"GET", "POST", "DER fields", "SHA-1 CertID", "Serial number"}
  BY AmongFive DEF ProtocolTests
<1>2. Among(t, StatusTests)
      <=> t \in {"Good", "Revoked", "Unknown CA", "Non-issued", "Timestamps"}
  BY AmongFive DEF StatusTests
<1>3. Among(t, ResponseTests)
      <=> t \in {"Response signature", "Response algorithm", "Response times"}
  BY AmongThree DEF ResponseTests
<1>4. Among(t, SecurityTests)
      <=> t \in {"Malformed", "Operational", "Unauthorized", "SigRequired", "Nonce echo",
              "Algorithm present", "Preference"}
  BY AmongSeven DEF SecurityTests
<1>5. Among(t, PerformanceTests)
      <=> t \in {"Latency", "Load", "Caching"}
  BY AmongThree DEF PerformanceTests
<1>6. Among(t, CrlTests)
      <=> t \in {"Extraction", "Download", "Accessibility", "CRL signature", "CRL times",
              "Revocation", "Consistency"}
  BY AmongSeven DEF CrlTests
<1>7. QED
  BY <1>1, <1>2, <1>3, <1>4, <1>5, <1>6

LEMMA Modules ==
  /\ \A t \in {"GET", "POST", "DER fields", "SHA-1 CertID", "Serial number"} :
       Module(t) = "tests_protocol"
  /\ \A t \in {"Malformed", "Operational", "Unauthorized", "SigRequired", "Nonce echo",
               "Algorithm present", "Preference"} : Module(t) = "tests_security"
  BY Lists, Zenon DEF Module

LEMMA Clients ==
  ASSUME NEW cert, NEW nonce, NEW method
  PROVE  Client(cert, nonce, method) = <<Exchange("client", Asks(cert, nonce, method))>>
  BY DEF Client

LEMMA Scripts ==
  ASSUME NEW s
  PROVE  /\ Script("GET", s) = Client(Sample(s.supplied), "valid", "GET")
         /\ Script("POST", s) = Client(Sample(s.supplied), "valid", "POST")
         /\ \A t \in {"DER fields", "SHA-1 CertID", "Timestamps", "Algorithm present",
                      "Response signature", "Response algorithm", "Response times"} :
              Script(t, s) = Client(Sample(s.supplied), "none", "POST")
         /\ Script("Good", s) = ClientIf("good", s.supplied)
         /\ Script("Revoked", s) = ClientIf("revoked", s.supplied)
         /\ Script("Unknown CA", s) = ClientIf("foreign", s.supplied)
         /\ Script("Malformed", s) =
              Client(Sample(s.supplied), "zero", "POST")
                \o Client(Sample(s.supplied), "overlong", "POST")
                \o <<Exchange("post", Malformed("truncated"))>>
         /\ Script("Operational", s) = OperationalErrorSignaling
         /\ Script("Unauthorized", s) = UnauthorizedQueryHandling
         /\ Script("SigRequired", s) = SigrequiredValidation
         /\ Script("Nonce echo", s) = IF s.runtime.nonce THEN NonceEchoValidation ELSE <<>>
         /\ Script("Preference", s) = CryptographicPreference
         /\ Script("Latency", s) = Times(s.samples, Client(Sample(s.supplied), "none", "POST")[1])
         /\ Script("Load", s) = Times(s.load, Client(Sample(s.supplied), "none", "POST")[1])
         /\ Script("Caching", s) = Times(2, Client(Sample(s.supplied), "none", "GET")[1])
         /\ Script("Signer signature", s) = <<Text(Sample(s.supplied), "valid")>>
  BY Lists, ZenonT(60) DEF Script

Scripted ==
  {"GET", "POST", "DER fields", "SHA-1 CertID", "Timestamps", "Algorithm present",
   "Response signature", "Response algorithm", "Response times", "Good", "Revoked", "Unknown CA",
   "Malformed", "Operational", "Unauthorized", "SigRequired", "Nonce echo", "Preference",
   "Latency", "Load", "Caching", "Signer signature"}

LEMMA NoScript ==
  ASSUME NEW t, NEW s, t \notin Scripted
  PROVE  Script(t, s) = <<>>
  BY Lists, ZenonT(60) DEF Script, Scripted

LEMMA Notes ==
  ASSUME NEW i, NEW a
  PROVE  /\ Note("Malformed", i, a) = MalformedNote(i, a)
         /\ Note("Operational", i, a) = OperationalNote(i, a)
         /\ Note("Unauthorized", i, a) = UnauthorizedNote(i, a)
         /\ Note("SigRequired", i, a) = SigrequiredNote(i, a)
         /\ Note("Nonce echo", i, a) = NonceNote(i, a)
         /\ Note("Preference", i, a) = PreferenceNote(a)
         /\ Note("Signer signature", i, a) = SignatureNote(a)
         /\ \A t \in {"Latency", "Load", "Caching"} :
              Note(t, i, a) = IF Raises(a) THEN "raised" ELSE "answered"
         /\ \A t \in {"GET", "POST", "DER fields", "SHA-1 CertID", "Good", "Revoked",
                      "Unknown CA", "Timestamps", "Response signature", "Response algorithm",
                      "Response times", "Algorithm present"} : Note(t, i, a) = ClientNote(t, a)
  BY Lists, ZenonT(60) DEF Note

LEMMA ClientNotes ==
  ASSUME NEW a
  PROVE  /\ \A t \in {"GET", "POST"} : ClientNote(t, a) = TransportNote(a)
         /\ ClientNote("DER fields", a) = DerNote(a)
         /\ ClientNote("SHA-1 CertID", a) = Sha1Note(a)
         /\ ClientNote("Good", a) = StatusNote(a, "GOOD")
         /\ ClientNote("Revoked", a) = StatusNote(a, "REVOKED")
         /\ ClientNote("Unknown CA", a) = UnknownCaNote(a)
         /\ ClientNote("Timestamps", a) = TimestampsNote(a)
         /\ ClientNote("Response signature", a) = SignaturePresentNote(a)
         /\ ClientNote("Response algorithm", a) = AlgorithmNote(a)
         /\ ClientNote("Response times", a) = TimesNote(a)
         /\ ClientNote("Algorithm present", a) = AlgorithmPresentNote(a)
  BY ZenonT(60) DEF ClientNote

LEMMA Verdicts ==
  ASSUME NEW n, NEW out
  PROVE  /\ Verdict("Serial number", n, out) = "PASS"
         /\ Verdict("Environment", n, out) = "PASS"
         /\ Verdict("Batch", n, out) = BatchVerdict(out)
         /\ Verdict("Delegated EKU", n, out) = DelegatedVerdict(out)
         /\ Verdict("Interval", n, out) = IntervalVerdict(out)
         /\ Verdict("Malformed", n, out) = IF n = <<>> THEN "SKIP" ELSE MalformedVerdict(n)
         /\ Verdict("Operational", n, out) = IF n = <<>> THEN "SKIP" ELSE OperationalVerdict(n)
         /\ Verdict("Unauthorized", n, out) = IF n = <<>> THEN "SKIP" ELSE UnauthorizedVerdict(n)
         /\ Verdict("SigRequired", n, out) = IF n = <<>> THEN "SKIP" ELSE SigrequiredVerdict(n)
         /\ Verdict("Nonce echo", n, out) = IF n = <<>> THEN "SKIP" ELSE NonceVerdict(n)
         /\ \A t \in {"Latency", "Load", "Caching"} :
              Verdict(t, n, out) = IF n = <<>> THEN "SKIP" ELSE AnsweredVerdict(n)
  BY Lists, ZenonT(60) DEF Verdict

LEMMA OtherVerdict ==
  ASSUME NEW t, NEW n, NEW out,
         t \notin {"Serial number", "Environment", "Batch", "Delegated EKU", "Interval",
                   "Malformed", "Operational", "Unauthorized", "SigRequired", "Nonce echo",
                   "Latency", "Load", "Caching"}
  PROVE  Verdict(t, n, out) = IF n = <<>> THEN "SKIP" ELSE n[1]
  BY Lists, ZenonT(60) DEF Verdict

LEMMA OutcomesOf ==
  ASSUME NEW x
  PROVE  /\ x.via = "local" =>
              Outcomes(x) = {IF setup.openssl = "missing" THEN Raised ELSE Ran("1", Bare("silence"))}
         /\ x.via = "openssl" =>
              Outcomes(x) = IF setup.openssl = "missing" THEN {Raised}
                            ELSE UNION {Openssl(a) : a \in AnswersTo(x.q, setup.responder)}
         /\ x.via = "post" => Outcomes(x) = AnswersTo(x.q, setup.responder)
         /\ x.via = "client" =>
              Outcomes(x) = AnswersTo(Overridden(x.q, Module(Test), setup.runtime), setup.responder)
  BY ZenonT(60) DEF Outcomes

LEMMA ServedAt ==
  ASSUME NEW p, setup.site # <<>>
  PROVE  /\ setup.site[p] = "crl" => Served(p) = {Genuine}
         /\ setup.site[p] = "page" => Served(p) = {Blank("page")}
         /\ setup.site[p] = "dead" => Served(p) = {Blank("failed")}
         /\ setup.site[p] = "blocked" => Served(p) = {Blank("blocked")}
  BY ZenonT(60) DEF Served

LEMMA AnswersOf ==
  ASSUME NEW q
  PROVE  /\ AnswersTo(q, "any") = Answers
         /\ AnswersTo(q, "silent") = {Bare("silence")}
         /\ \A p \in Policies : AnswersTo(q, p) = Conforming(q, p)
  BY ZenonT(60) DEF AnswersTo, Policies

LEMMA Orders ==
  /\ setup.category = "protocol" => TestOrder = ProtocolTests
  /\ setup.category = "status" => TestOrder = StatusTests
  /\ setup.category = "security" => TestOrder = SecurityTests
  /\ setup.category = "performance" => TestOrder = PerformanceTests
  /\ setup.category = "ikev2" => TestOrder = Ikev2Tests
  /\ setup.category = "federal" => TestOrder = FederalTests
  /\ setup.category = "crl" => TestOrder = ResponseTests \o CrlTests \o setup.crlUrls
  BY ZenonT(60) DEF TestOrder
-----------------------------------------------------------------------------
(* The exchanges of a script *)
IsSeq(f) == \E S : f \in Seq(S)

LEMMA Empty == IsSeq(<<>>) /\ Len(<<>>) = 0 /\ \A i \in 1..Len(<<>>) : FALSE
<1>1. <<>> \in Seq({})
  OBVIOUS
<1>2. Len(<<>>) = 0
  OBVIOUS
<1>3. QED
  BY <1>1, <1>2 DEF IsSeq

LEMMA Singles ==
  ASSUME NEW x
  PROVE  /\ IsSeq(<<x>>) /\ Len(<<x>>) = 1 /\ <<x>>[1] = x
         /\ \A i \in 1..Len(<<x>>) : i = 1
<1>1. PICK S : x \in S
  <2>1. x \in {x}
    OBVIOUS
  <2>2. QED
    BY <2>1
<1>2. <<x>> \in Seq(S) /\ Len(<<x>>) = 1
  BY <1>1
<1>3. QED
  BY <1>2 DEF IsSeq

LEMMA SampleType ==
  ASSUME NEW supplied
  PROVE  Sample(supplied) \in {"good", "revoked", "issuer"}
  BY Zenon DEF Sample

LEMMA TimesFacts ==
  ASSUME NEW n \in Nat, NEW x
  PROVE  /\ \A S : x \in S => Times(n, x) \in Seq(S)
         /\ Len(Times(n, x)) = n /\ \A i \in 1..n : Times(n, x)[i] = x
  BY DEF Times

LEMMA SetupFacts ==
  ASSUME NEW s \in SetupType
  PROVE  /\ s.samples \in Nat /\ s.load \in Nat /\ s.runtime.nonce \in BOOLEAN
         /\ s.runtime.method \in {"auto", "GET", "POST"}
         /\ s.crlUrls \in Seq(Urls) /\ s.points \in Seq(Urls)
         /\ s.responder \in {"any", "silent"} \cup Policies
         /\ s.openssl \in {"works", "slow", "missing"}
         /\ s.category \in {"protocol", "status", "crl", "security", "performance", "ikev2",
                            "federal"}
<1>1. /\ s.samples \in Nat \ {0} /\ s.load \in Nat
      /\ s.runtime \in [method : {"auto", "GET", "POST"}, nonce : BOOLEAN]
      /\ s.crlUrls \in Seq(Urls) /\ s.points \in Seq(Urls)
      /\ s.responder \in {"any", "silent"} \cup Policies
      /\ s.openssl \in {"works", "slow", "missing"}
      /\ s.category \in {"protocol", "status", "crl", "security", "performance", "ikev2",
                            "federal"}
  BY DEF SetupType
<1>2. QED
  BY <1>1

(* Scripts of one exchange. *)
LEMMA OneClient ==
  ASSUME NEW cert, NEW nonce, NEW method
  PROVE  /\ IsSeq(Client(cert, nonce, method)) /\ Len(Client(cert, nonce, method)) = 1
         /\ Client(cert, nonce, method)[1] = Exchange("client", Asks(cert, nonce, method))
  BY Singles DEF Client

LEMMA TransportScript ==
  ASSUME NEW s, NEW t \in {"GET", "POST"}
  PROVE  /\ IsSeq(Script(t, s)) /\ Len(Script(t, s)) = 1
         /\ Script(t, s)[1] = Exchange("client", Asks(Sample(s.supplied), "valid", t))
<1>1. Script(t, s) = Client(Sample(s.supplied), "valid", t)
  BY Scripts, Zenon
<1>2. QED
  BY <1>1, OneClient, Zenon

LEMMA PlainScript ==
  ASSUME NEW s, NEW t \in {"DER fields", "SHA-1 CertID", "Timestamps", "Algorithm present",
                           "Response signature", "Response algorithm", "Response times"}
  PROVE  /\ IsSeq(Script(t, s)) /\ Len(Script(t, s)) = 1
         /\ Script(t, s)[1] = Exchange("client", Asks(Sample(s.supplied), "none", "POST"))
<1>1. Script(t, s) = Client(Sample(s.supplied), "none", "POST")
  BY Scripts, Zenon
<1>2. QED
  BY <1>1, OneClient, Zenon

(* The tests of a certificate, if it was supplied. *)
CertOf(t) == IF t = "Good" THEN "good" ELSE IF t = "Revoked" THEN "revoked" ELSE "foreign"

LEMMA CertExchange ==
  ASSUME NEW s \in SetupType, NEW t \in {"Good", "Revoked", "Unknown CA"}
  PROVE  /\ IsSeq(Script(t, s)) /\ Len(Script(t, s)) \in {0, 1}
         /\ \A i \in 1..Len(Script(t, s)) :
              Script(t, s)[i] = Exchange("client", Asks(CertOf(t), "valid", "POST"))
<1>1. Script(t, s) = ClientIf(CertOf(t), s.supplied)
  BY Scripts DEF CertOf
<1>3. PICK x : x = Exchange("client", Asks(CertOf(t), "valid", "POST"))
  OBVIOUS
<1>4. Script(t, s) = <<x>> \/ Script(t, s) = <<>>
  BY <1>1, <1>3, Zenon DEF ClientIf, Client
<1>5. QED
  BY <1>3, <1>4, Singles, Empty

LEMMA RepeatedExchange ==
  ASSUME NEW s \in SetupType, NEW t \in {"Latency", "Load", "Caching"}
  PROVE  /\ IsSeq(Script(t, s))
         /\ \A i \in 1..Len(Script(t, s)) : \E method \in {"GET", "POST"} :
              Script(t, s)[i] = Exchange("client", Asks(Sample(s.supplied), "none", method))
<1>1. PICK n \in Nat, method \in {"GET", "POST"} :
        Script(t, s) = Times(n, Client(Sample(s.supplied), "none", method)[1])
  BY Scripts, SetupFacts
<1>2. PICK x : x = Exchange("client", Asks(Sample(s.supplied), "none", method))
  OBVIOUS
<1>3. x \in {x}
  OBVIOUS
<1>4. Client(Sample(s.supplied), "none", method)[1] = x
  BY <1>2 DEF Client
<1>5. Script(t, s) = Times(n, x)
  BY <1>1, <1>4
<1>6. /\ Times(n, x) \in Seq({x}) /\ Len(Times(n, x)) = n
      /\ \A i \in 1..n : Times(n, x)[i] = x
  BY <1>3, TimesFacts
<1>7. QED
  BY <1>2, <1>5, <1>6 DEF IsSeq

IsJoin(h, f, g) == h = f \o g

LEMMA Joined ==
  ASSUME NEW f, NEW g, NEW h, IsSeq(f), IsSeq(g), IsJoin(h, f, g)
  PROVE  /\ IsSeq(h) /\ Len(h) = Len(f) + Len(g)
         /\ Len(f) \in Nat /\ Len(g) \in Nat
         /\ \A i \in 1..Len(f) : h[i] = f[i]
         /\ \A i \in 1..Len(g) : h[Len(f) + i] = g[i]
<1>1. PICK S, T : f \in Seq(S) /\ g \in Seq(T)
  BY DEF IsSeq
<1>2. f \in Seq(S \cup T) /\ g \in Seq(S \cup T)
  BY <1>1
<1>3. QED
  BY <1>2 DEF IsSeq, IsJoin

LEMMA Pairs ==
  ASSUME NEW x, NEW y
  PROVE  IsSeq(<<x, y>>) /\ Len(<<x, y>>) = 2 /\ <<x, y>>[1] = x /\ <<x, y>>[2] = y
<1>1. PICK S : x \in S /\ y \in S
  <2>1. x \in {x, y} /\ y \in {x, y}
    OBVIOUS
  <2>2. QED
    BY <2>1
<1>2. <<x, y>> \in Seq(S)
  BY <1>1
<1>3. QED
  BY <1>2 DEF IsSeq

LEMMA Triples ==
  ASSUME NEW x, NEW y, NEW z
  PROVE  /\ IsSeq(<<x, y, z>>) /\ Len(<<x, y, z>>) = 3
         /\ <<x, y, z>>[1] = x /\ <<x, y, z>>[2] = y /\ <<x, y, z>>[3] = z
<1>1. PICK S : x \in S /\ y \in S /\ z \in S
  <2>1. x \in {x, y, z} /\ y \in {x, y, z} /\ z \in {x, y, z}
    OBVIOUS
  <2>2. QED
    BY <2>1
<1>2. <<x, y, z>> \in Seq(S)
  BY <1>1
<1>3. QED
  BY <1>2 DEF IsSeq

LEMMA MalformedScript ==
  ASSUME NEW s \in SetupType
  PROVE  /\ IsSeq(Script("Malformed", s)) /\ Len(Script("Malformed", s)) = 3
         /\ Script("Malformed", s)[1] = Exchange("client", Asks(Sample(s.supplied), "zero", "POST"))
         /\ Script("Malformed", s)[2] =
              Exchange("client", Asks(Sample(s.supplied), "overlong", "POST"))
         /\ Script("Malformed", s)[3] = Exchange("post", Malformed("truncated"))
<1>1. PICK x, y, z : /\ x = Exchange("client", Asks(Sample(s.supplied), "zero", "POST"))
                     /\ y = Exchange("client", Asks(Sample(s.supplied), "overlong", "POST"))
                     /\ z = Exchange("post", Malformed("truncated"))
  OBVIOUS
<1>2. Script("Malformed", s) = <<x>> \o <<y>> \o <<z>>
  BY <1>1, Scripts, Clients
<1>3. PICK f, g, h : f = <<x>> /\ g = <<y>> /\ h = <<z>>
  OBVIOUS
<1>4. /\ IsSeq(f) /\ Len(f) = 1 /\ f[1] = x /\ IsSeq(g) /\ Len(g) = 1 /\ g[1] = y
      /\ IsSeq(h) /\ Len(h) = 1 /\ h[1] = z
  BY <1>3, Singles
<1>5. PICK p : IsJoin(p, f, g)
  BY DEF IsJoin
<1>6. IsSeq(p) /\ Len(p) = 2 /\ p[1] = x /\ p[2] = y
  <2>0. IsSeq(f) /\ IsSeq(g) /\ IsJoin(p, f, g)
    BY <1>4, <1>5
  <2>1. /\ IsSeq(p) /\ Len(p) = Len(f) + Len(g) /\ Len(f) \in Nat /\ Len(g) \in Nat
        /\ \A i \in 1..Len(f) : p[i] = f[i]
        /\ \A i \in 1..Len(g) : p[Len(f) + i] = g[i]
    BY ONLY <2>0, Joined
  <2>2. 1 \in 1..Len(f) /\ 1 \in 1..Len(g) /\ Len(f) + 1 = 2 /\ Len(f) + Len(g) = 2
    BY <1>4
  <2>3. QED
    BY <1>4, <2>1, <2>2
<1>7. PICK w : IsJoin(w, p, h)
  BY DEF IsJoin
<1>8. IsSeq(w) /\ Len(w) = 3 /\ w[1] = x /\ w[2] = y /\ w[3] = z
  <2>0. IsSeq(p) /\ IsSeq(h) /\ IsJoin(w, p, h)
    BY <1>4, <1>6, <1>7
  <2>1. /\ IsSeq(w) /\ Len(w) = Len(p) + Len(h) /\ Len(p) \in Nat /\ Len(h) \in Nat
        /\ \A i \in 1..Len(p) : w[i] = p[i]
        /\ \A i \in 1..Len(h) : w[Len(p) + i] = h[i]
    BY ONLY <2>0, Joined
  <2>2. /\ 1 \in 1..Len(p) /\ 2 \in 1..Len(p) /\ 1 \in 1..Len(h) /\ Len(p) + 1 = 3
        /\ Len(p) + Len(h) = 3
    BY <1>4, <1>6
  <2>3. QED
    BY <1>4, <1>6, <2>1, <2>2
<1>9. Script("Malformed", s) = w
  BY <1>2, <1>3, <1>5, <1>7 DEF IsJoin
<1>10. QED
  BY <1>1, <1>8, <1>9

LEMMA OperationalScript ==
  ASSUME NEW s \in SetupType
  PROVE  /\ IsSeq(Script("Operational", s)) /\ Len(Script("Operational", s)) >= 3
         /\ Script("Operational", s)[1] = Exchange("post", Malformed("garbage"))
         /\ Script("Operational", s)[2] = Local /\ Script("Operational", s)[3] = Local
         /\ \A i \in 4..Len(Script("Operational", s)) :
              Script("Operational", s)[i] = Text("issuer", "valid")
<1>1. PICK x, y, w : /\ x = Exchange("post", Malformed("garbage")) /\ y = Local
                     /\ w = Text("issuer", "valid")
  OBVIOUS
<1>2. PICK f, g : f = <<x, y, y>> /\ g = Times(OverloadRequests, w)
  OBVIOUS
<1>3. w \in {w}
  OBVIOUS
<1>4. IsSeq(g) /\ \A i \in 1..Len(g) : g[i] = w
  BY <1>2, <1>3, TimesFacts, MonitorAssumption DEF IsSeq
<1>5. IsSeq(f) /\ Len(f) = 3 /\ f[1] = x /\ f[2] = y /\ f[3] = y
  BY <1>2, Triples
<1>6. PICK h : IsJoin(h, f, g)
  BY DEF IsJoin
<1>7. Script("Operational", s) = h
  BY <1>1, <1>2, <1>6, Scripts DEF OperationalErrorSignaling, IsJoin
<1>8. /\ IsSeq(h) /\ Len(h) = 3 + Len(g) /\ Len(g) \in Nat
      /\ \A i \in 1..3 : h[i] = f[i]
      /\ \A i \in 1..Len(g) : h[3 + i] = g[i]
  <2>0. IsSeq(f) /\ IsSeq(g) /\ IsJoin(h, f, g)
    BY <1>4, <1>5, <1>6
  <2>1. /\ IsSeq(h) /\ Len(h) = Len(f) + Len(g) /\ Len(f) \in Nat /\ Len(g) \in Nat
        /\ \A i \in 1..Len(f) : h[i] = f[i]
        /\ \A i \in 1..Len(g) : h[Len(f) + i] = g[i]
    BY ONLY <2>0, Joined
  <2>2. QED
    BY <1>5, <2>1
<1>9. ASSUME NEW i \in 4..Len(h) PROVE h[i] = w
  <2>1. i - 3 \in 1..Len(g) /\ 3 + (i - 3) = i
    BY <1>8
  <2>2. QED
    BY <1>4, <1>8, <2>1
<1>10. h[1] = f[1] /\ h[2] = f[2] /\ h[3] = f[3] /\ Len(h) >= 3
  BY <1>8
<1>11. QED
  BY <1>1, <1>5, <1>6, <1>7, <1>8, <1>9, <1>10

LEMMA UnauthorizedScript ==
  ASSUME NEW s \in SetupType
  PROVE  /\ IsSeq(Script("Unauthorized", s)) /\ Len(Script("Unauthorized", s)) = 3
         /\ \A i \in 1..3 : Script("Unauthorized", s)[i] = Local
<1>1. Script("Unauthorized", s) = <<Local, Local, Local>>
  BY Scripts DEF UnauthorizedQueryHandling
<1>2. \A i \in 1..3 : i = 1 \/ i = 2 \/ i = 3
  OBVIOUS
<1>3. QED
  BY <1>1, <1>2, Triples

LEMMA SigRequiredScript ==
  ASSUME NEW s \in SetupType
  PROVE  /\ IsSeq(Script("SigRequired", s)) /\ Len(Script("SigRequired", s)) = 2
         /\ Script("SigRequired", s)[1] = Local
         /\ Script("SigRequired", s)[2] = Exchange("post", Asks("issuer", "valid", "POST"))
<1>1. Script("SigRequired", s) = <<Local, Exchange("post", Asks("issuer", "valid", "POST"))>>
  BY Scripts DEF SigrequiredValidation
<1>2. QED
  BY <1>1, Pairs

LEMMA NonceScript ==
  ASSUME NEW s \in SetupType
  PROVE  /\ IsSeq(Script("Nonce echo", s))
         /\ \A i \in 1..Len(Script("Nonce echo", s)) :
              Script("Nonce echo", s)[i] = Text("issuer", IF i = 2 THEN "none" ELSE "valid")
<1>1. PICK x, y : x = Text("issuer", "valid") /\ y = Text("issuer", "none")
  OBVIOUS
<1>2. PICK f, g : f = <<x, y>> /\ g = Times(NonceRequests, x)
  OBVIOUS
<1>3. x \in {x}
  OBVIOUS
<1>4. IsSeq(g) /\ \A i \in 1..Len(g) : g[i] = x
  BY <1>2, <1>3, TimesFacts, MonitorAssumption DEF IsSeq
<1>5. IsSeq(f) /\ Len(f) = 2 /\ f[1] = x /\ f[2] = y
  BY <1>2, Pairs
<1>6. PICK h : IsJoin(h, f, g)
  BY DEF IsJoin
<1>7. Script("Nonce echo", s) = h \/ Script("Nonce echo", s) = <<>>
  BY <1>1, <1>2, <1>6, Scripts, Zenon DEF NonceEchoValidation, IsJoin
<1>8. /\ IsSeq(h) /\ Len(h) = 2 + Len(g) /\ Len(g) \in Nat
      /\ \A i \in 1..2 : h[i] = f[i]
      /\ \A i \in 1..Len(g) : h[2 + i] = g[i]
  <2>0. IsSeq(f) /\ IsSeq(g) /\ IsJoin(h, f, g)
    BY <1>4, <1>5, <1>6
  <2>1. /\ IsSeq(h) /\ Len(h) = Len(f) + Len(g) /\ Len(f) \in Nat /\ Len(g) \in Nat
        /\ \A i \in 1..Len(f) : h[i] = f[i]
        /\ \A i \in 1..Len(g) : h[Len(f) + i] = g[i]
    BY ONLY <2>0, Joined
  <2>2. QED
    BY <1>5, <2>1
<1>9. ASSUME NEW i \in 3..Len(h) PROVE h[i] = x
  <2>1. i - 2 \in 1..Len(g) /\ 2 + (i - 2) = i
    BY <1>8
  <2>2. QED
    BY <1>4, <1>8, <2>1
<1>10. h[1] = x /\ h[2] = y
  BY <1>5, <1>8
<1>11. \A i \in 1..Len(h) : i = 1 \/ i = 2 \/ (i \in 3..Len(h) /\ i # 2)
  BY <1>8
<1>12. \A i \in 1..Len(h) : h[i] = Text("issuer", IF i = 2 THEN "none" ELSE "valid")
  <2>1. 1 # 2
    OBVIOUS
  <2>2. QED
    BY <1>1, <1>9, <1>10, <1>11, <2>1
<1>13. QED
  BY <1>7, <1>8, <1>12, Empty

LEMMA TextScript ==
  ASSUME NEW s \in SetupType, NEW t \in {"Preference", "Signer signature"}
  PROVE  /\ IsSeq(Script(t, s)) /\ Len(Script(t, s)) = 1
         /\ \E cert : Script(t, s)[1] = Text(cert, "valid")
         /\ t = "Preference" => Script(t, s)[1] = Text("issuer", "valid")
<1>1. PICK cert : /\ Script(t, s) = <<Text(cert, "valid")>>
                  /\ t = "Preference" => cert = "issuer"
  BY Scripts DEF CryptographicPreference
<1>2. QED
  BY <1>1, Singles

LEMMA ScriptType ==
  ASSUME NEW s \in SetupType, NEW t
  PROVE  IsSeq(Script(t, s))
<1>1. CASE t \notin Scripted
  BY <1>1, NoScript, Empty
<1>2. CASE t \in Scripted
  BY <1>2, TransportScript, PlainScript, CertExchange, RepeatedExchange, MalformedScript, OperationalScript,
     UnauthorizedScript, SigRequiredScript, NonceScript, TextScript DEF Scripted
<1>3. QED
  BY <1>1, <1>2
-----------------------------------------------------------------------------
Checks == {"Revocation", "Consistency"}

Reported(t, s) == \E i \in DOMAIN results : results[i].test = t /\ results[i].status = s

(* Each step of a CRL test is taken in a test that has it. *)
StageInv ==
  /\ setup \in Setups
  /\ pc \in {"start", "next", "script", "try", "discover", "fetch", "read", "head", "ocsp", "get"}
  /\ pc \notin {"start", "next"} => ~Ended
  /\ pc = "script" => ~CrlHere
  /\ pc \in {"try", "discover", "fetch"} => Test \in Seekers
  /\ pc = "head" => Test = "Accessibility"
  /\ pc = "ocsp" => Test = "Consistency"
  /\ pc = "get" => Test \in Checks
  /\ pc = "read" => Test \in Seekers \cup Checks
  /\ pc \notin {"start", "next"} => Test \in setup.selected
  /\ turn \in Nat \ {0}
  /\ \E S : results \in Seq(S)

(* A file is there for the check at work, or was left by one without URLs. *)
TempInv ==
  \A t \in temp : /\ t \in Checks
                  /\ \/ pc \in {"ocsp", "get", "read"} /\ Test = t
                     \/ CheckUrl = <<>> /\ Reported(t, "SKIP")

(* One more report. *)
LEMMA ReportFacts ==
  ASSUME StageInv, NEW status, Report(status)
  PROVE  /\ \E S : results' \in Seq(S)
         /\ \A t, s : Reported(t, s)' <=> Reported(t, s) \/ (t = Test /\ s = status)
         /\ pc' = "next"
<1> DEFINE n == Len(results)
           r == [test |-> Test, status |-> status]
<1>1. PICK S : results \in Seq(S)
  BY DEF StageInv
<1>2. results' = Append(results, r) /\ results \in Seq(S \cup {r}) /\ r \in S \cup {r}
  BY <1>1 DEF Report
<1>3. r.test = Test /\ r.status = status
  OBVIOUS
<1> HIDE DEF r
<1>4. /\ results' \in Seq(S \cup {r}) /\ n \in Nat /\ DOMAIN results = 1..n
      /\ DOMAIN results' = 1..(n + 1) /\ results'[n + 1] = r
      /\ \A i \in 1..n : results'[i] = results[i]
  BY <1>2
<1> HIDE DEF n
<1>5. ASSUME NEW t, NEW s PROVE Reported(t, s)' <=> Reported(t, s) \/ (t = Test /\ s = status)
  <2>1. Reported(t, s) <=> \E i \in 1..n : results[i].test = t /\ results[i].status = s
    BY <1>4 DEF Reported
  <2>2. Reported(t, s)' <=> \E i \in 1..(n + 1) : results'[i].test = t /\ results'[i].status = s
    BY <1>4 DEF Reported
  <2>3. \A i \in 1..(n + 1) : i \in 1..n \/ i = n + 1
    BY <1>4
  <2>4. (\A i \in 1..n : i \in 1..(n + 1)) /\ n + 1 \in 1..(n + 1)
    BY <1>4
  <2>5. QED
    BY <1>3, <1>4, <2>1, <2>2, <2>3, <2>4
<1>6. QED
  BY <1>4, <1>5 DEF Report

(* While the run and the test are the same, so is all that they determine. *)
LEMMA SameTest ==
  ASSUME UNCHANGED <<setup, turn>>
  PROVE  Test' = Test /\ TestOrder' = TestOrder /\ Ended' = Ended /\ CrlHere' = CrlHere
<1>1. TestOrder' = TestOrder
  BY DEF TestOrder
<1>2. QED
  BY <1>1 DEF Test, Ended, CrlHere

(* The shape of every step: it reports the test at hand, passes over it,   *)
(* or goes on with it.                                                     *)
Stays == UNCHANGED <<setup, turn, results>>

LEMMA StepShape ==
  ASSUME StageInv, Next
  PROVE  /\ UNCHANGED setup
         /\ \/ \E status : Report(status)
            \/ Stays
            \/ pc = "next" /\ pc' = "next" /\ UNCHANGED <<results, temp, sent, notes>>
<1>1. CASE OcspSteps
  <2>1. CASE Start
    BY <2>1 DEF Start, Stays
  <2>2. CASE SkipTest
    BY <2>2 DEF SkipTest, crlVars
  <2>3. CASE BeginScript
    BY <2>3 DEF BeginScript, Stays
  <2>4. CASE ExchangeStep
    BY <2>4 DEF ExchangeStep, Stays
  <2>5. CASE Judge
    BY <2>5 DEF Judge, ReportHere
  <2>6. QED
    BY <1>1, <2>1, <2>2, <2>3, <2>4, <2>5 DEF OcspSteps
<1>2. CASE Extract \/ BeginSeek \/ TryUrl \/ Discover \/ Fetch \/ Read
  <2>1. CASE Extract
    BY <2>1 DEF Extract, ReportHere
  <2>2. CASE BeginSeek
    BY <2>2 DEF BeginSeek, ReportHere, CrlStep, Stays
  <2>3. CASE TryUrl
    BY <2>3 DEF TryUrl, NextUrl, FoundAt, ReportHere, CrlStep, Stays
  <2>4. CASE Discover
    BY <2>4 DEF Discover, NextUrl, FoundAt, ReportHere, CrlStep, Stays
  <2>5. CASE Fetch
    BY <2>5 DEF Fetch, ReportHere, CrlStep, Stays
  <2>6. CASE Read
    BY <2>6 DEF Read, ReportHere
  <2>7. QED
    BY <1>2, <2>1, <2>2, <2>3, <2>4, <2>5, <2>6
<1>3. CASE BeginAccessibility \/ Head200
  BY <1>3 DEF BeginAccessibility, Head200, ReportHere, CrlStep, Stays
<1>4. CASE BeginCheck \/ AskStatus \/ GetCrl \/ ReadCheck \/ FetchConfigured
  BY <1>4 DEF BeginCheck, AskStatus, GetCrl, ReadCheck, FetchConfigured, ReportHere, ReportCheck,
              CrlStep, Stays
<1>5. QED
  BY <1>1, <1>2, <1>3, <1>4 DEF Next, CrlSteps

LEMMA StageInit == Init => StageInv /\ TempInv
<1> SUFFICES ASSUME Init PROVE StageInv /\ TempInv
  OBVIOUS
<1>1. <<>> \in Seq({})
  OBVIOUS
<1>2. QED
  BY <1>1 DEF Init, StageInv, TempInv

LEMMA SameSetup ==
  ASSUME UNCHANGED setup
  PROVE  /\ CheckUrl' = CheckUrl /\ HasTestCert' = HasTestCert /\ CertUrls' = CertUrls
         /\ UrlsToTry' = UrlsToTry /\ TestOrder' = TestOrder /\ Override' = Override
  BY DEF CheckUrl, HasTestCert, CertUrls, UrlsToTry, TestOrder, Override

(* One report leaves nothing of the stage behind. *)
LEMMA ReportStage ==
  ASSUME StageInv, UNCHANGED setup, NEW status, Report(status)
  PROVE  StageInv'
<1>1. pc' = "next" /\ turn' = turn + 1 /\ \E S : results' \in Seq(S)
  BY ReportFacts DEF Report
<1>2. QED
  BY <1>1 DEF StageInv

LEMMA StageStep ==
  ASSUME StageInv, [Next]_vars
  PROVE  StageInv'
<1>1. CASE UNCHANGED vars
  <2>1. UNCHANGED <<setup, turn, pc, results>>
    BY <1>1 DEF vars
  <2>2. QED
    BY <2>1, SameTest DEF StageInv
<1>2. CASE Next /\ \E status : Report(status)
  BY <1>2, StepShape, ReportStage
<1>3. CASE Next /\ pc = "next" /\ pc' = "next" /\ UNCHANGED results
  <2>1. UNCHANGED setup
    BY <1>3, StepShape
  <2>2. turn' \in {turn, turn + 1}
    BY <1>3 DEF Next, OcspSteps, CrlSteps, Start, SkipTest, BeginScript, ExchangeStep, Judge,
                ReportHere, Report, Extract, BeginSeek, TryUrl, Discover, Fetch, Read, CrlStep,
                BeginAccessibility, Head200, BeginCheck, AskStatus, GetCrl, ReadCheck,
                FetchConfigured
  <2>3. QED
    BY <1>3, <2>1, <2>2 DEF StageInv
<1>4. CASE Next /\ Stays
  <2>1. /\ UNCHANGED <<setup, turn, results>> /\ Test' = Test /\ Ended' = Ended
        /\ CrlHere' = CrlHere
    BY <1>4, SameTest DEF Stays
  <2>2. CASE Start
    BY <2>1, <2>2 DEF Start, StageInv
  <2>3. CASE SkipTest
    BY <2>1, <2>3 DEF SkipTest, StageInv
  <2>4. CASE BeginScript
    BY <2>1, <2>4 DEF BeginScript, StageInv
  <2>5. CASE ExchangeStep
    BY <2>1, <2>5 DEF ExchangeStep, StageInv
  <2>6. CASE Judge \/ Extract \/ Read \/ ReadCheck \/ FetchConfigured
    BY <2>1, <2>6 DEF Judge, Extract, Read, ReadCheck, FetchConfigured, ReportHere, ReportCheck,
                      Report, StageInv
  <2>7. CASE BeginSeek
    BY <2>1, <2>7 DEF BeginSeek, ReportHere, Report, CrlStep, StageInv, Seekers
  <2>8. CASE TryUrl \/ Discover
    BY <2>1, <2>8 DEF TryUrl, Discover, NextUrl, FoundAt, ReportHere, Report, CrlStep, StageInv
  <2>9. CASE Fetch
    BY <2>1, <2>9 DEF Fetch, ReportHere, Report, CrlStep, StageInv
  <2>10. CASE BeginAccessibility \/ Head200
    BY <2>1, <2>10 DEF BeginAccessibility, Head200, ReportHere, Report, CrlStep, StageInv
  <2>11. CASE BeginCheck
    BY <2>1, <2>11 DEF BeginCheck, ReportHere, Report, CrlStep, StageInv, Checks
  <2>12. CASE AskStatus
    BY <2>1, <2>12 DEF AskStatus, Report, StageInv, Checks
  <2>13. CASE GetCrl
    BY <2>1, <2>13 DEF GetCrl, ReportCheck, Report, CrlStep, StageInv
  <2>14. QED
    BY <1>4, <2>2, <2>3, <2>4, <2>5, <2>6, <2>7, <2>8, <2>9, <2>10, <2>11, <2>12, <2>13
       DEF Next, OcspSteps, CrlSteps
<1>5. QED
  BY <1>1, <1>2, <1>3, <1>4, StepShape

LEMMA ReportedStays ==
  ASSUME StageInv, Next, NEW t, NEW s, Reported(t, s)
  PROVE  Reported(t, s)'
<1>1. CASE \E status : Report(status)
  BY <1>1, ReportFacts
<1>2. CASE UNCHANGED results
  BY <1>2 DEF Reported
<1>3. QED
  BY <1>1, <1>2, StepShape DEF Stays

(* What a check at work does next. *)
LEMMA CheckMoves ==
  ASSUME StageInv, Next, Test \in Checks, pc \in {"ocsp", "get", "read"}
  PROVE  \/ temp' = temp \ {Test}
         \/ UNCHANGED <<setup, turn, temp>> /\ pc' \in {"get", "read"}
<1>1. ~Read
  BY DEF Read, Seekers, Checks
<1>2. AskStatus \/ GetCrl \/ ReadCheck
  BY <1>1 DEF Next, OcspSteps, CrlSteps, Start, SkipTest, BeginScript, ExchangeStep, Judge, Extract,
              BeginSeek, TryUrl, Discover, Fetch, BeginAccessibility, Head200, BeginCheck,
              FetchConfigured
<1>3. QED
  BY <1>2 DEF AskStatus, GetCrl, ReadCheck, ReportCheck, CrlStep, crlVars

LEMMA TempStep ==
  ASSUME StageInv, TempInv, [Next]_vars
  PROVE  TempInv'
<1>1. CASE UNCHANGED vars
  <2>1. UNCHANGED <<setup, turn, pc, results, temp>> /\ CheckUrl' = CheckUrl /\ Test' = Test
    BY <1>1, SameSetup, SameTest DEF vars, crlVars
  <2>2. \A t, s : Reported(t, s)' <=> Reported(t, s)
    BY <2>1 DEF Reported
  <2>3. QED
    BY <2>1, <2>2 DEF TempInv
<1>2. CASE Next
  <2>1. UNCHANGED setup /\ CheckUrl' = CheckUrl
    BY <1>2, StepShape, SameSetup
  <2>2. SUFFICES ASSUME NEW t \in temp'
                 PROVE  /\ t \in Checks
                        /\ \/ pc' \in {"ocsp", "get", "read"} /\ Test' = t
                           \/ CheckUrl = <<>> /\ Reported(t, "SKIP")'
    BY <2>1 DEF TempInv
  <2>3. CASE t \in temp /\ CheckUrl = <<>> /\ Reported(t, "SKIP")
    BY <1>2, <2>3, ReportedStays DEF TempInv
  <2>4. CASE t \in temp /\ pc \in {"ocsp", "get", "read"} /\ Test = t
    <3>1. t \in Checks
      BY <2>4 DEF TempInv
    <3>2. UNCHANGED <<setup, turn, temp>> /\ pc' \in {"get", "read"}
      BY <1>2, <2>4, <3>1, CheckMoves
    <3>3. QED
      BY <2>4, <3>1, <3>2, SameTest
  <2>5. CASE t \notin temp
    <3>1. BeginCheck
      BY <1>2, <2>5 DEF Next, OcspSteps, CrlSteps, Start, SkipTest, BeginScript, ExchangeStep, Judge,
              ReportHere, Extract, BeginSeek, TryUrl, Discover, Fetch, Read, BeginAccessibility,
              Head200, AskStatus, GetCrl, ReadCheck, ReportCheck, FetchConfigured, NextUrl, FoundAt,
              crlVars
    <3>2. t = Test /\ t \in Checks
      BY <2>5, <3>1 DEF BeginCheck, ReportHere, Checks
    <3>3. CASE CheckUrl = <<>>
      <4>1. Report("SKIP")
        BY <2>5, <3>1, <3>3 DEF BeginCheck, ReportHere
      <4>2. QED
        BY <3>2, <3>3, <4>1, ReportFacts
    <3>4. CASE CheckUrl # <<>>
      <4>1. UNCHANGED <<setup, turn>> /\ pc' \in {"ocsp", "get"}
        BY <2>5, <3>1, <3>4 DEF BeginCheck, ReportHere, CrlStep
      <4>2. QED
        BY <3>2, <4>1, SameTest
    <3>5. QED
      BY <3>3, <3>4
  <2>6. QED
    BY <2>3, <2>4, <2>5 DEF TempInv
<1>3. QED
  BY <1>1, <1>2

(* Every step of the engine is taken in a test that has it, with the file  *)
(* of a check in place from its beginning to its report.                   *)
THEOREM SuitesInvariance == Spec => [](StageInv /\ TempInv)
<1>1. Init => StageInv /\ TempInv
  BY StageInit
<1>2. StageInv /\ TempInv /\ [Next]_vars => (StageInv /\ TempInv)'
  BY StageStep, TempStep
<1>3. QED
  BY <1>1, <1>2, PTL DEF Spec

(* No path through the two checks leaves temp_cert behind, except the one  *)
(* without a URL of a CRL.                                                 *)
THEOREM TempCertIsRemoved == Spec => []TempCertRemoved
<1>1. StageInv /\ TempInv => TempCertRemoved
  <2> SUFFICES ASSUME StageInv, TempInv, NEW t \in temp
               PROVE  (~Ended /\ Test = t) \/ (CheckUrl = <<>> /\ "SKIP" \in StatusesOf(t))
    BY DEF TempCertRemoved
  <2>1. Reported(t, "SKIP") => "SKIP" \in StatusesOf(t)
    BY DEF Reported, StatusesOf
  <2>2. QED
    BY <2>1 DEF StageInv, TempInv
<1>2. QED
  BY <1>1, SuitesInvariance, PTL
-----------------------------------------------------------------------------
(* The requests of the exact tests *)

LEMMA UrlsAreNoTests ==
  ASSUME NEW t \in Urls
  PROVE  /\ ~Among(t, ProtocolTests) /\ ~Among(t, StatusTests) /\ ~Among(t, ResponseTests)
         /\ ~Among(t, SecurityTests) /\ ~Among(t, PerformanceTests) /\ ~Among(t, CrlTests)
         /\ ~Among(t, FederalTests) /\ ~Among(t, Ikev2Tests)
<1>1. t \notin TestNames
  BY SuitesAssumption
<1>2. QED
  BY <1>1, Zenon DEF TestNames, Among

(* The notes of a script, one for each exchange so far. *)
NotesInv ==
  /\ IsSeq(notes)
  /\ pc \in {"start", "next", "ocsp"} => notes = <<>>
  /\ pc = "script" => Len(notes) <= Len(ScriptHere)

Exactly(e) ==
  /\ e.test \in {"GET", "POST"} => e.q.method = e.test
  /\ e.test = "Malformed" => e.q.nonce \in {"zero", "overlong"}

(* What a test has sent by its n-th note. *)
Sends(t, n) ==
  /\ t \in {"GET", "POST"} /\ n >= 1 => \E e \in sent : e.test = t
  /\ t = "Malformed" /\ n >= 1 => \E e \in sent : e.test = t /\ e.q.nonce = "zero"
  /\ t = "Malformed" /\ n >= 2 => \E e \in sent : e.test = t /\ e.q.nonce = "overlong"

ExactInv ==
  /\ \A e \in sent : Exactly(e)
  /\ pc = "script" => Sends(Test, Len(notes))
  /\ \A t, s : Reported(t, s) => Sends(t, 3)

LEMMA NotesInit == Init => NotesInv /\ ExactInv
<1> SUFFICES ASSUME Init PROVE NotesInv /\ ExactInv
  OBVIOUS
<1>1. \A t, s : ~Reported(t, s)
  BY DEF Init, Reported
<1>2. QED
  BY <1>1, Empty DEF Init, NotesInv, ExactInv

(* One more note. *)
LEMMA Noted ==
  ASSUME NotesInv, NEW x, notes' = Append(notes, x)
  PROVE  /\ IsSeq(notes') /\ Len(notes) \in Nat /\ Len(notes') = Len(notes) + 1
         /\ notes'[Len(notes) + 1] = x
         /\ \A i \in 1..Len(notes) : notes'[i] = notes[i]
         /\ DOMAIN notes' = 1..(Len(notes) + 1) /\ DOMAIN notes = 1..Len(notes)
<1>1. PICK S : notes \in Seq(S)
  BY DEF NotesInv, IsSeq
<1>2. PICK T : T = S \cup {x}
  OBVIOUS
<1>3. notes \in Seq(T) /\ x \in T
  BY <1>1, <1>2
<1>4. QED
  BY <1>3 DEF IsSeq

LEMMA SetupTyped ==
  ASSUME StageInv
  PROVE  setup \in SetupType
  BY SuitesAssumption DEF StageInv

LEMMA ScriptHereFacts ==
  ASSUME StageInv
  PROVE  IsSeq(ScriptHere) /\ Len(ScriptHere) \in Nat
<1>1. IsSeq(ScriptHere)
  BY SetupTyped, ScriptType DEF ScriptHere
<1>2. QED
  BY <1>1 DEF IsSeq

LEMMA SameScript ==
  ASSUME UNCHANGED <<setup, turn>>
  PROVE  ScriptHere' = ScriptHere
  BY SameTest DEF ScriptHere

(* A script begins, goes on, or ends; the other steps have none. *)
LEMMA ScriptMoves ==
  ASSUME StageInv, Next
  PROVE  \/ BeginScript \/ ExchangeStep \/ Judge
         \/ /\ pc' # "script" /\ pc # "script"
            /\ \/ UNCHANGED notes
               \/ notes' = <<>>
               \/ (pc' = "get" /\ \E x : notes' = <<x>>)
            /\ \/ sent' = sent
               \/ \E q : sent' = sent \cup {[test |-> "Consistency", q |-> q]}
<1>1. CASE Start \/ SkipTest
  BY <1>1 DEF Start, SkipTest
<1>2. CASE Extract \/ BeginSeek \/ TryUrl \/ Discover \/ Fetch \/ Read
  BY <1>2 DEF Extract, BeginSeek, TryUrl, Discover, Fetch, Read, NextUrl, FoundAt, ReportHere, Report,
              CrlStep
<1>3. CASE BeginAccessibility \/ Head200 \/ BeginCheck \/ GetCrl \/ ReadCheck \/ FetchConfigured
  BY <1>3 DEF BeginAccessibility, Head200, BeginCheck, GetCrl, ReadCheck, FetchConfigured,
              ReportHere, ReportCheck, Report, CrlStep
<1>4. CASE AskStatus
  <2>1. Test = "Consistency"
    BY <1>4 DEF AskStatus, StageInv
  <2>2. sent' = sent \/ \E q : sent' = sent \cup {[test |-> "Consistency", q |-> q]}
    BY <1>4, <2>1 DEF AskStatus, Send
  <2>3. QED
    BY <1>4, <2>2 DEF AskStatus, Report
<1>5. QED
  BY <1>1, <1>2, <1>3, <1>4 DEF Next, OcspSteps, CrlSteps

LEMMA NotesStep ==
  ASSUME StageInv, NotesInv, [Next]_vars
  PROVE  NotesInv'
<1>1. CASE UNCHANGED vars
  <2>1. UNCHANGED <<setup, turn, pc, notes>> /\ ScriptHere' = ScriptHere
    BY <1>1, SameScript DEF vars
  <2>2. QED
    BY <2>1 DEF NotesInv
<1>2. CASE BeginScript
  <2>1. notes' = <<>> /\ pc' = "script" /\ ScriptHere' = ScriptHere
    BY <1>2, SameScript DEF BeginScript, NotesInv
  <2>2. QED
    BY <2>1, Empty, ScriptHereFacts DEF NotesInv
<1>3. CASE ExchangeStep
  <2>1. /\ pc' = "script" /\ ScriptHere' = ScriptHere /\ Len(notes) < Len(ScriptHere)
        /\ \E x : notes' = Append(notes, x)
    BY <1>3, SameScript DEF ExchangeStep, More
  <2>2. IsSeq(notes') /\ Len(notes') = Len(notes) + 1 /\ Len(notes) \in Nat
    BY <2>1, Noted
  <2>3. Len(notes') <= Len(ScriptHere)
    BY <2>1, <2>2, ScriptHereFacts
  <2>4. QED
    BY <2>1, <2>2, <2>3 DEF NotesInv
<1>4. CASE Judge
  BY <1>4, Empty DEF Judge, ReportHere, Report, NotesInv
<1>5. CASE Next /\ pc' # "script" /\ (UNCHANGED notes \/ notes' = <<>> \/ (pc' = "get" /\ \E x : notes' = <<x>>))
  <2>1. IsSeq(notes')
    BY <1>5, Empty, Singles DEF NotesInv
  <2>2. pc' \in {"start", "next", "ocsp"} => notes' = <<>>
    <3>1. CASE notes' = <<>> \/ pc' = "get"
      BY <3>1
    <3>2. CASE pc \in {"start", "next", "ocsp"} /\ UNCHANGED notes
      BY <3>2 DEF NotesInv
    <3>3. CASE pc \notin {"start", "next", "ocsp"} /\ pc' # "get" /\ UNCHANGED notes
      <4>1. pc' \in {"start", "next", "ocsp"} => \E status : Report(status)
        BY <1>5, <3>3 DEF Next, OcspSteps, CrlSteps, Start, SkipTest, BeginScript, ExchangeStep, Judge,
              ReportHere, Extract, BeginSeek, TryUrl, Discover, Fetch, Read, BeginAccessibility,
              Head200, BeginCheck, AskStatus, GetCrl, ReadCheck, ReportCheck, FetchConfigured, NextUrl,
              FoundAt, CrlStep
      <4>2. QED
        BY <4>1 DEF Report
    <3>4. QED
      BY <1>5, <3>1, <3>2, <3>3
  <2>3. QED
    BY <1>5, <2>1, <2>2 DEF NotesInv
<1>6. QED
  BY <1>1, <1>2, <1>3, <1>4, <1>5, ScriptMoves

LEMMA SendsMore ==
  ASSUME sent \subseteq sent', NEW t, NEW n, Sends(t, n)
  PROVE  Sends(t, n)'
  BY DEF Sends

(* The test that asks the OCSP client in the i-th step of an exact script. *)
LEMMA ExactSend ==
  ASSUME StageInv, NotesInv, ExactInv, ExchangeStep
  PROVE  /\ sent \subseteq sent' /\ \A e \in sent' : Exactly(e)
         /\ \A n : n = Len(notes) + 1 => Sends(Test, n)'
<1>1. PICK i : i = Len(notes) + 1
  OBVIOUS
<1> SUFFICES /\ sent \subseteq sent' /\ \A e \in sent' : Exactly(e)
             /\ Sends(Test, i)'
  BY <1>1
<1>2. PICK x : x = ScriptHere[i]
  OBVIOUS
<1>3. i \in 1..Len(ScriptHere) /\ Len(notes) \in Nat
  <2>1. Len(notes) \in Nat
    BY DEF NotesInv, IsSeq
  <2>2. Len(notes) < Len(ScriptHere)
    BY DEF ExchangeStep, More
  <2>3. QED
    BY <1>1, <2>1, <2>2, ScriptHereFacts
<1>4. PICK q : q = Overridden(x.q, Module(Test), setup.runtime)
  OBVIOUS
<1>5. PICK e : e = [test |-> Test, q |-> q]
  OBVIOUS
<1>6. sent' = IF x.via = "client" THEN sent \cup {e} ELSE sent
  BY <1>1, <1>2, <1>4, <1>5 DEF ExchangeStep, Send
<1>7. e.test = Test /\ e.q = q
  BY <1>5
<1>8. Test' = Test
  BY SameTest DEF ExchangeStep
<1>9. CASE Test \in {"GET", "POST"}
  <2>1. /\ Len(ScriptHere) = 1
        /\ ScriptHere[1] = Exchange("client", Asks(Sample(setup.supplied), "valid", Test))
    BY <1>9, TransportScript DEF ScriptHere
  <2>2. x.via = "client" /\ x.q.method = Test
    <3>1. i = 1
      BY <1>3, <2>1
    <3>2. QED
      BY <1>2, <2>1, <3>1 DEF Exchange, Asks
  <2>3. q = x.q
    BY <1>4, <1>9, Modules DEF Overridden
  <2>4. sent' = sent \cup {e}
    BY <1>6, <2>2
  <2>5. Exactly(e)
    BY <1>7, <1>9, <2>2, <2>3 DEF Exactly
  <2>6. Sends(Test, i)'
    BY <1>7, <1>8, <1>9, <2>4 DEF Sends
  <2>7. QED
    BY <2>4, <2>5, <2>6 DEF ExactInv
<1>10. CASE Test = "Malformed"
  <2>1. /\ Len(ScriptHere) = 3
        /\ i = 1 => x = Exchange("client", Asks(Sample(setup.supplied), "zero", "POST"))
        /\ i = 2 => x = Exchange("client", Asks(Sample(setup.supplied), "overlong", "POST"))
        /\ i = 3 => x = Exchange("post", Malformed("truncated"))
    BY <1>1, <1>2, <1>3, <1>10, MalformedScript, SetupTyped DEF ScriptHere
  <2>2. q = x.q
    BY <1>4, <1>10, Modules DEF Overridden
  <2>3. Sends("Malformed", Len(notes))
    BY <1>10 DEF ExactInv, ExchangeStep
  <2>4. CASE i = 1
    <3>1. x.via = "client" /\ x.q.nonce = "zero"
      BY <2>1, <2>4 DEF Exchange, Asks
    <3>2. Exactly(e) /\ sent' = sent \cup {e}
      BY <1>6, <1>7, <1>10, <2>2, <3>1 DEF Exactly
    <3>3. Sends("Malformed", 1)'
      BY <1>7, <1>10, <2>2, <3>1, <3>2 DEF Sends
    <3>4. QED
      BY <1>8, <1>10, <2>4, <3>2, <3>3 DEF ExactInv
  <2>5. CASE i = 2
    <3>1. x.via = "client" /\ x.q.nonce = "overlong"
      BY <2>1, <2>5 DEF Exchange, Asks
    <3>2. Exactly(e) /\ sent' = sent \cup {e}
      BY <1>6, <1>7, <1>10, <2>2, <3>1 DEF Exactly
    <3>3. Len(notes) = 1
      BY <1>1, <1>3, <2>5
    <3>4. Sends("Malformed", 2)'
      BY <1>7, <1>10, <2>2, <2>3, <3>1, <3>2, <3>3 DEF Sends
    <3>5. QED
      BY <1>8, <1>10, <2>5, <3>2, <3>4 DEF ExactInv
  <2>6. CASE i = 3
    <3>1. x.via = "post"
      BY <2>1, <2>6 DEF Exchange
    <3>2. sent' = sent
      BY <1>6, <3>1
    <3>3. Len(notes) = 2
      <4>1. Len(notes) = i - 1
        BY <1>1, <1>3
      <4>2. QED
        BY <2>6, <4>1
    <3>4. Sends("Malformed", 3)'
      BY <2>3, <3>2, <3>3 DEF Sends
    <3>5. QED
      BY <1>8, <1>10, <2>6, <3>2, <3>4 DEF ExactInv
  <2>7. i \in {1, 2, 3}
    BY <1>3, <2>1
  <2>8. QED
    BY <2>4, <2>5, <2>6, <2>7
<1>11. CASE Test \notin {"GET", "POST", "Malformed"}
  <2>1. Exactly(e)
    BY <1>7, <1>11 DEF Exactly
  <2>2. Sends(Test, i)'
    BY <1>8, <1>11 DEF Sends
  <2>3. QED
    BY <1>6, <2>1, <2>2 DEF ExactInv
<1>12. QED
  BY <1>9, <1>10, <1>11

(* A report of an exact test comes after all of its requests. *)
LEMMA ExactJudge ==
  ASSUME StageInv, NotesInv, ExactInv, Judge
  PROVE  Sends(Test, 3)
<1>1. Sends(Test, Len(notes)) /\ Len(notes) \in Nat
  BY DEF ExactInv, Judge, NotesInv, IsSeq
<1>2. CASE Test \in {"GET", "POST", "Malformed"}
  <2>1. ~Broken(Test, notes)
    BY <1>2 DEF Broken
  <2>2. Len(notes) >= Len(ScriptHere)
    BY <1>1, <2>1, ScriptHereFacts DEF Judge, More
  <2>3. Test \in {"GET", "POST"} => Len(ScriptHere) = 1
    BY TransportScript DEF ScriptHere
  <2>4. Test = "Malformed" => Len(ScriptHere) = 3
    BY MalformedScript, SetupTyped DEF ScriptHere
  <2>5. Test \in {"GET", "POST"} => Len(notes) >= 1
    BY <1>1, <2>2, <2>3
  <2>6. Test = "Malformed" => Len(notes) >= 1 /\ Len(notes) >= 2
    BY <1>1, <2>2, <2>4
  <2>7. QED
    BY <1>1, <1>2, <2>5, <2>6 DEF Sends
<1>3. CASE Test \notin {"GET", "POST", "Malformed"}
  BY <1>3 DEF Sends
<1>4. QED
  BY <1>2, <1>3

LEMMA ExactStep ==
  ASSUME StageInv, NotesInv, ExactInv, [Next]_vars
  PROVE  ExactInv'
<1>1. CASE UNCHANGED vars
  <2>1. UNCHANGED <<setup, turn, pc, notes, results, sent>> /\ Test' = Test
    BY <1>1, SameTest DEF vars
  <2>2. \A t, s : Reported(t, s)' <=> Reported(t, s)
    BY <2>1 DEF Reported
  <2>3. \A t, n : Sends(t, n) => Sends(t, n)'
    BY <2>1 DEF Sends
  <2>4. \A n : n = Len(notes) => n = Len(notes')
    BY <2>1
  <2>5. ASSUME pc' = "script" PROVE Sends(Test, Len(notes))'
    <3>1. PICK n, t : n = Len(notes) /\ t = Test
      OBVIOUS
    <3>2. Sends(t, n)' /\ n = Len(notes') /\ t = Test'
      BY <2>1, <2>3, <2>5, <3>1 DEF ExactInv
    <3>3. QED
      BY <3>2
  <2>6. \A e \in sent' : Exactly(e)
    BY <2>1 DEF ExactInv
  <2>7. QED
    BY <2>2, <2>3, <2>5, <2>6 DEF ExactInv
<1>2. CASE BeginScript
  <2>1. UNCHANGED <<setup, turn, notes, results, sent>> /\ notes = <<>>
    BY <1>2 DEF BeginScript, NotesInv
  <2>2. \A t, s : Reported(t, s)' <=> Reported(t, s)
    BY <2>1 DEF Reported
  <2>3. \A t, n : Sends(t, n) => Sends(t, n)'
    BY <2>1 DEF Sends
  <2>4. Len(notes') = 0
    BY <2>1
  <2>5. Sends(Test, Len(notes))'
    BY <2>4 DEF Sends
  <2>6. \A e \in sent' : Exactly(e)
    BY <2>1 DEF ExactInv
  <2>7. QED
    BY <2>2, <2>3, <2>5, <2>6 DEF ExactInv
<1>3. CASE ExchangeStep
  <2>1. /\ sent \subseteq sent' /\ \A e \in sent' : Exactly(e)
        /\ \A n : n = Len(notes) + 1 => Sends(Test, n)'
    BY <1>3, ExactSend
  <2>2. \A t, s : Reported(t, s)' <=> Reported(t, s)
    BY <1>3 DEF Reported, ExchangeStep
  <2>3. \A t, n : Sends(t, n) => Sends(t, n)'
    BY <2>1, SendsMore
  <2>4. PICK n : n = Len(notes) + 1
    OBVIOUS
  <2>5. n = Len(notes')
    <3>1. \E x : notes' = Append(notes, x)
      BY <1>3 DEF ExchangeStep
    <3>2. QED
      BY <2>4, <3>1, Noted
  <2>6. Sends(Test, n)'
    BY <2>1, <2>4
  <2>7. Sends(Test, Len(notes))'
    BY <2>5, <2>6
  <2>8. QED
    BY <2>1, <2>2, <2>3, <2>7 DEF ExactInv
<1>4. CASE Judge
  <2>1. sent' = sent /\ pc' = "next" /\ \E status : Report(status)
    BY <1>4 DEF Judge, ReportHere, Report
  <2>2. \A t, n : Sends(t, n) => Sends(t, n)'
    BY <2>1 DEF Sends
  <2>3. PICK status : Report(status)
    BY <2>1
  <2>4. PICK c : c = Test
    OBVIOUS
  <2>5. \A t, s : Reported(t, s)' <=> Reported(t, s) \/ (t = c /\ s = status)
    BY <2>3, <2>4, ReportFacts
  <2>6. Sends(c, 3)
    BY <1>4, <2>4, ExactJudge
  <2>7. \A t, s : Reported(t, s)' => Sends(t, 3)'
    BY <2>2, <2>5, <2>6 DEF ExactInv
  <2>8. QED
    BY <2>1, <2>7 DEF ExactInv
<1>5. CASE Next /\ ~(BeginScript \/ ExchangeStep \/ Judge)
  <2>1. /\ pc' # "script" /\ pc # "script" /\ sent \subseteq sent'
        /\ \/ sent' = sent
           \/ \E q : sent' = sent \cup {[test |-> "Consistency", q |-> q]}
    BY <1>5, ScriptMoves
  <2>2. \A t, n : Sends(t, n) => Sends(t, n)'
    BY <2>1, SendsMore
  <2>3. \A q : [test |-> "Consistency", q |-> q].test = "Consistency"
    OBVIOUS
  <2>4. \A e \in sent' : Exactly(e)
    BY <2>1, <2>3 DEF ExactInv, Exactly
  <2>5. ASSUME \E status : Report(status) PROVE Test \notin {"GET", "POST", "Malformed"}
    <3>1. CASE pc = "next"
      <4>1. turn' = turn + 1 /\ results' # results
        <5>1. PICK S : results \in Seq(S)
          BY DEF StageInv
        <5>2. QED
          BY <2>5, <5>1 DEF Report
      <4>2. \/ Extract \/ BeginSeek \/ BeginAccessibility \/ BeginCheck \/ FetchConfigured
        BY <1>5, <3>1, <4>1 DEF Next, OcspSteps, CrlSteps, Start, SkipTest, TryUrl, Discover, Fetch, Read,
             Head200, AskStatus, GetCrl, ReadCheck
      <4>3. Test \in Seekers \cup Checks \cup {"Extraction", "Accessibility"} \/ Test \in Urls
        BY <4>2 DEF Extract, BeginSeek, BeginAccessibility, BeginCheck, FetchConfigured, Checks
      <4>4. CASE Test \in Urls
        BY <4>4, UrlsAreNoTests, Lists
      <4>5. QED
        BY <4>3, <4>4 DEF Seekers, Checks
    <3>2. CASE pc # "next"
      <4>1. ASSUME pc = "start" PROVE FALSE
        <5>1. ~Extract /\ ~BeginSeek /\ ~BeginAccessibility /\ ~BeginCheck /\ ~FetchConfigured
          BY <4>1 DEF Extract, BeginSeek, BeginAccessibility, BeginCheck, FetchConfigured
        <5>2. Start
          BY <1>5, <4>1, <5>1 DEF Next, OcspSteps, CrlSteps, SkipTest, TryUrl, Discover, Fetch, Read,
                                  Head200, AskStatus, GetCrl, ReadCheck
        <5>3. turn' = turn
          BY <5>2 DEF Start
        <5>4. turn' = turn + 1 /\ turn \in Nat
          BY <2>5 DEF Report, StageInv
        <5>5. QED
          BY <5>3, <5>4
      <4>2. QED
        BY <2>1, <3>2, <4>1 DEF StageInv, Seekers, Checks
    <3>3. QED
      BY <3>1, <3>2
  <2>6. \A t, s : Reported(t, s)' => Sends(t, 3)'
    <3>1. CASE UNCHANGED results
      <4>1. \A t, s : Reported(t, s)' <=> Reported(t, s)
        BY <3>1 DEF Reported
      <4>2. QED
        BY <2>2, <4>1 DEF ExactInv
    <3>2. CASE \E status : Report(status)
      <4>1. PICK status : Report(status)
        BY <3>2
      <4>2. PICK c : c = Test
        OBVIOUS
      <4>3. \A t, s : Reported(t, s)' <=> Reported(t, s) \/ (t = c /\ s = status)
        BY <4>1, <4>2, ReportFacts
      <4>4. c \notin {"GET", "POST", "Malformed"}
        BY <2>5, <3>2, <4>2
      <4>5. Sends(c, 3)
        BY <4>4 DEF Sends
      <4>6. QED
        BY <2>2, <4>3, <4>5 DEF ExactInv
    <3>3. QED
      BY <1>5, <3>1, <3>2, StepShape DEF Stays
  <2>7. QED
    BY <2>1, <2>4, <2>6 DEF ExactInv
<1>6. QED
  BY <1>1, <1>2, <1>3, <1>4, <1>5

LEMMA ExactProperty ==
  ASSUME ExactInv
  PROVE  RequestsAreExact
<1> DEFINE asked(t) == {e.q : e \in {f \in sent : f.test = t}}
<1>1. ASSUME NEW i \in DOMAIN results
      PROVE  /\ results[i].test = "GET" => {q.method : q \in asked("GET")} = {"GET"}
             /\ results[i].test = "POST" => {q.method : q \in asked("POST")} = {"POST"}
             /\ results[i].test = "Malformed" =>
                  {q.nonce : q \in asked("Malformed")} = {"zero", "overlong"}
  <2>1. Sends(results[i].test, 3)
    BY DEF ExactInv, Reported
  <2>2. ASSUME NEW t \in {"GET", "POST"}, results[i].test = t
        PROVE  {q.method : q \in asked(t)} = {t}
    <3>1. \A e \in sent : e.test = t => e.q.method = t
      BY DEF ExactInv, Exactly
    <3>2. \E e \in sent : e.test = t
      BY <2>1, <2>2 DEF Sends
    <3>3. QED
      BY <3>1, <3>2
  <2>3. ASSUME results[i].test = "Malformed"
        PROVE  {q.nonce : q \in asked("Malformed")} = {"zero", "overlong"}
    <3>1. \A e \in sent : e.test = "Malformed" => e.q.nonce \in {"zero", "overlong"}
      BY DEF ExactInv, Exactly
    <3>2. /\ \E e \in sent : e.test = "Malformed" /\ e.q.nonce = "zero"
          /\ \E e \in sent : e.test = "Malformed" /\ e.q.nonce = "overlong"
      BY <2>1, <2>3 DEF Sends
    <3>3. QED
      BY <3>1, <3>2
  <2>4. QED
    BY <2>2, <2>3
<1>2. QED
  BY <1>1, Zenon DEF RequestsAreExact
-----------------------------------------------------------------------------
(* The search for a CRL *)

(* There is a URL to try while the search goes on, and a place to probe    *)
(* while discover_crl_url does.                                            *)
ListInv ==
  /\ untried \in Seq(Urls) /\ probes \in Seq(Places)
  /\ pc \in {"try", "discover"} => untried # <<>>
  /\ pc = "discover" => probes # <<>>
  /\ pc = "fetch" => \E p \in Places : working = {p}
  /\ pc \in {"ocsp", "get"} => CheckUrl # <<>>

LEMMA PlaceOf ==
  ASSUME NEW u \in Urls, NEW k \in 0..Suffixes
  PROVE  <<u, k>> \in Places
  BY DEF Places

LEMMA FirstPlace ==
  ASSUME NEW u \in Urls
  PROVE  <<u, 0>> \in Places
<1>1. 0 \in 0..Suffixes
  BY SuitesAssumption
<1>2. QED
  BY <1>1, PlaceOf

LEMMA ProbesFacts ==
  ASSUME NEW u \in Urls
  PROVE  /\ Probes(u) \in Seq(Places) /\ Probes(u) # <<>>
         /\ Len(Probes(u)) = IF u \in Plain THEN Suffixes + 1 ELSE 1
         /\ \A i \in 1..Len(Probes(u)) : Probes(u)[i] = <<u, i - 1>>
<1>1. PICK n : n = IF u \in Plain THEN Suffixes + 1 ELSE 1
  OBVIOUS
<1>2. n \in Nat /\ n >= 1 /\ n <= Suffixes + 1 /\ Suffixes \in Nat
  BY <1>1, SuitesAssumption
<1>3. Probes(u) = [i \in 1..n |-> <<u, i - 1>>]
  BY <1>1 DEF Probes
<1>4. \A i \in 1..n : <<u, i - 1>> \in Places
  <2>1. \A i \in 1..n : i - 1 \in 0..Suffixes
    BY <1>2
  <2>2. QED
    BY <2>1, PlaceOf
<1>5. Probes(u) \in Seq(Places) /\ Len(Probes(u)) = n /\ \A i \in 1..n : Probes(u)[i] = <<u, i - 1>>
  BY <1>2, <1>3, <1>4
<1>6. Probes(u) # <<>>
  BY <1>2, <1>5
<1>7. QED
  BY <1>1, <1>5, <1>6

LEMMA UrlLists ==
  ASSUME StageInv
  PROVE  /\ CertUrls \in Seq(Urls) /\ Override \in Seq(Urls) /\ UrlsToTry \in Seq(Urls)
         /\ CheckUrl \in Seq(Urls)
<1>1. setup.points \in Seq(Urls) /\ setup.crlUrls \in Seq(Urls)
  BY SetupTyped, SetupFacts
<1>2. CertUrls \in Seq(Urls)
  <2>1. <<>> \in Seq(Urls)
    OBVIOUS
  <2>2. QED
    BY <1>1, <2>1 DEF CertUrls
<1>3. Override \in Seq(Urls)
  <2>1. CASE setup.crlUrls = <<>>
    BY <2>1 DEF Override
  <2>2. CASE setup.crlUrls # <<>>
    <3>1. setup.crlUrls[1] \in Urls
      BY <1>1, <2>2
    <3>2. Override = <<setup.crlUrls[1]>>
      BY <2>2 DEF Override
    <3>3. QED
      BY <3>1, <3>2
  <2>3. QED
    BY <2>1, <2>2
<1>4. QED
  BY <1>2, <1>3 DEF UrlsToTry, CheckUrl

LEMMA Parts ==
  ASSUME NEW S, NEW q \in Seq(S), q # <<>>
  PROVE  /\ Head(q) \in S /\ Tail(q) \in Seq(S)
         /\ Len(q) \in Nat /\ Len(q) >= 1 /\ Len(Tail(q)) = Len(q) - 1
         /\ Head(q) = q[1] /\ \A i \in 1..(Len(q) - 1) : Tail(q)[i] = q[i + 1]
  OBVIOUS

LEMMA ReportLists ==
  ASSUME NEW status, Report(status)
  PROVE  ListInv'
<1>1. untried' = <<>> /\ probes' = <<>> /\ pc' = "next"
  BY DEF Report
<1>2. <<>> \in Seq(Urls) /\ <<>> \in Seq(Places)
  OBVIOUS
<1>3. QED
  BY <1>1, <1>2 DEF ListInv

LEMMA ListStep ==
  ASSUME StageInv, ListInv, [Next]_vars
  PROVE  ListInv'
<1>1. CASE UNCHANGED vars
  BY <1>1, SameSetup DEF vars, crlVars, ListInv
<1>2. CASE \E status : Report(status)
  BY <1>2, ReportLists
<1>3. ASSUME Next, ~\E status : Report(status)
      PROVE  ListInv'
  <2>1. CASE OcspSteps
    <3>1. ~Judge
      BY <1>3 DEF Judge, ReportHere
    <3>2. UNCHANGED <<untried, probes>> /\ pc' \in {"next", "script"}
      BY <2>1, <3>1 DEF OcspSteps, Start, SkipTest, BeginScript, ExchangeStep, crlVars
    <3>3. QED
      BY <3>2 DEF ListInv
  <2>2. CASE BeginSeek
    <3>1. untried' = UrlsToTry /\ UrlsToTry # <<>> /\ UNCHANGED probes /\ pc' = "try"
      BY <1>3, <2>2 DEF BeginSeek, ReportHere, CrlStep
    <3>2. QED
      BY <3>1, UrlLists DEF ListInv
  <2>3. ASSUME pc \in {"try", "discover"}, NextUrl PROVE ListInv'
    <3>1. /\ untried' = Tail(untried) /\ Tail(untried) # <<>> /\ probes' = <<>> /\ pc' = "try"
      BY <1>3, <2>3 DEF NextUrl, ReportHere, CrlStep
    <3>2. Tail(untried) \in Seq(Urls)
      BY <2>3, Parts DEF ListInv
    <3>3. <<>> \in Seq(Places)
      OBVIOUS
    <3>4. QED
      BY <3>1, <3>2, <3>3 DEF ListInv
  <2>4. CASE TryUrl
    <3>1. PICK u : u = Head(untried)
      OBVIOUS
    <3>2. u \in Urls /\ <<u, 0>> \in Places
      BY <2>4, <3>1, Parts, FirstPlace DEF ListInv, TryUrl
    <3>3. CASE NextUrl
      BY <2>3, <2>4, <3>3 DEF TryUrl
    <3>4. CASE probes' = Probes(u) /\ CrlStep("discover") /\ UNCHANGED untried
      BY <2>4, <3>2, <3>4, ProbesFacts DEF ListInv, CrlStep, TryUrl
    <3>5. CASE FoundAt(<<u, 0>>)
      BY <3>2, <3>5 DEF FoundAt, CrlStep, Some, ListInv
    <3>6. QED
      BY <1>3, <2>4, <3>1, <3>3, <3>4, <3>5 DEF TryUrl, ReportHere
  <2>5. CASE Discover
    <3>1. PICK p : p = Head(probes)
      OBVIOUS
    <3>2. p \in Places /\ Tail(probes) \in Seq(Places)
      BY <2>5, <3>1, Parts DEF ListInv, Discover
    <3>3. CASE NextUrl
      BY <2>3, <2>5, <3>3 DEF Discover
    <3>4. CASE /\ Tail(probes) # <<>> /\ probes' = Tail(probes) /\ CrlStep("discover")
               /\ UNCHANGED untried
      BY <2>5, <3>2, <3>4 DEF ListInv, CrlStep, Discover
    <3>5. CASE FoundAt(p)
      BY <3>2, <3>5 DEF FoundAt, CrlStep, Some, ListInv
    <3>6. QED
      BY <1>3, <2>5, <3>1, <3>3, <3>4, <3>5 DEF Discover, ReportHere
  <2>6. CASE Fetch \/ BeginCheck \/ GetCrl \/ AskStatus
    <3>1. UNCHANGED <<untried, probes>> /\ pc' \in {"read", "ocsp", "get"}
      BY <1>3, <2>6 DEF Fetch, BeginCheck, GetCrl, AskStatus, ReportHere, ReportCheck, CrlStep, crlVars
    <3>2. pc' \in {"ocsp", "get"} => CheckUrl # <<>>
      BY <1>3, <2>6 DEF Fetch, BeginCheck, GetCrl, AskStatus, ReportHere, ReportCheck, CrlStep, ListInv
    <3>3. CheckUrl' = CheckUrl
      BY <1>3, StepShape, SameSetup
    <3>4. QED
      BY <3>1, <3>2, <3>3 DEF ListInv
  <2>7. CASE BeginAccessibility
    <3>1. untried' = CertUrls /\ UNCHANGED probes /\ pc' = "head"
      BY <1>3, <2>7 DEF BeginAccessibility, ReportHere, CrlStep
    <3>2. QED
      BY <3>1, UrlLists DEF ListInv
  <2>8. CASE Head200
    <3>1. untried # <<>> /\ untried' = Tail(untried) /\ UNCHANGED probes /\ pc' = "head"
      BY <1>3, <2>8 DEF Head200, ReportHere, CrlStep
    <3>2. Tail(untried) \in Seq(Urls)
      BY <3>1, Parts DEF ListInv
    <3>3. QED
      BY <3>1, <3>2 DEF ListInv
  <2>9. ~Extract /\ ~Read /\ ~ReadCheck /\ ~FetchConfigured
    BY <1>3 DEF Extract, Read, ReadCheck, FetchConfigured, ReportHere, ReportCheck
  <2>10. QED
    BY <1>3, <2>1, <2>2, <2>4, <2>5, <2>6, <2>7, <2>8, <2>9 DEF Next, CrlSteps
<1>4. QED
  BY <1>1, <1>2, <1>3

(* Sites that do not change, seen without the network guard. *)
Stable == Serving({"crl", "page", "dead"}) /\ setup.openssl # "missing" /\ HasTestCert

Leads(q) == \E i \in DOMAIN q : FindsAt(q[i])
Hits(q) == \E i \in DOMAIN q : setup.site[q[i]] = "crl"

(* What is still ahead leads to a CRL exactly if the whole list did. *)
FoundInv ==
  Stable =>
    /\ pc \in {"try", "discover"} => (Leads(untried) <=> Leads(UrlsToTry))
    /\ pc = "discover" => (Hits(probes) <=> FindsAt(Head(untried)))
    /\ pc = "fetch" => Leads(UrlsToTry) /\ \A p \in working : setup.site[p] = "crl"
    /\ pc = "read" /\ Test \in Seekers => Leads(UrlsToTry) /\ crl = {Genuine}
    /\ \A s : Reported("Download", s) => (s = "PASS" <=> Leads(UrlsToTry))

LEMMA SameSites ==
  ASSUME UNCHANGED setup
  PROVE  /\ Stable' <=> Stable
         /\ \A q : (Leads(q)' <=> Leads(q)) /\ (Hits(q)' <=> Hits(q))
         /\ \A u : FindsAt(u)' <=> FindsAt(u)
         /\ Genuine' = Genuine
  BY DEF Stable, Serving, HasTestCert, Leads, Hits, FindsAt, Genuine

LEMMA LeadsOn ==
  ASSUME NEW q \in Seq(Urls), q # <<>>
  PROVE  Leads(q) <=> FindsAt(Head(q)) \/ Leads(Tail(q))
<1>1. /\ Tail(q) \in Seq(Urls) /\ Len(q) \in Nat /\ Len(q) >= 1 /\ Len(Tail(q)) = Len(q) - 1
      /\ Head(q) = q[1] /\ \A i \in 1..(Len(q) - 1) : Tail(q)[i] = q[i + 1]
  BY Parts
<1>2. DOMAIN q = 1..Len(q) /\ DOMAIN Tail(q) = 1..(Len(q) - 1)
  BY <1>1
<1>3. ASSUME NEW i \in DOMAIN q, FindsAt(q[i]) PROVE FindsAt(Head(q)) \/ Leads(Tail(q))
  <2>1. CASE i = 1
    BY <1>1, <1>3, <2>1
  <2>2. CASE i # 1
    <3>1. i - 1 \in DOMAIN Tail(q) /\ Tail(q)[i - 1] = q[i]
      BY <1>1, <1>2, <2>2
    <3>2. QED
      BY <1>3, <3>1 DEF Leads
  <2>3. QED
    BY <2>1, <2>2
<1>4. ASSUME NEW i \in DOMAIN Tail(q), FindsAt(Tail(q)[i]) PROVE Leads(q)
  <2>1. i + 1 \in DOMAIN q /\ Tail(q)[i] = q[i + 1]
    BY <1>1, <1>2
  <2>2. QED
    BY <1>4, <2>1 DEF Leads
<1>5. ASSUME FindsAt(Head(q)) PROVE Leads(q)
  <2>1. 1 \in DOMAIN q
    BY <1>1, <1>2
  <2>2. QED
    BY <1>1, <1>5, <2>1 DEF Leads
<1>6. QED
  BY <1>3, <1>4, <1>5 DEF Leads

LEMMA HitsOn ==
  ASSUME NEW q \in Seq(Places), q # <<>>
  PROVE  Hits(q) <=> setup.site[Head(q)] = "crl" \/ Hits(Tail(q))
<1>1. /\ Tail(q) \in Seq(Places) /\ Len(q) \in Nat /\ Len(q) >= 1 /\ Len(Tail(q)) = Len(q) - 1
      /\ Head(q) = q[1] /\ \A i \in 1..(Len(q) - 1) : Tail(q)[i] = q[i + 1]
  BY Parts
<1>2. DOMAIN q = 1..Len(q) /\ DOMAIN Tail(q) = 1..(Len(q) - 1)
  BY <1>1
<1>3. ASSUME NEW i \in DOMAIN q, setup.site[q[i]] = "crl"
      PROVE  setup.site[Head(q)] = "crl" \/ Hits(Tail(q))
  <2>1. CASE i = 1
    BY <1>1, <1>3, <2>1
  <2>2. CASE i # 1
    <3>1. i - 1 \in DOMAIN Tail(q) /\ Tail(q)[i - 1] = q[i]
      BY <1>1, <1>2, <2>2
    <3>2. QED
      BY <1>3, <3>1 DEF Hits
  <2>3. QED
    BY <2>1, <2>2
<1>4. ASSUME NEW i \in DOMAIN Tail(q), setup.site[Tail(q)[i]] = "crl" PROVE Hits(q)
  <2>1. i + 1 \in DOMAIN q /\ Tail(q)[i] = q[i + 1]
    BY <1>1, <1>2
  <2>2. QED
    BY <1>4, <2>1 DEF Hits
<1>5. ASSUME setup.site[Head(q)] = "crl" PROVE Hits(q)
  <2>1. 1 \in DOMAIN q
    BY <1>1, <1>2
  <2>2. QED
    BY <1>1, <1>5, <2>1 DEF Hits
<1>6. QED
  BY <1>3, <1>4, <1>5 DEF Hits

(* discover_crl_url finds what its probes hit, once the URL itself failed. *)
LEMMA ProbesHit ==
  ASSUME NEW u \in Urls, setup.site[<<u, 0>>] = "dead"
  PROVE  Hits(Probes(u)) <=> FindsAt(u)
<1>1. /\ Probes(u) \in Seq(Places) /\ Len(Probes(u)) = (IF u \in Plain THEN Suffixes + 1 ELSE 1)
      /\ \A i \in 1..Len(Probes(u)) : Probes(u)[i] = <<u, i - 1>>
  BY ProbesFacts
<1>2. DOMAIN Probes(u) = 1..Len(Probes(u)) /\ Suffixes \in Nat
  BY <1>1, SuitesAssumption
<1>3. ASSUME NEW i \in DOMAIN Probes(u), setup.site[Probes(u)[i]] = "crl" PROVE FindsAt(u)
  <2>1. setup.site[<<u, i - 1>>] = "crl" /\ i \in 1..Len(Probes(u))
    BY <1>1, <1>2, <1>3
  <2>2. i # 1
    <3>1. ASSUME i = 1 PROVE FALSE
      <4>1. i - 1 = 0
        BY <3>1
      <4>2. setup.site[<<u, 0>>] = "crl"
        BY <2>1, <4>1
      <4>3. QED
        BY <4>2
    <3>2. QED
      BY <3>1
  <2>3. u \in Plain /\ i - 1 \in 1..Suffixes
    BY <1>1, <1>2, <2>1, <2>2
  <2>4. QED
    BY <2>1, <2>3 DEF FindsAt
<1>4. ASSUME FindsAt(u) PROVE Hits(Probes(u))
  <2>1. u \in Plain /\ \E k \in 1..Suffixes : setup.site[<<u, k>>] = "crl"
    BY <1>4 DEF FindsAt
  <2>2. PICK k \in 1..Suffixes : setup.site[<<u, k>>] = "crl"
    BY <2>1
  <2>3. k + 1 \in 1..Len(Probes(u)) /\ (k + 1) - 1 = k
    BY <1>1, <1>2, <2>1
  <2>4. Probes(u)[k + 1] = <<u, k>>
    BY <1>1, <2>3
  <2>5. QED
    BY <1>2, <2>2, <2>3, <2>4 DEF Hits
<1>5. QED
  BY <1>3, <1>4 DEF Hits

LEMMA StableServes ==
  ASSUME Stable, NEW p \in Places
  PROVE  \/ setup.site[p] = "crl" /\ Served(p) = {Genuine}
         \/ setup.site[p] = "page" /\ Served(p) = {Blank("page")}
         \/ setup.site[p] = "dead" /\ Served(p) = {Blank("failed")}
<1>1. setup.site # <<>> /\ setup.site[p] \in {"crl", "page", "dead"}
  BY DEF Stable, Serving
<1>2. QED
  BY <1>1, ServedAt

LEMMA Forms ==
  /\ Genuine.form = "crl"
  /\ \A form : Blank(form).form = form
  BY DEF Genuine, Blank

LEMMA FoundReport ==
  ASSUME StageInv, FoundInv, UNCHANGED setup, NEW status, Report(status),
         Stable /\ Test = "Download" => (status = "PASS" <=> Leads(UrlsToTry))
  PROVE  FoundInv'
<1>1. PICK t, urls : t = Test /\ urls = UrlsToTry
  OBVIOUS
<1>2. /\ (Stable' <=> Stable) /\ UrlsToTry' = urls /\ (Leads(urls)' <=> Leads(urls))
      /\ pc' = "next"
  BY <1>1, SameSites, SameSetup DEF Report
<1>3. \A s : Reported("Download", s)' <=> Reported("Download", s) \/ ("Download" = t /\ s = status)
  BY <1>1, ReportFacts
<1>4. ASSUME Stable, NEW s, Reported("Download", s)'
      PROVE  s = "PASS" <=> Leads(UrlsToTry)'
  <2>1. s = "PASS" <=> Leads(urls)
    BY <1>1, <1>3, <1>4 DEF FoundInv
  <2>2. Leads(UrlsToTry)' <=> Leads(urls)'
    BY <1>2
  <2>3. QED
    BY <1>2, <2>1, <2>2
<1>5. QED
  BY <1>2, <1>4 DEF FoundInv

(* A step that reports nothing and is not part of the search. *)
LEMMA FoundElsewhere ==
  ASSUME StageInv, FoundInv, UNCHANGED <<setup, results>>,
         pc' \notin {"try", "discover", "fetch"}, pc' = "read" => Test' \notin Seekers
  PROVE  FoundInv'
<1>1. PICK urls : urls = UrlsToTry
  OBVIOUS
<1>2. (Stable' <=> Stable) /\ UrlsToTry' = urls /\ (Leads(urls)' <=> Leads(urls))
  BY <1>1, SameSites, SameSetup
<1>3. \A s : Reported("Download", s)' <=> Reported("Download", s)
  BY DEF Reported
<1>4. Leads(UrlsToTry)' <=> Leads(urls)
  BY <1>2
<1>5. QED
  BY <1>1, <1>2, <1>3, <1>4 DEF FoundInv

(* The next URL, after one that leads nowhere. *)
LEMMA FoundNext ==
  ASSUME StageInv, ListInv, FoundInv, pc \in {"try", "discover"}, NextUrl,
         Stable => ~FindsAt(Head(untried))
  PROVE  FoundInv'
<1>1. untried \in Seq(Urls) /\ untried # <<>>
  BY DEF ListInv
<1>2. CASE Tail(untried) = <<>>
  <2>1. ReportHere("FAIL")
    BY <1>2 DEF NextUrl
  <2>2. ASSUME Stable PROVE ~Leads(UrlsToTry)
    <3>1. ~Leads(Tail(untried))
      BY <1>2 DEF Leads
    <3>2. QED
      BY <1>1, <2>2, <3>1, LeadsOn DEF FoundInv
  <2>3. QED
    BY <2>1, <2>2, FoundReport DEF ReportHere
<1>3. CASE Tail(untried) # <<>>
  <2>1. /\ untried' = Tail(untried) /\ pc' = "try" /\ UNCHANGED <<setup, results>>
    BY <1>3 DEF NextUrl, CrlStep
  <2>2. PICK urls, rest : urls = UrlsToTry /\ rest = Tail(untried)
    OBVIOUS
  <2>3. /\ (Stable' <=> Stable) /\ UrlsToTry' = urls /\ (Leads(urls)' <=> Leads(urls))
        /\ untried' = rest /\ (Leads(rest)' <=> Leads(rest))
    BY <2>1, <2>2, SameSites, SameSetup
  <2>4. \A s : Reported("Download", s)' <=> Reported("Download", s)
    BY <2>1 DEF Reported
  <2>5. (Leads(UrlsToTry)' <=> Leads(urls)) /\ (Leads(untried)' <=> Leads(rest))
    BY <2>3
  <2>6. Stable => (Leads(rest) <=> Leads(urls))
    BY <1>1, <2>2, LeadsOn DEF FoundInv
  <2>7. QED
    BY <2>1, <2>2, <2>3, <2>4, <2>5, <2>6 DEF FoundInv
<1>4. QED
  BY <1>2, <1>3

(* A place that serves a CRL. *)
LEMMA FoundThere ==
  ASSUME StageInv, ListInv, FoundInv, NEW p, FoundAt(p),
         Stable => Leads(UrlsToTry) /\ setup.site[p] = "crl"
  PROVE  FoundInv'
<1>1. working' = {p} /\ pc' = "fetch" /\ UNCHANGED <<setup, results>>
  BY DEF FoundAt, CrlStep, Some
<1>2. PICK urls : urls = UrlsToTry
  OBVIOUS
<1>3. (Stable' <=> Stable) /\ UrlsToTry' = urls /\ (Leads(urls)' <=> Leads(urls))
  BY <1>1, <1>2, SameSites, SameSetup
<1>4. \A s : Reported("Download", s)' <=> Reported("Download", s)
  BY <1>1 DEF Reported
<1>5. Leads(UrlsToTry)' <=> Leads(urls)
  BY <1>3
<1>6. QED
  BY <1>1, <1>2, <1>3, <1>4, <1>5 DEF FoundInv

LEMMA FoundTry ==
  ASSUME StageInv, ListInv, FoundInv, TryUrl
  PROVE  FoundInv'
<1>1. PICK u : u = Head(untried)
  OBVIOUS
<1>2. /\ u \in Urls /\ <<u, 0>> \in Places /\ pc = "try" /\ untried \in Seq(Urls)
      /\ untried # <<>>
  BY <1>1, Parts, FirstPlace DEF ListInv, TryUrl
<1>3. PICK d \in Served(<<u, 0>>) :
        \/ d.form = "blocked" /\ ReportHere("ERROR")
        \/ /\ d.form = "failed" /\ probes' = Probes(u)
           /\ CrlStep("discover") /\ UNCHANGED <<untried, working, crl, temp, sent>>
        \/ ~Failing(d) /\ LooksLikeCrl(d) /\ FoundAt(<<u, 0>>)
        \/ ~Failing(d) /\ ~LooksLikeCrl(d) /\ NextUrl
  BY <1>1 DEF TryUrl
<1>4. ASSUME Stable
      PROVE  \/ setup.site[<<u, 0>>] = "crl" /\ d.form = "crl"
             \/ setup.site[<<u, 0>>] = "page" /\ d.form = "page"
             \/ setup.site[<<u, 0>>] = "dead" /\ d.form = "failed"
  BY <1>2, <1>3, <1>4, StableServes, Forms
<1>5. CASE d.form = "blocked" /\ ReportHere("ERROR")
  <2>1. ~Stable
    BY <1>4, <1>5
  <2>2. QED
    BY <1>5, <2>1, FoundReport DEF ReportHere
<1>6. CASE d.form = "failed" /\ probes' = Probes(u) /\ CrlStep("discover") /\ UNCHANGED untried
  <2>1. pc' = "discover" /\ UNCHANGED <<setup, results, untried>>
    BY <1>6 DEF CrlStep
  <2>2. PICK urls, list : urls = UrlsToTry /\ list = untried
    OBVIOUS
  <2>3. /\ (Stable' <=> Stable) /\ UrlsToTry' = urls /\ (Leads(urls)' <=> Leads(urls))
        /\ (Leads(list)' <=> Leads(list)) /\ untried' = list
    BY <2>1, <2>2, SameSites, SameSetup
  <2>4. \A s : Reported("Download", s)' <=> Reported("Download", s)
    BY <2>1 DEF Reported
  <2>5. (Leads(UrlsToTry)' <=> Leads(urls)) /\ (Leads(untried)' <=> Leads(list))
    BY <2>3
  <2>6. PICK q : q = Probes(u)
    OBVIOUS
  <2>7. Stable => (Hits(q) <=> FindsAt(u))
    BY <1>2, <1>4, <1>6, <2>6, ProbesHit
  <2>8. probes' = q /\ Head(untried') = u /\ (Hits(q)' <=> Hits(q)) /\ (FindsAt(u)' <=> FindsAt(u))
    BY <1>1, <1>6, <2>1, <2>6, SameSites
  <2>9. (Hits(probes)' <=> Hits(q)) /\ (FindsAt(Head(untried))' <=> FindsAt(u))
    BY <2>8
  <2>10. Stable => (Leads(list) <=> Leads(urls))
    BY <1>2, <2>2 DEF FoundInv
  <2>11. Stable => \A s : Reported("Download", s) => (s = "PASS" <=> Leads(urls))
    BY <2>2 DEF FoundInv
  <2>12. QED
    BY <2>1, <2>3, <2>4, <2>5, <2>7, <2>9, <2>10, <2>11 DEF FoundInv
<1>7. CASE ~Failing(d) /\ LooksLikeCrl(d) /\ FoundAt(<<u, 0>>)
  <2>1. ASSUME Stable PROVE setup.site[<<u, 0>>] = "crl"
    BY <1>4, <1>7, <2>1 DEF Failing, LooksLikeCrl
  <2>2. ASSUME Stable PROVE Leads(UrlsToTry)
    <3>1. FindsAt(u)
      BY <2>1, <2>2 DEF FindsAt
    <3>2. QED
      BY <1>1, <1>2, <2>2, <3>1, LeadsOn DEF FoundInv
  <2>3. QED
    BY <1>7, <2>1, <2>2, FoundThere
<1>8. CASE ~Failing(d) /\ ~LooksLikeCrl(d) /\ NextUrl
  <2>1. ASSUME Stable PROVE ~FindsAt(Head(untried))
    <3>1. setup.site[<<u, 0>>] = "page"
      BY <1>4, <1>8, <2>1 DEF Failing, LooksLikeCrl
    <3>2. QED
      BY <1>1, <3>1 DEF FindsAt
  <2>2. QED
    BY <1>2, <1>8, <2>1, FoundNext
<1>9. QED
  BY <1>3, <1>5, <1>6, <1>7, <1>8

LEMMA FoundDiscover ==
  ASSUME StageInv, ListInv, FoundInv, Discover
  PROVE  FoundInv'
<1>1. PICK p : p = Head(probes)
  OBVIOUS
<1>2. /\ p \in Places /\ pc = "discover" /\ probes \in Seq(Places) /\ probes # <<>>
      /\ untried \in Seq(Urls) /\ untried # <<>>
  BY <1>1, Parts DEF ListInv, Discover
<1>3. PICK d \in Served(p) :
        \/ d.form = "blocked" /\ ReportHere("ERROR")
        \/ ~Failing(d) /\ LooksLikeCrl(d) /\ FoundAt(p)
        \/ /\ d.form # "blocked" /\ ~(~Failing(d) /\ LooksLikeCrl(d))
           /\ \/ Tail(probes) = <<>> /\ NextUrl
              \/ /\ Tail(probes) # <<>> /\ probes' = Tail(probes)
                 /\ CrlStep("discover") /\ UNCHANGED <<untried, working, crl, temp, sent>>
  BY <1>1 DEF Discover
<1>4. ASSUME Stable
      PROVE  \/ setup.site[p] = "crl" /\ d.form = "crl"
             \/ setup.site[p] = "page" /\ d.form = "page"
             \/ setup.site[p] = "dead" /\ d.form = "failed"
  BY <1>2, <1>3, <1>4, StableServes, Forms
<1>5. CASE d.form = "blocked" /\ ReportHere("ERROR")
  <2>1. ~Stable
    BY <1>4, <1>5
  <2>2. QED
    BY <1>5, <2>1, FoundReport DEF ReportHere
<1>6. CASE ~Failing(d) /\ LooksLikeCrl(d) /\ FoundAt(p)
  <2>1. ASSUME Stable PROVE setup.site[p] = "crl"
    BY <1>4, <1>6, <2>1 DEF Failing, LooksLikeCrl
  <2>2. ASSUME Stable PROVE Leads(UrlsToTry)
    <3>1. Hits(probes)
      BY <1>1, <1>2, <2>1, <2>2, HitsOn
    <3>2. FindsAt(Head(untried))
      BY <1>2, <2>2, <3>1 DEF FoundInv
    <3>3. QED
      BY <1>2, <2>2, <3>2, LeadsOn DEF FoundInv
  <2>3. QED
    BY <1>6, <2>1, <2>2, FoundThere
<1>7. ASSUME Stable, ~(~Failing(d) /\ LooksLikeCrl(d))
      PROVE  Hits(probes) <=> Hits(Tail(probes))
  <2>1. setup.site[p] # "crl"
    BY <1>4, <1>7 DEF Failing, LooksLikeCrl
  <2>2. QED
    BY <1>1, <1>2, <2>1, HitsOn
<1>8. CASE ~(~Failing(d) /\ LooksLikeCrl(d)) /\ Tail(probes) = <<>> /\ NextUrl
  <2>1. ASSUME Stable PROVE ~FindsAt(Head(untried))
    <3>1. ~Hits(Tail(probes))
      BY <1>8 DEF Hits
    <3>2. QED
      BY <1>2, <1>7, <1>8, <2>1, <3>1 DEF FoundInv
  <2>2. QED
    BY <1>2, <1>8, <2>1, FoundNext
<1>9. CASE /\ ~(~Failing(d) /\ LooksLikeCrl(d)) /\ probes' = Tail(probes)
           /\ CrlStep("discover") /\ UNCHANGED untried
  <2>1. pc' = "discover" /\ UNCHANGED <<setup, results, untried>>
    BY <1>9 DEF CrlStep
  <2>2. PICK urls, list, q, u : /\ urls = UrlsToTry /\ list = untried /\ q = Tail(probes)
                                /\ u = Head(untried)
    OBVIOUS
  <2>3. /\ (Stable' <=> Stable) /\ UrlsToTry' = urls /\ (Leads(urls)' <=> Leads(urls))
        /\ (Leads(list)' <=> Leads(list)) /\ untried' = list
    BY <2>1, <2>2, SameSites, SameSetup
  <2>4. \A s : Reported("Download", s)' <=> Reported("Download", s)
    BY <2>1 DEF Reported
  <2>5. (Leads(UrlsToTry)' <=> Leads(urls)) /\ (Leads(untried)' <=> Leads(list))
    BY <2>3
  <2>6. probes' = q /\ Head(untried') = u /\ (Hits(q)' <=> Hits(q)) /\ (FindsAt(u)' <=> FindsAt(u))
    BY <1>9, <2>1, <2>2, SameSites
  <2>7. (Hits(probes)' <=> Hits(q)) /\ (FindsAt(Head(untried))' <=> FindsAt(u))
    BY <2>6
  <2>8. Stable => (Hits(q) <=> FindsAt(u)) /\ (Leads(list) <=> Leads(urls))
    BY <1>2, <1>7, <1>9, <2>2 DEF FoundInv
  <2>9. Stable => \A s : Reported("Download", s) => (s = "PASS" <=> Leads(urls))
    BY <2>2 DEF FoundInv
  <2>10. QED
    BY <2>1, <2>3, <2>4, <2>5, <2>7, <2>8, <2>9 DEF FoundInv
<1>10. QED
  BY <1>3, <1>5, <1>6, <1>8, <1>9

LEMMA FoundFetch ==
  ASSUME StageInv, ListInv, FoundInv, Fetch
  PROVE  FoundInv'
<1>0. PICK p \in working : \E d \in Served(p) :
        \/ Failing(d) /\ ReportHere("ERROR")
        \/ /\ ~Failing(d) /\ crl' = Some(d)
           /\ CrlStep("read") /\ UNCHANGED <<untried, probes, working, temp, sent>>
  BY DEF Fetch
<1>1. PICK d \in Served(p) :
        \/ Failing(d) /\ ReportHere("ERROR")
        \/ /\ ~Failing(d) /\ crl' = Some(d)
           /\ CrlStep("read") /\ UNCHANGED <<untried, probes, working, temp, sent>>
  BY <1>0
<1>2. pc = "fetch" /\ p \in Places
  BY <1>1 DEF Fetch, ListInv
<1>3. Stable => d = Genuine /\ ~Failing(d) /\ Leads(UrlsToTry)
  <2>1. Stable => setup.site[p] = "crl" /\ Leads(UrlsToTry)
    BY <1>1, <1>2 DEF FoundInv
  <2>2. Stable => d = Genuine
    BY <1>1, <1>2, <2>1, StableServes
  <2>3. QED
    BY <2>1, <2>2, Forms DEF Failing
<1>4. CASE Failing(d) /\ ReportHere("ERROR")
  BY <1>3, <1>4, FoundReport DEF ReportHere
<1>5. CASE crl' = Some(d) /\ CrlStep("read")
  <2>1. pc' = "read" /\ UNCHANGED <<setup, results>> /\ crl' = {d}
    BY <1>5 DEF CrlStep, Some
  <2>2. PICK urls, g : urls = UrlsToTry /\ g = Genuine
    OBVIOUS
  <2>3. /\ (Stable' <=> Stable) /\ UrlsToTry' = urls /\ (Leads(urls)' <=> Leads(urls))
        /\ Genuine' = g
    BY <2>1, <2>2, SameSites, SameSetup
  <2>4. \A s : Reported("Download", s)' <=> Reported("Download", s)
    BY <2>1 DEF Reported
  <2>5. Leads(UrlsToTry)' <=> Leads(urls)
    BY <2>3
  <2>6. Stable => /\ d = g /\ Leads(urls)
                  /\ \A s : Reported("Download", s) => (s = "PASS" <=> Leads(urls))
    BY <1>3, <2>2 DEF FoundInv
  <2>7. QED
    BY <2>1, <2>3, <2>4, <2>5, <2>6 DEF FoundInv
<1>6. QED
  BY <1>1, <1>4, <1>5

LEMMA ReadFacts ==
  ASSUME Read
  PROVE  /\ pc = "read" /\ Test \in Seekers
         /\ \E d \in crl : \E status :
              /\ ReportHere(status)
              /\ setup.openssl = "missing" => status = "ERROR"
              /\ setup.openssl # "missing" /\ Test = "Download" => status \in DownloadVerdicts(d)
              /\ setup.openssl # "missing" /\ Test = "CRL signature" =>
                   status \in CrlSignatureVerdicts(d)
              /\ setup.openssl # "missing" /\ Test = "CRL times" => status \in CrlTimesVerdicts(d)
<1>1. PICK d \in crl : \E status \in IF setup.openssl = "missing" THEN {"ERROR"}
                     ELSE CASE Test = "Download" -> DownloadVerdicts(d)
                            [] Test = "CRL signature" -> CrlSignatureVerdicts(d)
                            [] Test = "CRL times" -> CrlTimesVerdicts(d) :
                       ReportHere(status)
  BY Zenon DEF Read
<1>2. PICK status : /\ ReportHere(status)
                    /\ status \in IF setup.openssl = "missing" THEN {"ERROR"}
                     ELSE CASE Test = "Download" -> DownloadVerdicts(d)
                            [] Test = "CRL signature" -> CrlSignatureVerdicts(d)
                            [] Test = "CRL times" -> CrlTimesVerdicts(d)
  BY <1>1, Zenon
<1>3. setup.openssl = "missing" => status = "ERROR"
  BY <1>2, Zenon
<1>4. setup.openssl # "missing" /\ Test = "Download" => status \in DownloadVerdicts(d)
  BY <1>2, Zenon
<1>5. setup.openssl # "missing" /\ Test = "CRL signature" => status \in CrlSignatureVerdicts(d)
  BY <1>2, Zenon
<1>6. setup.openssl # "missing" /\ Test = "CRL times" => status \in CrlTimesVerdicts(d)
  BY <1>2, Zenon
<1>7. pc = "read" /\ Test \in Seekers
  BY Zenon DEF Read
<1>8. QED
  BY <1>1, <1>2, <1>3, <1>4, <1>5, <1>6, <1>7, Zenon

LEMMA FoundRead ==
  ASSUME StageInv, ListInv, FoundInv, Read
  PROVE  FoundInv'
<1>1. /\ pc = "read" /\ Test \in Seekers
      /\ \E d \in crl : \E status :
           /\ ReportHere(status)
           /\ setup.openssl # "missing" /\ Test = "Download" => status \in DownloadVerdicts(d)
  BY ReadFacts
<1>read. PICK d \in crl : \E status :
           /\ ReportHere(status)
           /\ setup.openssl # "missing" /\ Test = "Download" => status \in DownloadVerdicts(d)
  BY <1>1
<1>2. PICK status :
           /\ ReportHere(status)
           /\ setup.openssl # "missing" /\ Test = "Download" => status \in DownloadVerdicts(d)
  BY <1>read
<1>3. ASSUME Stable, Test = "Download" PROVE status = "PASS" /\ Leads(UrlsToTry)
  <2>1. d = Genuine /\ Leads(UrlsToTry)
    BY <1>1, <1>2, <1>3 DEF FoundInv
  <2>2. status \in DownloadVerdicts(d)
    BY <1>2, <1>3 DEF Stable
  <2>3. QED
    BY <2>1, <2>2, Forms DEF DownloadVerdicts, PassOrFail
<1>4. QED
  BY <1>2, <1>3, FoundReport DEF ReportHere

(* Only the search itself reports a test that searches. *)
LEMMA OtherReports ==
  ASSUME StageInv, Next, ~(BeginSeek \/ TryUrl \/ Discover \/ Fetch \/ Read),
         NEW status, Report(status)
  PROVE  Test \notin Seekers
<1>1. PICK S : results \in Seq(S)
  BY DEF StageInv
<1>2. results' # results
  BY <1>1 DEF Report
<1>3. ~Start /\ ~SkipTest /\ ~BeginScript /\ ~ExchangeStep
  BY <1>2 DEF Start, SkipTest, BeginScript, ExchangeStep
<1>4. CASE Judge
  <2>1. ~Among(Test, CrlTests)
    BY <1>4 DEF Judge, StageInv, CrlHere
  <2>2. QED
    BY <2>1, Lists DEF Seekers
<1>5. CASE Extract \/ BeginAccessibility
  BY <1>5 DEF Extract, BeginAccessibility, Seekers
<1>6. CASE Head200 \/ AskStatus \/ GetCrl
  BY <1>6 DEF Head200, AskStatus, GetCrl, StageInv, Seekers, Checks
<1>7. CASE BeginCheck \/ ReadCheck
  BY <1>7 DEF BeginCheck, ReadCheck, Seekers
<1>8. CASE FetchConfigured
  <2>1. Test \in Urls
    BY <1>8 DEF FetchConfigured
  <2>2. ~Among(Test, CrlTests)
    BY <2>1, UrlsAreNoTests
  <2>3. QED
    BY <2>2, Lists DEF Seekers
<1>9. QED
  BY <1>3, <1>4, <1>5, <1>6, <1>7, <1>8 DEF Next, OcspSteps, CrlSteps

LEMMA FoundStep ==
  ASSUME StageInv, ListInv, FoundInv, [Next]_vars
  PROVE  FoundInv'
<1>1. CASE UNCHANGED vars
  <2>1. UNCHANGED <<setup, turn, pc, untried, probes, working, crl, results>>
    BY <1>1 DEF vars, crlVars
  <2>2. PICK urls, list, q, u, t, g : /\ urls = UrlsToTry /\ list = untried /\ q = probes
                                      /\ u = Head(untried) /\ t = Test /\ g = Genuine
    OBVIOUS
  <2>3. /\ (Stable' <=> Stable) /\ UrlsToTry' = urls /\ (Leads(urls)' <=> Leads(urls))
        /\ (Leads(list)' <=> Leads(list)) /\ untried' = list /\ Genuine' = g
        /\ (Hits(q)' <=> Hits(q)) /\ probes' = q /\ (FindsAt(u)' <=> FindsAt(u))
        /\ Head(untried') = u /\ Test' = t
    BY <2>1, <2>2, SameSites, SameSetup, SameTest
  <2>4. /\ Leads(UrlsToTry)' <=> Leads(urls)
        /\ Leads(untried)' <=> Leads(list)
        /\ Hits(probes)' <=> Hits(q)
        /\ FindsAt(Head(untried))' <=> FindsAt(u)
    BY <2>3
  <2>5. \A s : Reported("Download", s)' <=> Reported("Download", s)
    BY <2>1 DEF Reported
  <2>6. Stable =>
          /\ pc \in {"try", "discover"} => (Leads(list) <=> Leads(urls))
          /\ pc = "discover" => (Hits(q) <=> FindsAt(u))
          /\ pc = "fetch" => Leads(urls) /\ \A p \in working : setup.site[p] = "crl"
          /\ pc = "read" /\ t \in Seekers => Leads(urls) /\ crl = {g}
          /\ \A s : Reported("Download", s) => (s = "PASS" <=> Leads(urls))
    BY <2>2 DEF FoundInv
  <2>7. QED
    BY <2>1, <2>3, <2>4, <2>5, <2>6 DEF FoundInv
<1>2. CASE BeginSeek
  <2>1. CASE UrlsToTry = <<>> \/ ~HasTestCert
    <3>1. ReportHere("SKIP")
      BY <1>2, <2>1 DEF BeginSeek
    <3>2. ~(Stable /\ Leads(UrlsToTry))
      BY <2>1 DEF Stable, Leads
    <3>3. QED
      BY <3>1, <3>2, FoundReport DEF ReportHere
  <2>2. CASE UrlsToTry # <<>> /\ HasTestCert
    <3>1. untried' = UrlsToTry /\ pc' = "try" /\ UNCHANGED <<setup, results>>
      BY <1>2, <2>2 DEF BeginSeek, CrlStep
    <3>2. PICK urls : urls = UrlsToTry
      OBVIOUS
    <3>3. /\ (Stable' <=> Stable) /\ UrlsToTry' = urls /\ untried' = urls
          /\ (Leads(urls)' <=> Leads(urls))
      BY <3>1, <3>2, SameSites, SameSetup
    <3>4. (Leads(UrlsToTry)' <=> Leads(urls)) /\ (Leads(untried)' <=> Leads(urls))
      BY <3>3
    <3>5. \A s : Reported("Download", s)' <=> Reported("Download", s)
      BY <3>1 DEF Reported
    <3>6. Stable => \A s : Reported("Download", s) => (s = "PASS" <=> Leads(urls))
      BY <3>2 DEF FoundInv
    <3>7. QED
      BY <3>1, <3>3, <3>4, <3>5, <3>6 DEF FoundInv
  <2>3. QED
    BY <2>1, <2>2
<1>3. CASE TryUrl \/ Discover \/ Fetch \/ Read
  BY <1>3, FoundTry, FoundDiscover, FoundFetch, FoundRead
<1>4. ASSUME Next, ~(BeginSeek \/ TryUrl \/ Discover \/ Fetch \/ Read)
      PROVE  FoundInv'
  <2>1. UNCHANGED setup
    BY <1>4, StepShape
  <2>2. CASE \E status : Report(status)
    <3>1. PICK status : Report(status)
      BY <2>2
    <3>2. Test # "Download"
      BY <1>4, <3>1, OtherReports DEF Seekers
    <3>3. QED
      BY <2>1, <3>1, <3>2, FoundReport
  <2>3. CASE ~\E status : Report(status)
    <3>1. UNCHANGED <<setup, results>>
      BY <1>4, <2>3, StepShape DEF Stays
    <3>2. pc' \notin {"try", "discover", "fetch"} /\ (pc' = "read" => GetCrl)
      <4>1. CASE OcspSteps
        <5>1. ~Judge
          BY <2>3 DEF Judge, ReportHere
        <5>2. QED
          BY <4>1, <5>1 DEF OcspSteps, Start, SkipTest, BeginScript, ExchangeStep
      <4>2. ~Extract /\ ~ReadCheck /\ ~FetchConfigured
        BY <2>3 DEF Extract, ReadCheck, FetchConfigured, ReportHere, ReportCheck
      <4>3. CASE BeginAccessibility \/ Head200 \/ BeginCheck \/ AskStatus \/ GetCrl
        BY <2>3, <4>3 DEF BeginAccessibility, Head200, BeginCheck, AskStatus, GetCrl, ReportHere,
                          ReportCheck, CrlStep
      <4>4. QED
        BY <1>4, <4>1, <4>2, <4>3 DEF Next, CrlSteps
    <3>3. GetCrl => Test' \notin Seekers
      <4>1. SUFFICES ASSUME GetCrl PROVE Test' \notin Seekers
        OBVIOUS
      <4>2. UNCHANGED <<setup, turn>>
        BY <2>3, <4>1 DEF GetCrl, ReportCheck, CrlStep
      <4>3. Test' = Test /\ Test \in Checks
        BY <4>1, <4>2, SameTest DEF GetCrl, StageInv
      <4>4. QED
        BY <4>3 DEF Checks, Seekers
    <3>4. pc' \notin {"try", "discover", "fetch"}
      BY <3>2
    <3>5. pc' = "read" => Test' \notin Seekers
      BY <3>2, <3>3
    <3>6. QED
      BY <3>1, <3>4, <3>5, FoundElsewhere
  <2>4. QED
    BY <2>2, <2>3
<1>5. QED
  BY <1>1, <1>2, <1>3, <1>4

LEMMA FoundProperty ==
  ASSUME FoundInv
  PROVE  PublishedIsFound
<1> DEFINE urls == Override \o setup.points
<1>1. SUFFICES ASSUME Stable, NEW status \in StatusesOf("Download")
               PROVE  (status = "PASS") = (\E i \in DOMAIN urls : FindsAt(urls[i]))
  BY Zenon DEF PublishedIsFound, Stable
<1>2. UrlsToTry = urls
  BY <1>1 DEF UrlsToTry, CertUrls, Stable
<1>3. Leads(UrlsToTry) <=> \E i \in DOMAIN urls : FindsAt(urls[i])
  BY <1>2, Zenon DEF Leads
<1>4. Reported("Download", status)
  BY <1>1 DEF StatusesOf, Reported
<1>5. status = "PASS" <=> Leads(UrlsToTry)
  BY <1>1, <1>4 DEF FoundInv
<1> HIDE DEF urls
<1>6. QED
  BY <1>3, <1>5
-----------------------------------------------------------------------------
(* An outage *)

Outage == setup.responder = "silent" /\ Serving({"dead", "blocked"})

(* What a test notes of a responder that says nothing. *)
Unheard(t) ==
  IF t \in {"Latency", "Load", "Caching"} THEN {"raised"}
  ELSE IF t = "Nonce echo" THEN {"raised", "nothing"} ELSE {"FAIL", "ERROR", "SKIP"}

SilentInv ==
  Outage =>
    /\ pc \notin {"fetch", "read"} /\ working = {} /\ text.code # "0"
    /\ pc = "script" /\ Test \notin PassesUnheard =>
         \A i \in DOMAIN notes : notes[i] \in Unheard(Test)
    /\ \A t : Reported(t, "PASS") => t \in PassesUnheard

LEMMA Silence ==
  /\ Raises(Bare("silence")) /\ Bare("silence").kind = "silence"
  /\ ~Successful(Bare("silence"))
  /\ Raised.code = "raised" /\ Ran("1", Bare("silence")).code = "1"
  /\ Ran("1", Bare("silence")).of = Bare("silence")
  BY DEF Raises, Bare, Failures, Successful, Raised, Ran

LEMMA SilentOutcomes ==
  ASSUME setup.responder = "silent", NEW x, NEW out \in Outcomes(x)
  PROVE  /\ x.via = "client" => out = Bare("silence")
         /\ x.via = "openssl" => out \in {Raised, Ran("1", Bare("silence"))}
<1>1. \A q : AnswersTo(q, setup.responder) = {Bare("silence")}
  BY AnswersOf
<1>2. Openssl(Bare("silence")) = {Ran("1", Bare("silence")), Raised}
  BY Silence DEF Openssl
<1>3. ASSUME x.via = "client" PROVE out = Bare("silence")
  BY <1>1, <1>3, OutcomesOf
<1>4. ASSUME x.via = "openssl" PROVE out \in {Raised, Ran("1", Bare("silence"))}
  <2>1. CASE setup.openssl = "missing"
    BY <1>4, <2>1, OutcomesOf
  <2>2. CASE setup.openssl # "missing"
    <3>1. Outcomes(x) = UNION {Openssl(a) : a \in {Bare("silence")}}
      BY <1>1, <1>4, <2>2, OutcomesOf
    <3>2. out \in Openssl(Bare("silence"))
      BY <3>1
    <3>3. QED
      BY <1>2, <3>2
  <2>3. QED
    BY <2>1, <2>2
<1>5. QED
  BY <1>3, <1>4

(* The client over which a test asks. *)
ClientTests ==
  {"GET", "POST", "DER fields", "SHA-1 CertID", "Timestamps", "Algorithm present",
   "Response signature", "Response algorithm", "Response times", "Good", "Revoked", "Unknown CA"}

LEMMA ClientNoted ==
  ASSUME NEW t \in ClientTests, NEW i, NEW a
  PROVE  Note(t, i, a) = ClientNote(t, a)
<1>1. t \in {"GET", "POST", "DER fields", "SHA-1 CertID", "Good", "Revoked", "Unknown CA",
            "Timestamps", "Response signature", "Response algorithm", "Response times",
            "Algorithm present"}
  BY DEF ClientTests
<1>2. QED
  BY <1>1, Notes, Zenon

LEMMA ViaFacts ==
  /\ \A via, q : Exchange(via, q).via = via /\ Exchange(via, q).q = q
  /\ \A cert, nonce : /\ Text(cert, nonce).via = "openssl"
                      /\ Text(cert, nonce).q = Asks(cert, nonce, "POST")
  /\ Local.via = "local"
  BY DEF Exchange, Text, Local

LEMMA Vias ==
  ASSUME NEW s \in SetupType, NEW t, NEW i \in 1..Len(Script(t, s))
  PROVE  /\ t \in Scripted
         /\ t \in ClientTests \cup {"Latency", "Load", "Caching"} => Script(t, s)[i].via = "client"
         /\ t \in {"Nonce echo", "Preference", "Signer signature"} =>
              Script(t, s)[i].via = "openssl"
<1>1. ASSUME t \notin Scripted PROVE FALSE
  BY <1>1, NoScript, Empty
<1>2. ASSUME t \in {"GET", "POST"} PROVE Script(t, s)[i].via = "client"
  <2>1. Len(Script(t, s)) = 1 /\ Script(t, s)[1] = Exchange("client", Asks(Sample(s.supplied), "valid", t))
    BY <1>2, TransportScript, Zenon
  <2>2. i = 1
    BY <2>1
  <2>3. QED
    BY <2>1, <2>2, ViaFacts
<1>3. ASSUME t \in {"DER fields", "SHA-1 CertID", "Timestamps", "Algorithm present",
                    "Response signature", "Response algorithm", "Response times"}
      PROVE  Script(t, s)[i].via = "client"
  <2>1. Len(Script(t, s)) = 1 /\ Script(t, s)[1] = Exchange("client", Asks(Sample(s.supplied), "none", "POST"))
    BY <1>3, PlainScript, Zenon
  <2>2. i = 1
    BY <2>1
  <2>3. QED
    BY <2>1, <2>2, ViaFacts
<1>4. ASSUME t \in {"Good", "Revoked", "Unknown CA"} PROVE Script(t, s)[i].via = "client"
  BY <1>4, CertExchange, ViaFacts
<1>5. ASSUME t \in {"Latency", "Load", "Caching"} PROVE Script(t, s)[i].via = "client"
  BY <1>5, RepeatedExchange, ViaFacts
<1>6. ASSUME t = "Nonce echo" PROVE Script(t, s)[i].via = "openssl"
  <2>1. PICK nonce : Script(t, s)[i] = Text("issuer", nonce)
    BY <1>6, NonceScript, Zenon
  <2>2. QED
    BY <2>1, ViaFacts
<1>7. ASSUME t \in {"Preference", "Signer signature"} PROVE Script(t, s)[i].via = "openssl"
  <2>1. Len(Script(t, s)) = 1 /\ \E cert : Script(t, s)[1] = Text(cert, "valid")
    BY <1>7, TextScript, Zenon
  <2>2. i = 1
    BY <2>1
  <2>3. QED
    BY <2>1, <2>2, ViaFacts
<1>8. QED
  BY <1>1, <1>2, <1>3, <1>4, <1>5, <1>6, <1>7 DEF ClientTests

LEMMA SilentNote ==
  ASSUME StageInv, Outage, Test \notin PassesUnheard,
         NEW i \in 1..Len(ScriptHere), NEW out \in Outcomes(ScriptHere[i])
  PROVE  Note(Test, i, out) \in Unheard(Test)
<1>1. PICK t, s : t = Test /\ s = setup /\ s \in SetupType
  BY SetupTyped
<1>2. /\ t \in Scripted
      /\ t \in ClientTests \cup {"Latency", "Load", "Caching"} => ScriptHere[i].via = "client"
      /\ t \in {"Nonce echo", "Preference", "Signer signature"} => ScriptHere[i].via = "openssl"
  BY <1>1, Vias DEF ScriptHere
<1>3. setup.responder = "silent"
  BY DEF Outage
<1>4. CASE t \in ClientTests
  <2>1. out = Bare("silence")
    BY <1>2, <1>3, <1>4, SilentOutcomes
  <2>2. Note(t, i, out) = ClientNote(t, out)
    BY <1>4, ClientNoted
  <2>3. Raises(out)
    BY <2>1, Silence
  <2>4. ClientNote(t, out) \in {"FAIL", "ERROR"}
    <3>1. CASE t \in {"GET", "POST"}
      BY <2>3, <3>1, ClientNotes DEF TransportNote
    <3>2. CASE t \notin {"GET", "POST"}
      BY <1>4, <2>3, <3>2, ClientNotes DEF ClientTests, DerNote, Sha1Note, StatusNote, UnknownCaNote,
         TimestampsNote, SignaturePresentNote, AlgorithmNote, TimesNote, AlgorithmPresentNote, OrError
    <3>3. QED
      BY <3>1, <3>2
  <2>5. QED
    BY <1>1, <1>4, <2>2, <2>4 DEF Unheard, ClientTests
<1>5. CASE t \in {"Latency", "Load", "Caching"}
  <2>1. out = Bare("silence")
    BY <1>2, <1>3, <1>5, SilentOutcomes
  <2>2. Note(t, i, out) = "raised"
    BY <1>5, <2>1, Notes, Silence
  <2>3. QED
    BY <1>1, <1>5, <2>2 DEF Unheard
<1>6. CASE t \in {"Nonce echo", "Preference", "Signer signature"}
  <2>1. out \in {Raised, Ran("1", Bare("silence"))}
    BY <1>2, <1>3, <1>6, SilentOutcomes
  <2>2. out.code \in {"raised", "1"} /\ (out.code = "1" => out.of.kind = "silence")
    BY <2>1, Silence
  <2>3. CASE t = "Nonce echo"
    <3>1. ~Prints(out, "unauthorized")
      BY <2>2 DEF Prints
    <3>2. NonceNote(i, out) \in {"raised", "nothing"}
      <4>1. CASE out.code = "raised"
        BY <4>1, Zenon DEF NonceNote
      <4>2. CASE out.code = "1"
        <5>1. out.code # "raised" /\ out.code # "0"
          BY <4>2
        <5>2. NonceNote(i, out) = "nothing"
          BY <3>1, <5>1, Zenon DEF NonceNote
        <5>3. QED
          BY <5>2
      <4>3. QED
        BY <2>2, <4>1, <4>2
    <3>3. QED
      BY <1>1, <2>3, <3>2, Notes DEF Unheard
  <2>4. CASE t = "Preference"
    <3>1. out.code # "0"
      BY <2>2
    <3>2. Assessment(out) = "CRITICAL"
      BY <3>1, Zenon DEF Assessment
    <3>3. PreferenceNote(out) = "SKIP"
      BY <3>2, Zenon DEF PreferenceNote
    <3>4. QED
      BY <1>1, <2>4, <3>3, Notes DEF Unheard
  <2>5. CASE t = "Signer signature"
    <3>1. SignatureNote(out) = "FAIL"
      BY <2>2 DEF SignatureNote, HasText
    <3>2. QED
      BY <1>1, <2>5, <3>1, Notes DEF Unheard
  <2>6. QED
    BY <1>6, <2>3, <2>4, <2>5
<1>7. QED
  BY <1>1, <1>2, <1>4, <1>5, <1>6 DEF Scripted, ClientTests, PassesUnheard

LEMMA SilentVerdict ==
  ASSUME NotesInv, Test \notin PassesUnheard, text.code # "0",
         \A i \in DOMAIN notes : notes[i] \in Unheard(Test)
  PROVE  Verdict(Test, notes, text) # "PASS"
<1>1. PICK t : t = Test
  OBVIOUS
<1>2. notes # <<>> => 1 \in DOMAIN notes
  <2>1. PICK S : notes \in Seq(S)
    BY DEF NotesInv, IsSeq
  <2>2. QED
    BY <2>1
<1>3. CASE t \in {"Batch", "Delegated EKU", "Interval"}
  <2>1. ~HasText(text)
    BY DEF HasText
  <2>2. BatchVerdict(text) = "SKIP" /\ DelegatedVerdict(text) = "SKIP"
    BY <2>1 DEF BatchVerdict, DelegatedVerdict
  <2>3. IntervalVerdict(text) = "FAIL"
    BY <2>1, Zenon DEF IntervalVerdict
  <2>4. /\ Verdict("Batch", notes, text) = BatchVerdict(text)
        /\ Verdict("Delegated EKU", notes, text) = DelegatedVerdict(text)
        /\ Verdict("Interval", notes, text) = IntervalVerdict(text)
    BY Verdicts, Zenon
  <2>5. QED
    BY <1>1, <1>3, <2>2, <2>3, <2>4
<1>4. CASE notes = <<>> /\ t \notin {"Batch", "Delegated EKU", "Interval"}
  <2>1. CASE t \in {"Nonce echo", "Latency", "Load", "Caching"}
    BY <1>1, <1>4, <2>1, Verdicts
  <2>2. CASE t \notin {"Nonce echo", "Latency", "Load", "Caching"}
    BY <1>1, <1>4, <2>2, OtherVerdict DEF PassesUnheard
  <2>3. QED
    BY <2>1, <2>2
<1>5. CASE notes # <<>> /\ t \in {"Latency", "Load", "Caching"}
  <2>1. notes[1] = "raised"
    BY <1>1, <1>2, <1>5 DEF Unheard
  <2>2. AnsweredVerdict(notes) = "ERROR"
    BY <1>2, <1>5, <2>1 DEF AnsweredVerdict
  <2>3. QED
    BY <1>1, <1>5, <2>2, Verdicts
<1>6. CASE notes # <<>> /\ t = "Nonce echo"
  <2>1. \A i \in DOMAIN notes : notes[i] \in {"raised", "nothing"}
    BY <1>1, <1>6 DEF Unheard
  <2>2. PICK found : found = {notes[i] : i \in DOMAIN notes}
    OBVIOUS
  <2>3. "echoed" \notin found /\ "supported" \notin found /\ "unauthorized" \notin found
    BY <2>1, <2>2
  <2>4. NonceVerdict(notes) = "FAIL"
    BY <2>2, <2>3, Zenon DEF NonceVerdict
  <2>5. Verdict("Nonce echo", notes, text) = NonceVerdict(notes)
    BY <1>6, Verdicts, Zenon
  <2>6. QED
    BY <1>1, <1>6, <2>4, <2>5
<1>7. CASE notes # <<>> /\ t \notin {"Batch", "Delegated EKU", "Interval", "Nonce echo", "Latency", "Load", "Caching"}
  <2>1. notes[1] \in {"FAIL", "ERROR", "SKIP"}
    BY <1>1, <1>2, <1>7 DEF Unheard
  <2>2. Verdict(t, notes, text) = notes[1]
    BY <1>1, <1>7, OtherVerdict DEF PassesUnheard
  <2>3. QED
    BY <1>1, <2>1, <2>2
<1>8. QED
  BY <1>3, <1>4, <1>5, <1>6, <1>7

LEMMA SilentReport ==
  ASSUME StageInv, SilentInv, UNCHANGED <<setup, text>>, NEW status, Report(status),
         Outage /\ status = "PASS" => Test \in PassesUnheard
  PROVE  SilentInv'
<1>1. PICK t : t = Test
  OBVIOUS
<1>2. (Outage' <=> Outage) /\ pc' = "next" /\ working' = {} /\ UNCHANGED text
  BY DEF Outage, Serving, Report, None
<1>3. \A c : Reported(c, "PASS")' <=> Reported(c, "PASS") \/ (c = t /\ "PASS" = status)
  BY <1>1, ReportFacts
<1>4. QED
  BY <1>1, <1>2, <1>3 DEF SilentInv

LEMMA SilentStays ==
  ASSUME StageInv, SilentInv, UNCHANGED <<setup, turn, results>>,
         Outage => /\ pc' \notin {"fetch", "read"} /\ working' = {} /\ text'.code # "0"
                   /\ pc' = "script" /\ Test \notin PassesUnheard =>
                        \A i \in DOMAIN notes' : notes'[i] \in Unheard(Test)
  PROVE  SilentInv'
<1>1. (Outage' <=> Outage) /\ Test' = Test
  BY SameTest DEF Outage, Serving
<1>2. \A c : Reported(c, "PASS")' <=> Reported(c, "PASS")
  BY DEF Reported
<1>3. Unheard(Test)' = Unheard(Test)
  BY <1>1 DEF Unheard
<1>4. QED
  BY <1>1, <1>2, <1>3 DEF SilentInv

LEMMA OutageServes ==
  ASSUME Outage, NEW p \in Places, NEW d \in Served(p)
  PROVE  d.form \in {"failed", "blocked"} /\ Failing(d)
<1>1. setup.site # <<>> /\ setup.site[p] \in {"dead", "blocked"}
  BY DEF Outage, Serving
<1>2. d = Blank("failed") \/ d = Blank("blocked")
  BY <1>1, ServedAt
<1>3. QED
  BY <1>2, Forms DEF Failing

LEMMA SilentText ==
  ASSUME Outage, SilentInv, Start
  PROVE  text'.code # "0"
<1>1. CASE UNCHANGED text
  BY <1>1 DEF SilentInv
<1>2. CASE text' \in Outcomes(FetchText(setup.supplied))
  <2>1. FetchText(setup.supplied).via = "openssl"
    BY ViaFacts DEF FetchText
  <2>2. text' \in {Raised, Ran("1", Bare("silence"))}
    BY <1>2, <2>1, SilentOutcomes DEF Outage
  <2>3. QED
    BY <2>2, Silence
<1>3. QED
  BY <1>1, <1>2 DEF Start

LEMMA SilentOcsp ==
  ASSUME StageInv, NotesInv, SilentInv, OcspSteps
  PROVE  SilentInv'
<1>1. CASE Start
  <2>1. UNCHANGED <<setup, turn, results, working>> /\ pc' = "next"
    BY <1>1 DEF Start, crlVars
  <2>2. QED
    BY <1>1, <2>1, SilentText, SilentStays DEF SilentInv
<1>2. CASE SkipTest
  <2>1. UNCHANGED <<setup, pc, text, working, results>> /\ pc = "next"
    BY <1>2 DEF SkipTest, crlVars
  <2>2. Outage' <=> Outage
    BY <2>1 DEF Outage, Serving
  <2>3. \A c : Reported(c, "PASS")' <=> Reported(c, "PASS")
    BY <2>1 DEF Reported
  <2>4. QED
    BY <2>1, <2>2, <2>3 DEF SilentInv
<1>3. CASE BeginScript
  <2>1. UNCHANGED <<setup, turn, text, working, results, notes>> /\ pc' = "script" /\ notes = <<>>
    BY <1>3 DEF BeginScript, crlVars, NotesInv
  <2>2. \A i \in DOMAIN notes' : FALSE
    BY <2>1
  <2>3. QED
    BY <2>1, <2>2, SilentStays DEF SilentInv
<1>4. CASE ExchangeStep
  <2>1. UNCHANGED <<setup, turn, text, working, results, pc>> /\ pc = "script"
    BY <1>4 DEF ExchangeStep, crlVars
  <2>2. PICK k : k = Len(notes) + 1
    OBVIOUS
  <2>3. PICK out \in Outcomes(ScriptHere[k]) : notes' = Append(notes, Note(Test, k, out))
    BY <1>4, <2>2 DEF ExchangeStep
  <2>4. /\ Len(notes) \in Nat /\ notes'[k] = Note(Test, k, out)
        /\ \A i \in 1..Len(notes) : notes'[i] = notes[i]
        /\ DOMAIN notes' = 1..k /\ DOMAIN notes = 1..Len(notes)
    BY <2>2, <2>3, Noted
  <2>5. k \in 1..Len(ScriptHere)
    <3>1. Len(notes) < Len(ScriptHere)
      BY <1>4 DEF ExchangeStep, More
    <3>2. QED
      BY <2>2, <2>4, <3>1, ScriptHereFacts
  <2>6. ASSUME Outage, Test \notin PassesUnheard, NEW i \in DOMAIN notes'
        PROVE  notes'[i] \in Unheard(Test)
    <3>1. CASE i = k
      BY <2>3, <2>4, <2>5, <2>6, <3>1, SilentNote
    <3>2. CASE i # k
      <4>1. i \in 1..Len(notes)
        BY <2>2, <2>4, <3>2
      <4>2. QED
        BY <2>1, <2>4, <2>6, <4>1 DEF SilentInv
    <3>3. QED
      BY <3>1, <3>2
  <2>7. QED
    BY <2>1, <2>6, SilentStays DEF SilentInv
<1>5. CASE Judge
  <2>1. PICK status : status = Verdict(Test, notes, text)
    OBVIOUS
  <2>2. pc = "script" /\ Report(status) /\ UNCHANGED <<setup, text>>
    BY <1>5, <2>1 DEF Judge, ReportHere
  <2>3. Outage /\ status = "PASS" => Test \in PassesUnheard
    BY <2>1, <2>2, SilentVerdict DEF SilentInv
  <2>4. QED
    BY <2>2, <2>3, SilentReport
<1>6. QED
  BY <1>1, <1>2, <1>3, <1>4, <1>5 DEF OcspSteps

LEMMA SilentCrl ==
  ASSUME StageInv, ListInv, SilentInv, CrlSteps
  PROVE  SilentInv'
<1>1. ASSUME NEW status, Report(status), UNCHANGED <<setup, text>>,
             status # "PASS" \/ Test \in PassesUnheard \/ ~Outage
      PROVE  SilentInv'
  BY <1>1, SilentReport
<1>2. ASSUME UNCHANGED <<setup, turn, results, text>>, UNCHANGED working \/ ~Outage,
             pc' \notin {"fetch", "read", "script"} \/ ~Outage
      PROVE  SilentInv'
  BY <1>2, SilentStays DEF SilentInv
<1>3. CASE Extract
  <2>1. Test \in PassesUnheard /\ \E status : ReportHere(status)
    BY <1>3, Zenon DEF Extract, PassesUnheard
  <2>2. QED
    BY <1>1, <2>1 DEF ReportHere
<1>4. CASE BeginSeek
  BY <1>1, <1>2, <1>4 DEF BeginSeek, ReportHere, CrlStep
<1>5. CASE NextUrl
  BY <1>1, <1>2, <1>5 DEF NextUrl, ReportHere, CrlStep
<1>6. ASSUME NEW p, ~Outage, FoundAt(p) PROVE SilentInv'
  BY <1>2, <1>6 DEF FoundAt, CrlStep
<1>7. CASE TryUrl
  <2>1. PICK u : u = Head(untried)
    OBVIOUS
  <2>2. <<u, 0>> \in Places
    BY <1>7, <2>1, Parts, FirstPlace DEF ListInv, TryUrl
  <2>3. PICK d \in Served(<<u, 0>>) :
          \/ d.form = "blocked" /\ ReportHere("ERROR")
          \/ /\ d.form = "failed" /\ probes' = Probes(u)
             /\ CrlStep("discover") /\ UNCHANGED <<untried, working, crl, temp, sent>>
          \/ ~Failing(d) /\ LooksLikeCrl(d) /\ FoundAt(<<u, 0>>)
          \/ ~Failing(d) /\ ~LooksLikeCrl(d) /\ NextUrl
    BY <1>7, <2>1 DEF TryUrl
  <2>4. Outage => Failing(d)
    BY <2>2, <2>3, OutageServes
  <2>5. CASE CrlStep("discover") /\ UNCHANGED working
    BY <1>2, <2>5 DEF CrlStep
  <2>6. CASE ReportHere("ERROR")
    BY <1>1, <2>6 DEF ReportHere
  <2>7. QED
    BY <1>5, <1>6, <2>3, <2>4, <2>5, <2>6
<1>8. CASE Discover
  <2>1. PICK p : p = Head(probes)
    OBVIOUS
  <2>2. p \in Places
    BY <1>8, <2>1, Parts DEF ListInv, Discover
  <2>3. PICK d \in Served(p) :
          \/ d.form = "blocked" /\ ReportHere("ERROR")
          \/ ~Failing(d) /\ LooksLikeCrl(d) /\ FoundAt(p)
          \/ NextUrl
          \/ CrlStep("discover") /\ UNCHANGED working
    BY <1>8, <2>1 DEF Discover
  <2>4. Outage => Failing(d)
    BY <2>2, <2>3, OutageServes
  <2>5. CASE CrlStep("discover") /\ UNCHANGED working
    BY <1>2, <2>5 DEF CrlStep
  <2>6. CASE ReportHere("ERROR")
    BY <1>1, <2>6 DEF ReportHere
  <2>7. QED
    BY <1>5, <1>6, <2>3, <2>4, <2>5, <2>6
<1>9. CASE Fetch
  <2>1. ~Outage
    BY <1>9 DEF Fetch, SilentInv
  <2>2. QED
    BY <1>1, <1>2, <1>9, <2>1 DEF Fetch, ReportHere, CrlStep
<1>10. CASE Read
  <2>1. ~Outage
    BY <1>10 DEF Read, SilentInv
  <2>2. \E status : ReportHere(status)
    BY <1>10, ReadFacts
  <2>3. QED
    BY <1>1, <2>1, <2>2 DEF ReportHere
<1>11. CASE BeginAccessibility
  BY <1>1, <1>2, <1>11 DEF BeginAccessibility, ReportHere, CrlStep
<1>12. CASE Head200
  <2>1. CASE untried = <<>>
    <3>1. ReportHere(PassOrFail(working # None))
      BY <1>12, <2>1 DEF Head200
    <3>2. Outage => PassOrFail(working # None) = "FAIL"
      BY DEF SilentInv, PassOrFail, None
    <3>3. QED
      BY <1>1, <3>1, <3>2 DEF ReportHere
  <2>2. CASE untried # <<>>
    <3>1. <<Head(untried), 0>> \in Places
      BY <2>2, Parts, FirstPlace DEF ListInv
    <3>2. PICK d \in Served(<<Head(untried), 0>>) :
            \/ d.form = "blocked" /\ ReportHere("ERROR")
            \/ /\ d.form # "blocked"
               /\ working' = IF d.form = "failed" THEN working ELSE Some(<<Head(untried), 0>>)
               /\ CrlStep("head") /\ UNCHANGED <<probes, crl, temp, sent>>
      BY <1>12, <2>2 DEF Head200
    <3>3. Outage => d.form \in {"failed", "blocked"}
      BY <3>1, <3>2, OutageServes
    <3>4. CASE ReportHere("ERROR")
      BY <1>1, <3>4 DEF ReportHere
    <3>5. CASE /\ d.form # "blocked"
               /\ working' = IF d.form = "failed" THEN working ELSE Some(<<Head(untried), 0>>)
               /\ CrlStep("head")
      <4>1. UNCHANGED working \/ ~Outage
        BY <3>3, <3>5
      <4>2. QED
        BY <1>2, <3>5, <4>1 DEF CrlStep
    <3>6. QED
      BY <3>2, <3>4, <3>5
  <2>3. QED
    BY <2>1, <2>2
<1>13. CASE BeginCheck
  BY <1>1, <1>2, <1>13 DEF BeginCheck, ReportHere, CrlStep
<1>14. CASE AskStatus
  BY <1>1, <1>2, <1>14 DEF AskStatus, crlVars
<1>15. CASE GetCrl
  <2>1. CheckUrl[1] \in Urls
    <3>1. CheckUrl \in Seq(Urls) /\ CheckUrl # <<>>
      BY <1>15, UrlLists DEF GetCrl, ListInv
    <3>2. QED
      BY <3>1
  <2>2. <<CheckUrl[1], 0>> \in Places
    BY <2>1, FirstPlace
  <2>3. PICK d \in Served(<<CheckUrl[1], 0>>) :
          \/ Failing(d) /\ ReportCheck("ERROR")
          \/ ~Failing(d) /\ CrlStep("read") /\ UNCHANGED working
    BY <1>15 DEF GetCrl
  <2>4. Outage => Failing(d)
    BY <2>2, <2>3, OutageServes
  <2>5. CASE ReportCheck("ERROR")
    BY <1>1, <2>5 DEF ReportCheck
  <2>6. CASE ~Failing(d) /\ CrlStep("read") /\ UNCHANGED working
    BY <1>2, <2>4, <2>6 DEF CrlStep
  <2>7. QED
    BY <2>3, <2>5, <2>6
<1>16. CASE ReadCheck
  <2>1. ~Outage
    BY <1>16 DEF ReadCheck, SilentInv
  <2>2. \E status : ReportCheck(status)
    BY <1>16 DEF ReadCheck
  <2>3. QED
    BY <1>1, <2>1, <2>2 DEF ReportCheck
<1>17. CASE FetchConfigured
  <2>1. Test \in Urls
    BY <1>17 DEF FetchConfigured
  <2>2. <<Test, 0>> \in Places
    BY <2>1, FirstPlace
  <2>3. PICK d \in Served(<<Test, 0>>) :
       ReportHere(CASE d.form = "blocked" -> "ERROR"
                    [] d.form # "crl" /\ d.form # "blocked" -> "FAIL"
                    [] OTHER -> IF d.age = "past" THEN "WARN" ELSE "PASS")
    BY <1>17, Zenon DEF FetchConfigured
  <2>4. PICK status : /\ ReportHere(status)
                      /\ status = (CASE d.form = "blocked" -> "ERROR"
                                     [] d.form # "crl" /\ d.form # "blocked" -> "FAIL"
                                     [] OTHER -> IF d.age = "past" THEN "WARN" ELSE "PASS")
    BY <2>3, Zenon
  <2>5. ASSUME Outage PROVE status # "PASS"
    <3>1. d.form \in {"failed", "blocked"}
      BY <2>2, <2>3, <2>5, OutageServes
    <3>2. CASE d.form = "blocked"
      <4>1. status = "ERROR"
        BY <2>4, <3>2, Zenon
      <4>2. QED
        BY <4>1
    <3>3. CASE d.form = "failed"
      <4>1. d.form # "blocked" /\ d.form # "crl"
        BY <3>3
      <4>2. status = "FAIL"
        BY <2>4, <4>1, Zenon
      <4>3. QED
        BY <4>2
    <3>4. QED
      BY <3>1, <3>2, <3>3
  <2>6. QED
    BY <1>1, <2>4, <2>5 DEF ReportHere
<1>18. QED
  BY <1>3, <1>4, <1>7, <1>8, <1>9, <1>10, <1>11, <1>12, <1>13, <1>14, <1>15, <1>16, <1>17
     DEF CrlSteps

LEMMA SilentStep ==
  ASSUME StageInv, NotesInv, ListInv, SilentInv, [Next]_vars
  PROVE  SilentInv'
<1>1. CASE UNCHANGED vars
  <2>1. UNCHANGED <<setup, turn, results, text, working, pc, notes>>
    BY <1>1 DEF vars, crlVars
  <2>2. QED
    BY <2>1, SilentStays DEF SilentInv
<1>2. CASE OcspSteps
  BY <1>2, SilentOcsp
<1>3. CASE CrlSteps
  BY <1>3, SilentCrl
<1>4. QED
  BY <1>1, <1>2, <1>3 DEF Next

LEMMA SilentProperty ==
  ASSUME SilentInv
  PROVE  SilentNeverPasses
<1>1. SUFFICES ASSUME Outage, NEW i \in DOMAIN results, results[i].status = "PASS"
               PROVE  results[i].test \in PassesUnheard
  BY DEF SilentNeverPasses, Outage
<1>2. Reported(results[i].test, "PASS")
  BY <1>1 DEF Reported
<1>3. QED
  BY <1>1, <1>2 DEF SilentInv
-----------------------------------------------------------------------------
(* A conforming responder, with openssl and with a CA that publishes its   *)
(* CRL: the hypothesis of ConformingNeverFails.                            *)
Exemplary ==
  /\ setup.responder \in Policies /\ setup.openssl = "works"
  /\ HasTestCert /\ setup.points # <<>> /\ Serving({"crl"})

(* The status of a certificate of the CA. *)
Expected(cert) == IF cert = "good" THEN "GOOD" ELSE "REVOKED"

LEMMA SampleCert ==
  ASSUME HasTestCert
  PROVE  Sample(setup.supplied) \in {"good", "revoked"}
<1>1. "good" \in setup.supplied \/ "revoked" \in setup.supplied
  BY DEF HasTestCert
<1>2. CASE "good" \in setup.supplied
  <2>1. Sample(setup.supplied) = "good"
    BY <1>2, Zenon DEF Sample
  <2>2. QED
    BY <2>1
<1>3. CASE "good" \notin setup.supplied /\ "revoked" \in setup.supplied
  <2>1. Sample(setup.supplied) = "revoked"
    BY <1>3, Zenon DEF Sample
  <2>2. QED
    BY <2>1
<1>4. QED
  BY <1>1, <1>2, <1>3

LEMMA Replied ==
  ASSUME NEW status, NEW q, NEW a \in Answering(status, q)
  PROVE  /\ a \in Replies /\ a.kind = "successful" /\ Successful(a) /\ ~Raises(a)
         /\ Sound(a) /\ a.status = status /\ a.nonce = (q.nonce # "none")
<1>1. a \in Replies /\ Sound(a) /\ a.status = status /\ a.nonce = (q.nonce # "none")
  BY DEF Answering
<1>2. a.kind = "successful"
  BY <1>1, OcspAssumption
<1>3. QED
  BY <1>1, <1>2 DEF Successful, Raises, Failures

LEMMA ConformingAnswers ==
  ASSUME NEW policy \in Policies, NEW q, q.form = "whole", q.nonce \notin {"zero", "overlong"},
         NEW a \in Conforming(q, policy)
  PROVE  /\ q.cert \in {"good", "revoked"} => a \in Answering(Expected(q.cert), q)
         /\ q.cert \notin {"good", "revoked"} /\ policy = "refuses" => a = Bare("unauthorized")
         /\ q.cert \notin {"good", "revoked"} /\ policy # "refuses" => a \in Answering("UNKNOWN", q)
<1>1. a \in (CASE q.cert = "good" -> Answering("GOOD", q)
               [] q.cert = "revoked" -> Answering("REVOKED", q)
               [] OTHER -> IF policy = "refuses" THEN {Bare("unauthorized")}
                           ELSE Answering("UNKNOWN", q))
  BY Zenon DEF Conforming
<1>2. ASSUME q.cert = "good" PROVE a \in Answering("GOOD", q)
  BY <1>1, <1>2, Zenon
<1>3. ASSUME q.cert = "revoked" PROVE a \in Answering("REVOKED", q)
  BY <1>1, <1>3, Zenon
<1>4. ASSUME q.cert # "good", q.cert # "revoked", policy = "refuses" PROVE a = Bare("unauthorized")
  BY <1>1, <1>4, Zenon
<1>5. ASSUME q.cert # "good", q.cert # "revoked", policy # "refuses"
      PROVE  a \in Answering("UNKNOWN", q)
  BY <1>1, <1>5, Zenon
<1>6. QED
  BY <1>2, <1>3, <1>4, <1>5 DEF Expected

LEMMA OverriddenFacts ==
  ASSUME NEW cert, NEW nonce \in {"valid", "none"}, NEW method, NEW module, NEW runtime, NEW q,
         q = Overridden(Asks(cert, nonce, method), module, runtime)
  PROVE  q.form = "whole" /\ q.cert = cert /\ q.nonce \in {"valid", "none"}
  BY DEF Overridden, Asks

LEMMA AskedFacts ==
  ASSUME NEW cert, NEW nonce, NEW method
  PROVE  /\ Asks(cert, nonce, method).form = "whole" /\ Asks(cert, nonce, method).cert = cert
         /\ Asks(cert, nonce, method).nonce = nonce
  BY DEF Asks

(* What the client of the engine gets. *)
LEMMA ClientOutcome ==
  ASSUME Exemplary, NEW cert, NEW nonce \in {"valid", "none"}, NEW method, NEW x,
         x = Exchange("client", Asks(cert, nonce, method)), NEW out \in Outcomes(x)
  PROVE  /\ cert \in {"good", "revoked"} => \E q : out \in Answering(Expected(cert), q)
         /\ cert \notin {"good", "revoked"} /\ setup.responder = "refuses" =>
              out = Bare("unauthorized")
         /\ cert \notin {"good", "revoked"} /\ setup.responder # "refuses" =>
              \E q : out \in Answering("UNKNOWN", q)
<1>1. PICK q : q = Overridden(Asks(cert, nonce, method), Module(Test), setup.runtime)
  OBVIOUS
<1>2. q.form = "whole" /\ q.cert = cert /\ q.nonce \notin {"zero", "overlong"}
  BY <1>1, OverriddenFacts
<1>3. x.via = "client" /\ x.q = Asks(cert, nonce, method)
  BY ViaFacts
<1>4. PICK policy : policy = setup.responder /\ policy \in Policies
  BY DEF Exemplary
<1>5. out \in AnswersTo(q, policy)
  BY <1>1, <1>3, <1>4, OutcomesOf
<1>6. out \in Conforming(q, policy)
  BY <1>4, <1>5, AnswersOf
<1>7. QED
  BY <1>2, <1>4, <1>6, ConformingAnswers

(* What openssl gets. *)
LEMMA OpensslOutcome ==
  ASSUME Exemplary, NEW cert, NEW nonce \in {"valid", "none"}, NEW out \in Outcomes(Text(cert, nonce))
  PROVE  /\ cert \in {"good", "revoked"} =>
              \E a \in Answering(Expected(cert), Asks(cert, nonce, "POST")) : out = Ran("0", a)
         /\ cert \notin {"good", "revoked"} /\ setup.responder = "refuses" =>
              out = Ran("1", Bare("unauthorized"))
         /\ cert \notin {"good", "revoked"} /\ setup.responder # "refuses" =>
              \E a \in Answering("UNKNOWN", Asks(cert, nonce, "POST")) : out = Ran("0", a)
<1>1. PICK q : q = Asks(cert, nonce, "POST")
  OBVIOUS
<1>2. q.form = "whole" /\ q.cert = cert /\ q.nonce \notin {"zero", "overlong"}
  BY <1>1, AskedFacts
<1>3. PICK policy : policy = setup.responder /\ policy \in Policies
  BY DEF Exemplary
<1>4. Outcomes(Text(cert, nonce)) = UNION {Openssl(a) : a \in AnswersTo(q, policy)}
  <2>1. Text(cert, nonce).via = "openssl" /\ Text(cert, nonce).q = q /\ setup.openssl # "missing"
    BY <1>1, ViaFacts DEF Exemplary
  <2>2. PICK x : x = Text(cert, nonce)
    OBVIOUS
  <2>3. QED
    BY <1>3, <2>1, <2>2, OutcomesOf
<1>5. PICK a \in Conforming(q, policy) : out \in Openssl(a)
  <2>1. AnswersTo(q, policy) = Conforming(q, policy)
    BY <1>3, AnswersOf
  <2>2. QED
    BY <1>4, <2>1
<1>6. ASSUME NEW status, a \in Answering(status, q) PROVE out = Ran("0", a)
  <2>1. Successful(a) /\ a.kind # "silence"
    BY <1>6, Replied
  <2>2. QED
    BY <1>5, <2>1 DEF Openssl
<1>7. ASSUME a = Bare("unauthorized") PROVE out = Ran("1", Bare("unauthorized"))
  <2>1. a.kind # "silence" /\ ~Successful(a)
    BY <1>7 DEF Bare, Successful
  <2>2. QED
    BY <1>5, <1>7, <2>1 DEF Openssl
<1>8. CASE cert \in {"good", "revoked"}
  <2>1. a \in Answering(Expected(cert), q)
    BY <1>2, <1>3, <1>5, <1>8, ConformingAnswers
  <2>2. QED
    BY <1>1, <1>6, <1>8, <2>1
<1>9. CASE cert \notin {"good", "revoked"} /\ setup.responder = "refuses"
  <2>1. a = Bare("unauthorized")
    BY <1>2, <1>3, <1>5, <1>9, ConformingAnswers
  <2>2. QED
    BY <1>7, <1>9, <2>1
<1>10. CASE cert \notin {"good", "revoked"} /\ setup.responder # "refuses"
  <2>1. a \in Answering("UNKNOWN", q)
    BY <1>2, <1>3, <1>5, <1>10, ConformingAnswers
  <2>2. QED
    BY <1>1, <1>6, <1>10, <2>1
<1>11. QED
  BY <1>8, <1>9, <1>10

(* No test of a response objects to a sound one. *)
LEMMA SoundNotes ==
  ASSUME NEW a \in Replies, Sound(a), Successful(a), ~Raises(a)
  PROVE  /\ TransportNote(a) = "PASS" /\ DerNote(a) = "PASS" /\ Sha1Note(a) = "PASS"
         /\ StatusNote(a, a.status) = "PASS" /\ TimestampsNote(a) = "PASS"
         /\ SignaturePresentNote(a) = "PASS" /\ AlgorithmNote(a) = "PASS"
         /\ TimesNote(a) = "PASS" /\ AlgorithmPresentNote(a) = "PASS"
         /\ a.status = "UNKNOWN" => UnknownCaNote(a) = "PASS"
         /\ IntervalValid(a)
<1>1. /\ a.sig \in {"sha256", "sha512"}
      /\ a.produced # {} /\ \A t \in a.produced : t \in -18..0
      /\ a.this # {} /\ (\A t \in a.this : t \in -MaxAge..0)
      /\ a.next # {} /\ \A t \in a.next : t > 0
  BY DEF Sound, None, Within
<1>2. a.read
  BY DEF Sound
<1>3. \A t \in a.produced \cup a.this \cup a.next : t \in Int
  BY OcspAssumption
<1>4. ProducedAt(a) = a.produced /\ SignatureOid(a) = a.sig
  BY <1>2 DEF ProducedAt, SignatureOid
<1>5. TransportNote(a) = "PASS" /\ Sha1Note(a) = "PASS" /\ SignaturePresentNote(a) = "PASS"
  BY DEF TransportNote, Sha1Note, SignaturePresentNote, OrError, PassOrFail
<1>6. DerNote(a) = "PASS"
  BY <1>2 DEF DerNote, OrError, PassOrFail
<1>7. StatusNote(a, a.status) = "PASS" /\ (a.status = "UNKNOWN" => UnknownCaNote(a) = "PASS")
  BY DEF StatusNote, UnknownCaNote, OrError, PassOrFail
<1>8. TimestampsNote(a) = "PASS"
  BY <1>1, <1>4 DEF TimestampsNote, OrError, PassOrFail, None
<1>9. AlgorithmNote(a) = "PASS" /\ AlgorithmPresentNote(a) = "PASS"
  BY <1>1, <1>4 DEF AlgorithmNote, AlgorithmPresentNote, OrError, PassOrFail
<1>10. ~ProducedAtIssue(a)
  BY <1>1, <1>4 DEF ProducedAtIssue
<1>11. (\A t \in a.this : ~(t > 0)) /\ (\A t \in a.next : ~(t < 0))
  BY <1>1, <1>3, OcspAssumption
<1>12. TimesNote(a) = "PASS"
  BY <1>10, <1>11 DEF TimesNote, OrError, PassOrFail
<1>13. IntervalValid(a)
  <2>1. PICK t \in a.this, u \in a.next : TRUE
    BY <1>1
  <2>2. t \in -MaxAge..0 /\ u > 0 /\ u \in Int /\ MaxAge \in Nat
    BY <1>1, <1>3, <2>1, OcspAssumption
  <2>3. u > t
    BY <2>2
  <2>4. QED
    BY <2>1, <2>3 DEF IntervalValid
<1>14. QED
  BY <1>5, <1>6, <1>7, <1>8, <1>9, <1>12, <1>13

(* What a test may note of the answer of a conforming responder to its     *)
(* i-th request.                                                           *)
GoodNote(t, i, n) ==
  /\ t \in ClientTests \cup {"Preference"} => n \in {"PASS", "SKIP"} \/ t \in MayFail
  /\ t \in {"Latency", "Load", "Caching"} => n = "answered"
  /\ t = "Operational" /\ i = 2 => n = "proper"
  /\ t = "Unauthorized" /\ i # 1 => n = "unauthorized"
  /\ t = "SigRequired" => n # "detected"
  /\ t = "Nonce echo" /\ setup.responder = "refuses" =>
       n \in {"unauthorized", "nothing"} /\ (i = 1 => n = "unauthorized")
  /\ t = "Nonce echo" /\ setup.responder # "refuses" /\ i = 1 => n = "echoed"

(* A test of the client about the sample certificate has no objection. *)
LEMMA GoodSample ==
  ASSUME Exemplary, NEW nonce \in {"valid", "none"}, NEW method, NEW x,
         x = Exchange("client", Asks(Sample(setup.supplied), nonce, method)),
         NEW out \in Outcomes(x)
  PROVE  /\ ~Raises(out) /\ TransportNote(out) = "PASS" /\ DerNote(out) = "PASS"
         /\ Sha1Note(out) = "PASS" /\ TimestampsNote(out) = "PASS"
         /\ SignaturePresentNote(out) = "PASS" /\ AlgorithmNote(out) = "PASS"
         /\ TimesNote(out) = "PASS" /\ AlgorithmPresentNote(out) = "PASS"
         /\ out.status = Expected(Sample(setup.supplied))
<1>1. PICK cert : cert = Sample(setup.supplied) /\ cert \in {"good", "revoked"}
  BY SampleCert DEF Exemplary
<1>2. PICK q : out \in Answering(Expected(cert), q)
  BY <1>1, ClientOutcome
<1>3. out \in Replies /\ Sound(out) /\ Successful(out) /\ ~Raises(out) /\ out.status = Expected(cert)
  BY <1>2, Replied
<1>4. QED
  BY <1>1, <1>3, SoundNotes

(* So has a test about the certificate that its name says. *)
LEMMA GoodCert ==
  ASSUME Exemplary, NEW t \in {"Good", "Revoked", "Unknown CA"}, NEW x,
         x = Exchange("client", Asks(CertOf(t), "valid", "POST")), NEW out \in Outcomes(x)
  PROVE  ClientNote(t, out) = "PASS" \/ t \in MayFail
<1>1. CASE t = "Good"
  <2>1. CertOf(t) = "good" /\ Expected("good") = "GOOD"
    BY <1>1 DEF CertOf, Expected
  <2>2. PICK q : out \in Answering("GOOD", q)
    BY <2>1, ClientOutcome
  <2>3. StatusNote(out, out.status) = "PASS" /\ out.status = "GOOD"
    BY <2>2, Replied, SoundNotes
  <2>4. QED
    BY <1>1, <2>3, ClientNotes
<1>2. CASE t = "Revoked"
  <2>1. CertOf(t) = "revoked" /\ Expected("revoked") = "REVOKED"
    BY <1>2 DEF CertOf, Expected
  <2>2. PICK q : out \in Answering("REVOKED", q)
    BY <2>1, ClientOutcome
  <2>3. StatusNote(out, out.status) = "PASS" /\ out.status = "REVOKED"
    BY <2>2, Replied, SoundNotes
  <2>4. QED
    BY <1>2, <2>3, ClientNotes
<1>3. CASE t = "Unknown CA" /\ setup.responder # "refuses"
  <2>1. CertOf(t) = "foreign" /\ "foreign" \notin {"good", "revoked"}
    BY <1>3 DEF CertOf
  <2>2. PICK q : out \in Answering("UNKNOWN", q)
    BY <1>3, <2>1, ClientOutcome
  <2>3. UnknownCaNote(out) = "PASS"
    BY <2>2, Replied, SoundNotes
  <2>4. QED
    BY <1>3, <2>3, ClientNotes
<1>4. CASE t = "Unknown CA" /\ setup.responder = "refuses"
  BY <1>4 DEF MayFail
<1>5. QED
  BY <1>1, <1>2, <1>3, <1>4

(* A call of openssl that sends nothing ends with an error. *)
LEMMA GoodLocal ==
  ASSUME Exemplary, NEW out \in Outcomes(Local)
  PROVE  out.code = "1"
<1>1. Local.via = "local" /\ setup.openssl # "missing"
  BY ViaFacts DEF Exemplary
<1>2. PICK x : x = Local
  OBVIOUS
<1>3. out = Ran("1", Bare("silence"))
  BY <1>1, <1>2, OutcomesOf
<1>4. QED
  BY <1>3, Silence

LEMMA GoodNonce ==
  ASSUME Exemplary, NEW i \in Nat \ {0}, NEW nonce, nonce = (IF i = 2 THEN "none" ELSE "valid"),
         NEW out \in Outcomes(Text("issuer", nonce))
  PROVE  GoodNote("Nonce echo", i, NonceNote(i, out))
<1>1. nonce \in {"valid", "none"} /\ "issuer" \notin {"good", "revoked"}
  OBVIOUS
<1>2. ASSUME setup.responder = "refuses"
      PROVE  /\ NonceNote(i, out) \in {"unauthorized", "nothing"}
             /\ i = 1 => NonceNote(i, out) = "unauthorized"
  <2>1. out = Ran("1", Bare("unauthorized"))
    BY <1>1, <1>2, OpensslOutcome
  <2>2. out.code = "1" /\ out.of.kind = "unauthorized"
    BY <2>1 DEF Ran, Bare
  <2>3. Prints(out, "unauthorized") /\ out.code # "raised" /\ out.code # "0"
    BY <2>2 DEF Prints
  <2>4. NonceNote(i, out) = IF i <= 2 THEN "unauthorized" ELSE "nothing"
    BY <2>3, Zenon DEF NonceNote
  <2>5. QED
    BY <2>4
<1>3. ASSUME setup.responder # "refuses", i = 1 PROVE NonceNote(i, out) = "echoed"
  <2>1. PICK q : q = Asks("issuer", nonce, "POST")
    OBVIOUS
  <2>2. q.nonce = "valid"
    BY <1>3, <2>1, AskedFacts
  <2>3. PICK a \in Answering("UNKNOWN", q) : out = Ran("0", a)
    BY <1>1, <1>3, <2>1, OpensslOutcome
  <2>4. a.nonce
    BY <2>2, <2>3, Replied
  <2>5. out.code = "0" /\ out.of = a
    BY <2>3 DEF Ran
  <2>6. i # 2 /\ out.code # "raised" /\ out.of.nonce
    BY <1>3, <2>4, <2>5
  <2>7. QED
    BY <2>5, <2>6, Zenon DEF NonceNote
<1>4. QED
  BY <1>2, <1>3 DEF GoodNote, ClientTests

LEMMA GoodPreference ==
  ASSUME Exemplary, NEW out \in Outcomes(Text("issuer", "valid"))
  PROVE  PreferenceNote(out) \in {"PASS", "SKIP"}
<1>1. "issuer" \notin {"good", "revoked"} /\ "valid" \in {"valid", "none"}
  OBVIOUS
<1>2. CASE setup.responder = "refuses"
  <2>1. out = Ran("1", Bare("unauthorized"))
    BY <1>1, <1>2, OpensslOutcome
  <2>2. out.code # "0"
    BY <2>1 DEF Ran
  <2>3. Assessment(out) = "CRITICAL"
    BY <2>2, Zenon DEF Assessment
  <2>4. PreferenceNote(out) = "SKIP"
    BY <2>3, Zenon DEF PreferenceNote
  <2>5. QED
    BY <2>4
<1>3. CASE setup.responder # "refuses"
  <2>1. PICK q : q = Asks("issuer", "valid", "POST")
    OBVIOUS
  <2>2. PICK a \in Answering("UNKNOWN", q) : out = Ran("0", a)
    BY <1>1, <1>3, <2>1, OpensslOutcome
  <2>3. a.sig \in {"sha256", "sha512"}
    BY <2>2, Replied DEF Sound
  <2>4. out.code = "0" /\ out.of = a
    BY <2>2 DEF Ran
  <2>5. out.of.sig = "sha256" \/ out.of.sig = "sha512"
    BY <2>3, <2>4
  <2>6. Assessment(out) \in {"SECURE", "ACCEPTABLE"}
    <3>1. CASE out.of.sig = "sha512"
      BY <2>4, <3>1, Zenon DEF Assessment
    <3>2. CASE out.of.sig = "sha256"
      <4>1. out.of.sig # "sha512"
        BY <3>2
      <4>2. Assessment(out) = "ACCEPTABLE"
        BY <2>4, <3>2, <4>1, Zenon DEF Assessment
      <4>3. QED
        BY <4>2
    <3>3. QED
      BY <2>5, <3>1, <3>2
  <2>7. PreferenceNote(out) = "PASS"
    BY <2>6, Zenon DEF PreferenceNote
  <2>8. QED
    BY <2>7
<1>4. QED
  BY <1>2, <1>3

LEMMA GoodNoted ==
  ASSUME StageInv, Exemplary, NEW i \in 1..Len(ScriptHere), NEW out \in Outcomes(ScriptHere[i])
  PROVE  GoodNote(Test, i, Note(Test, i, out))
<1>1. PICK t, s : t = Test /\ s = setup /\ s \in SetupType
  BY SetupTyped
<1>2. PICK x : x = ScriptHere[i] /\ x = Script(t, s)[i] /\ out \in Outcomes(x)
  BY <1>1 DEF ScriptHere
<1>3. i \in 1..Len(Script(t, s)) /\ Len(Script(t, s)) \in Nat /\ i \in Nat \ {0}
  BY <1>1, ScriptHereFacts DEF ScriptHere
<1>4. t \in Scripted
  BY <1>1, <1>3, Vias
<1>5. CASE t \in {"GET", "POST"}
  <2>1. x = Exchange("client", Asks(Sample(setup.supplied), "valid", t))
    <3>1. Len(Script(t, s)) = 1 /\ Script(t, s)[1] = Exchange("client", Asks(Sample(s.supplied), "valid", t))
      BY <1>5, TransportScript, Zenon
    <3>2. i = 1
      BY <1>3, <3>1
    <3>3. QED
      BY <1>1, <1>2, <3>1, <3>2
  <2>2. TransportNote(out) = "PASS"
    BY <1>2, <2>1, GoodSample
  <2>3. Note(t, i, out) = "PASS"
    <3>1. ClientNote(t, out) = TransportNote(out)
      BY <1>5, ClientNotes, Zenon
    <3>2. t \in ClientTests
      BY <1>5 DEF ClientTests
    <3>3. Note(t, i, out) = ClientNote(t, out)
      BY <3>2, ClientNoted
    <3>4. QED
      BY <2>2, <3>1, <3>3
  <2>4. QED
    BY <1>1, <1>5, <2>3 DEF GoodNote
<1>6. CASE t \in {"DER fields", "SHA-1 CertID", "Timestamps", "Algorithm present",
                  "Response signature", "Response algorithm", "Response times"}
  <2>1. x = Exchange("client", Asks(Sample(setup.supplied), "none", "POST"))
    <3>1. Len(Script(t, s)) = 1 /\ Script(t, s)[1] = Exchange("client", Asks(Sample(s.supplied), "none", "POST"))
      BY <1>6, PlainScript, Zenon
    <3>2. i = 1
      BY <1>3, <3>1
    <3>3. QED
      BY <1>1, <1>2, <3>1, <3>2
  <2>2. ClientNote(t, out) = "PASS"
    <3>1. /\ DerNote(out) = "PASS" /\ Sha1Note(out) = "PASS" /\ TimestampsNote(out) = "PASS"
          /\ SignaturePresentNote(out) = "PASS" /\ AlgorithmNote(out) = "PASS"
          /\ TimesNote(out) = "PASS" /\ AlgorithmPresentNote(out) = "PASS"
      BY <1>2, <2>1, GoodSample
    <3>2. QED
      BY <1>6, <3>1, ClientNotes
  <2>3. Note(t, i, out) = "PASS"
    <3>1. t \in ClientTests
      BY <1>6 DEF ClientTests
    <3>2. Note(t, i, out) = ClientNote(t, out)
      BY <3>1, ClientNoted
    <3>3. QED
      BY <2>2, <3>2
  <2>4. QED
    BY <1>1, <1>6, <2>3 DEF GoodNote
<1>7. CASE t \in {"Good", "Revoked", "Unknown CA"}
  <2>1. x = Exchange("client", Asks(CertOf(t), "valid", "POST"))
    BY <1>1, <1>2, <1>3, <1>7, CertExchange
  <2>2. ClientNote(t, out) = "PASS" \/ t \in MayFail
    BY <1>2, <1>7, <2>1, GoodCert
  <2>3. Note(t, i, out) = "PASS" \/ t \in MayFail
    <3>1. t \in ClientTests
      BY <1>7 DEF ClientTests
    <3>2. Note(t, i, out) = ClientNote(t, out)
      BY <3>1, ClientNoted
    <3>3. QED
      BY <2>2, <3>2
  <2>4. QED
    BY <1>1, <1>7, <2>3 DEF GoodNote
<1>8. CASE t \in {"Latency", "Load", "Caching"}
  <2>1. PICK method : x = Exchange("client", Asks(Sample(setup.supplied), "none", method))
    BY <1>1, <1>2, <1>3, <1>8, RepeatedExchange
  <2>2. ~Raises(out)
    BY <1>2, <2>1, GoodSample
  <2>3. Note(t, i, out) = "answered"
    BY <1>8, <2>2, Notes
  <2>4. QED
    BY <1>1, <1>8, <2>3 DEF GoodNote, ClientTests
<1>9. CASE t = "Operational"
  <2>1. ASSUME i = 2 PROVE OperationalNote(i, out) = "proper"
    <3>1. x = Local
      BY <1>1, <1>2, <1>9, <2>1, OperationalScript
    <3>2. out.code = "1"
      BY <1>2, <3>1, GoodLocal
    <3>3. QED
      BY <2>1, <3>2 DEF OperationalNote
  <2>2. Note(t, i, out) = OperationalNote(i, out)
    BY <1>9, Notes
  <2>3. QED
    BY <1>1, <1>9, <2>1, <2>2 DEF GoodNote, ClientTests
<1>10. CASE t = "Unauthorized"
  <2>1. x = Local
    <3>1. Len(Script("Unauthorized", s)) = 3 /\ \A j \in 1..3 : Script("Unauthorized", s)[j] = Local
      BY <1>1, UnauthorizedScript
    <3>2. QED
      BY <1>2, <1>3, <1>10, <3>1
  <2>2. out.code = "1"
    BY <1>2, <2>1, GoodLocal
  <2>3. i # 1 => UnauthorizedNote(i, out) = "unauthorized"
    BY <2>2 DEF UnauthorizedNote
  <2>4. Note(t, i, out) = UnauthorizedNote(i, out)
    BY <1>10, Notes
  <2>5. QED
    BY <1>1, <1>10, <2>3, <2>4 DEF GoodNote, ClientTests
<1>11. CASE t = "SigRequired"
  <2>1. Note(t, i, out) = SigrequiredNote(i, out)
    BY <1>11, Notes
  <2>2. SigrequiredNote(i, out) # "detected"
    BY DEF SigrequiredNote
  <2>3. QED
    BY <1>1, <1>11, <2>1, <2>2 DEF GoodNote, ClientTests
<1>12. CASE t = "Nonce echo"
  <2>1. x = Text("issuer", IF i = 2 THEN "none" ELSE "valid")
    BY <1>1, <1>2, <1>3, <1>12, NonceScript
  <2>2. PICK nonce : nonce = (IF i = 2 THEN "none" ELSE "valid") /\ x = Text("issuer", nonce)
    BY <2>1
  <2>3. GoodNote("Nonce echo", i, NonceNote(i, out))
    BY <1>2, <1>3, <2>2, GoodNonce
  <2>4. Note(t, i, out) = NonceNote(i, out)
    BY <1>12, Notes
  <2>5. QED
    BY <1>1, <1>12, <2>3, <2>4
<1>13. CASE t = "Preference"
  <2>1. x = Text("issuer", "valid")
    <3>1. Len(Script(t, s)) = 1 /\ Script(t, s)[1] = Text("issuer", "valid")
      BY <1>1, <1>13, TextScript
    <3>2. i = 1
      BY <1>3, <3>1
    <3>3. QED
      BY <1>2, <3>1, <3>2
  <2>2. PreferenceNote(out) \in {"PASS", "SKIP"}
    BY <1>2, <2>1, GoodPreference
  <2>3. Note(t, i, out) = PreferenceNote(out)
    BY <1>13, Notes
  <2>4. QED
    BY <1>1, <1>13, <2>2, <2>3 DEF GoodNote
<1>14. CASE t \in {"Malformed", "Signer signature"}
  BY <1>1, <1>14 DEF GoodNote, ClientTests
<1>15. QED
  BY <1>4, <1>5, <1>6, <1>7, <1>8, <1>9, <1>10, <1>11, <1>12, <1>13, <1>14 DEF Scripted

LEMMA AmongFour ==
  ASSUME NEW t, NEW a, NEW b, NEW c, NEW d
  PROVE  Among(t, <<a, b, c, d>>) <=> t \in {a, b, c, d}
<1>1. DOMAIN <<a, b, c, d>> = {1, 2, 3, 4}
  OBVIOUS
<1>2. /\ <<a, b, c, d>>[1] = a /\ <<a, b, c, d>>[2] = b /\ <<a, b, c, d>>[3] = c
      /\ <<a, b, c, d>>[4] = d
  OBVIOUS
<1>3. QED
  BY <1>1, <1>2, Zenon DEF Among

LEMMA LongerLists ==
  ASSUME NEW a, NEW b, NEW c, NEW d, NEW e, NEW f, NEW g
  PROVE  /\ IsSeq(<<a, b, c, d>>) /\ IsSeq(<<a, b, c, d, e>>)
         /\ IsSeq(<<a, b, c, d, e, f, g>>)
<1>1. PICK S : a \in S /\ b \in S /\ c \in S /\ d \in S /\ e \in S /\ f \in S /\ g \in S
  <2>1. PICK S : S = {a, b, c, d, e, f, g}
    OBVIOUS
  <2>2. a \in S /\ b \in S /\ c \in S /\ d \in S /\ e \in S /\ f \in S /\ g \in S
    BY <2>1
  <2>3. QED
    BY <2>2
<1>2. <<a, b, c, d>> \in Seq(S)
  BY <1>1
<1>3. <<a, b, c, d, e>> \in Seq(S)
  BY <1>1
<1>4. <<a, b, c, d, e, f, g>> \in Seq(S)
  BY <1>1
<1>5. QED
  BY <1>2, <1>3, <1>4 DEF IsSeq

LEMMA AmongJoined ==
  ASSUME NEW f, NEW g, NEW h, IsSeq(f), IsSeq(g), IsJoin(h, f, g), NEW t, Among(t, h)
  PROVE  Among(t, f) \/ Among(t, g)
<1>1. PICK m, n : m = Len(f) /\ n = Len(g)
  OBVIOUS
<1>2. /\ IsSeq(h) /\ Len(h) = m + n /\ m \in Nat /\ n \in Nat
      /\ \A i \in 1..m : h[i] = f[i]
      /\ \A i \in 1..n : h[m + i] = g[i]
  BY ONLY IsSeq(f), IsSeq(g), IsJoin(h, f, g), <1>1, Joined
<1>3. DOMAIN f = 1..m /\ DOMAIN g = 1..n /\ DOMAIN h = 1..(m + n)
  <2>1. ASSUME NEW q, IsSeq(q) PROVE DOMAIN q = 1..Len(q)
    BY <2>1 DEF IsSeq
  <2>2. QED
    BY <1>1, <1>2, <2>1
<1>4. PICK i \in 1..(m + n) : h[i] = t
  BY <1>3 DEF Among
<1>5. CASE i <= m
  BY <1>2, <1>3, <1>4, <1>5 DEF Among
<1>6. CASE i > m
  <2>1. PICK j \in 1..n : i = m + j
    <3>1. i - m \in 1..n /\ i = m + (i - m)
      BY <1>2, <1>6
    <3>2. QED
      BY <3>1
  <2>2. g[j] = t
    BY <1>2, <1>4, <2>1
  <2>3. QED
    BY <1>3, <2>1, <2>2 DEF Among
<1>7. QED
  BY <1>2, <1>5, <1>6

(* Only the federal category reads the validity interval of the text. *)
LEMMA IntervalIsFederal ==
  ASSUME StageInv, ~Ended, Test = "Interval"
  PROVE  setup.category = "federal"
<1>1. PICK s : s = setup /\ s \in SetupType
  BY SetupTyped
<1>2. turn \in Nat \ {0}
  BY DEF StageInv
<1>3. SUFFICES ASSUME setup.category # "federal" PROVE FALSE
  OBVIOUS
<1>4. ASSUME NEW order, order = TestOrder, IsSeq(order) PROVE Among("Interval", order)
  <2>1. PICK S : order \in Seq(S)
    BY <1>4 DEF IsSeq
  <2>2. turn <= Len(order) /\ Len(order) \in Nat /\ DOMAIN order = 1..Len(order)
    BY <1>2, <1>4, <2>1 DEF Ended
  <2>3. order[turn] = "Interval" /\ turn \in DOMAIN order
    BY <1>2, <1>4, <2>2 DEF Test
  <2>4. QED
    BY <2>3 DEF Among
<1>5. /\ ~Among("Interval", ProtocolTests) /\ ~Among("Interval", StatusTests)
      /\ ~Among("Interval", SecurityTests) /\ ~Among("Interval", PerformanceTests)
      /\ ~Among("Interval", ResponseTests) /\ ~Among("Interval", CrlTests)
  <2>1. PICK t : t = "Interval"
    OBVIOUS
  <2>2. /\ ~Among(t, ProtocolTests) /\ ~Among(t, StatusTests) /\ ~Among(t, SecurityTests)
        /\ ~Among(t, PerformanceTests) /\ ~Among(t, ResponseTests) /\ ~Among(t, CrlTests)
    <3>1. /\ Among(t, ProtocolTests) =>
               t \in {"GET", "POST", "DER fields", "SHA-1 CertID", "Serial number"}
          /\ Among(t, StatusTests) =>
               t \in {"Good", "Revoked", "Unknown CA", "Non-issued", "Timestamps"}
          /\ Among(t, ResponseTests) =>
               t \in {"Response signature", "Response algorithm", "Response times"}
          /\ Among(t, SecurityTests) =>
               t \in {"Malformed", "Operational", "Unauthorized", "SigRequired", "Nonce echo",
                      "Algorithm present", "Preference"}
          /\ Among(t, PerformanceTests) => t \in {"Latency", "Load", "Caching"}
          /\ Among(t, CrlTests) =>
               t \in {"Extraction", "Download", "Accessibility", "CRL signature", "CRL times",
                      "Revocation", "Consistency"}
      BY Lists, Zenon
    <3>2. QED
      BY <2>1, <3>1
  <2>3. QED
    BY <2>1, <2>2
<1>6. ~Among("Interval", Ikev2Tests)
  <2>1. PICK t : t = "Interval"
    OBVIOUS
  <2>2. Among(t, Ikev2Tests) <=>
          t \in {"OCSP Content", "CERTREQ", "Trusted responder", "Configuration mapping"}
    BY AmongFour DEF Ikev2Tests
  <2>3. QED
    BY <2>1, <2>2
<1>7. /\ IsSeq(ProtocolTests) /\ IsSeq(StatusTests) /\ IsSeq(SecurityTests)
      /\ IsSeq(PerformanceTests) /\ IsSeq(ResponseTests) /\ IsSeq(CrlTests) /\ IsSeq(Ikev2Tests)
  <2>1. IsSeq(PerformanceTests) /\ IsSeq(ResponseTests)
    BY Triples DEF PerformanceTests, ResponseTests
  <2>2. IsSeq(ProtocolTests) /\ IsSeq(StatusTests)
    BY LongerLists DEF ProtocolTests, StatusTests
  <2>3. IsSeq(SecurityTests) /\ IsSeq(CrlTests)
    BY LongerLists DEF SecurityTests, CrlTests
  <2>4. IsSeq(Ikev2Tests)
    BY LongerLists DEF Ikev2Tests
  <2>5. QED
    BY <2>1, <2>2, <2>3, <2>4
<1>8. CASE setup.category = "crl"
  <2>1. PICK f, g, p, h : /\ f = ResponseTests /\ g = CrlTests /\ h = setup.crlUrls
                          /\ IsJoin(p, f, g)
    BY DEF IsJoin
  <2>2. TestOrder = p \o h
    BY <1>8, <2>1, Orders DEF IsJoin
  <2>3. PICK order : order = TestOrder /\ IsJoin(order, p, h)
    BY <2>2 DEF IsJoin
  <2>4. IsSeq(f) /\ IsSeq(g) /\ IsSeq(h)
    BY <1>1, <1>7, <2>1, SetupFacts DEF IsSeq
  <2>5. IsSeq(p)
    BY ONLY <2>4, <2>1, Joined
  <2>6. IsSeq(order)
    BY ONLY <2>4, <2>5, <2>3, Joined
  <2>7. Among("Interval", order)
    BY <1>4, <2>3, <2>6
  <2>8. Among("Interval", p) \/ Among("Interval", h)
    BY ONLY <2>3, <2>4, <2>5, <2>7, AmongJoined
  <2>9. ~Among("Interval", p)
    <3>1. Among("Interval", p) => Among("Interval", f) \/ Among("Interval", g)
      BY ONLY <2>1, <2>4, AmongJoined
    <3>2. QED
      BY <1>5, <2>1, <3>1
  <2>10. ~Among("Interval", h)
    <3>1. SUFFICES ASSUME Among("Interval", h) PROVE FALSE
      OBVIOUS
    <3>2. h \in Seq(Urls)
      BY <1>1, <2>1, SetupFacts
    <3>3. "Interval" \in Urls
      BY <3>1, <3>2 DEF Among
    <3>4. ~Among("Interval", FederalTests)
      BY <3>3, UrlsAreNoTests
    <3>5. Among("Interval", FederalTests)
      BY AmongFive DEF FederalTests
    <3>6. QED
      BY <3>4, <3>5
  <2>11. QED
    BY <2>8, <2>9, <2>10
<1>9. CASE setup.category # "crl"
  <2>1. PICK order : order = TestOrder
    OBVIOUS
  <2>2. \/ order = ProtocolTests \/ order = StatusTests \/ order = SecurityTests
        \/ order = PerformanceTests \/ order = Ikev2Tests
    BY <1>1, <1>3, <1>9, <2>1, Orders, SetupFacts
  <2>3. QED
    BY <1>4, <1>5, <1>6, <1>7, <2>1, <2>2
<1>10. QED
  BY <1>8, <1>9

LEMMA FirstNote ==
  ASSUME NotesInv
  PROVE  notes # <<>> => 1 \in DOMAIN notes
<1>1. PICK S : notes \in Seq(S)
  BY DEF NotesInv, IsSeq
<1>2. QED
  BY <1>1

LEMMA GoodNonceVerdict ==
  ASSUME NotesInv, notes # <<>>, \A i \in DOMAIN notes : GoodNote("Nonce echo", i, notes[i])
  PROVE  NonceVerdict(notes) = "PASS"
<1>1. 1 \in DOMAIN notes
  BY FirstNote
<1>2. PICK found : found = {notes[i] : i \in DOMAIN notes}
  OBVIOUS
<1>3. CASE setup.responder = "refuses"
  <2>1. notes[1] = "unauthorized" /\ \A i \in DOMAIN notes : notes[i] \in {"unauthorized", "nothing"}
    BY <1>1, <1>3 DEF GoodNote
  <2>2. "echoed" \notin found /\ "supported" \notin found /\ "unauthorized" \in found
    BY <1>1, <1>2, <2>1
  <2>3. QED
    BY <1>2, <2>2, Zenon DEF NonceVerdict
<1>4. CASE setup.responder # "refuses"
  <2>1. notes[1] = "echoed"
    BY <1>1, <1>4 DEF GoodNote
  <2>2. "echoed" \in found
    BY <1>1, <1>2, <2>1
  <2>3. QED
    BY <1>2, <2>2, Zenon DEF NonceVerdict
<1>5. QED
  BY <1>3, <1>4

LEMMA GoodUnauthorizedVerdict ==
  ASSUME NotesInv, Len(notes) = 3, notes[2] = "unauthorized", notes[3] = "unauthorized"
  PROVE  UnauthorizedVerdict(notes) = "PASS"
<1> DEFINE S == {i \in DOMAIN notes : notes[i] = "unauthorized"}
<1>1. DOMAIN notes = 1..3
  <2>1. PICK T : notes \in Seq(T)
    BY DEF NotesInv, IsSeq
  <2>2. QED
    BY <2>1
<1>2. 2..3 \subseteq S /\ S \subseteq 1..3
  BY <1>1
<1> HIDE DEF S
<1>3. IsFiniteSet(1..3) /\ IsFiniteSet(2..3) /\ Cardinality(2..3) = 2
  <2>1. 1 \in Int /\ 2 \in Int /\ 3 \in Int
    OBVIOUS
  <2>2. /\ IsFiniteSet(1..3) /\ IsFiniteSet(2..3)
        /\ Cardinality(2..3) = IF 2 > 3 THEN 0 ELSE 3 - 2 + 1
    BY ONLY <2>1, FS_Interval
  <2>3. QED
    BY <2>2
<1>4. IsFiniteSet(S) /\ Cardinality(S) \in Nat /\ Cardinality(2..3) <= Cardinality(S)
  BY <1>2, <1>3, FS_Subset, FS_CardinalityType
<1>5. 2 * Cardinality(S) >= Len(notes)
  BY <1>3, <1>4
<1>6. QED
  BY <1>5 DEF UnauthorizedVerdict, S

(* The verdicts on what a conforming responder answers. *)
LEMMA GoodVerdict ==
  ASSUME StageInv, NotesInv, Exemplary, pc = "script", ~More,
         \A i \in DOMAIN notes : GoodNote(Test, i, notes[i]),
         setup.category = "federal" /\ setup.selected \cap TextReaders # {} =>
           HasText(text) /\ IntervalValid(text.of)
  PROVE  Verdict(Test, notes, text) \notin {"FAIL", "ERROR"} \/ Test \in MayFail
<1>1. PICK t, s : t = Test /\ s = setup /\ s \in SetupType
  BY SetupTyped
<1>2. PICK n : /\ n = Len(notes) /\ n \in Nat /\ DOMAIN notes = 1..n
               /\ (notes = <<>> <=> n = 0)
  <2>1. PICK S : notes \in Seq(S)
    BY DEF NotesInv, IsSeq
  <2>2. QED
    BY <2>1
<1>3. n <= Len(Script(t, s)) /\ Len(Script(t, s)) \in Nat
  BY <1>1, <1>2, ScriptHereFacts DEF NotesInv, ScriptHere
<1>4. n = Len(Script(t, s)) \/ Broken(t, notes)
  BY <1>1, <1>2, <1>3 DEF More, ScriptHere
<1>5. CASE t \in {"Serial number", "Environment"}
  <2>1. Verdict(t, notes, text) = "PASS"
    BY <1>5, Verdicts
  <2>2. QED
    BY <1>1, <2>1
<1>6. CASE t = "Batch"
  <2>1. Verdict(t, notes, text) = BatchVerdict(text)
    BY <1>6, Verdicts
  <2>2. QED
    BY <1>1, <2>1 DEF BatchVerdict
<1>7. CASE t \in {"Delegated EKU", "Signer signature"}
  BY <1>1, <1>7 DEF MayFail
<1>8. CASE t = "Interval"
  <2>1. ~Ended /\ "Interval" \in setup.selected
    BY <1>1, <1>8 DEF StageInv
  <2>2. setup.category = "federal"
    BY <1>1, <1>8, <2>1, IntervalIsFederal
  <2>3. setup.selected \cap TextReaders # {}
    BY <2>1 DEF TextReaders
  <2>4. HasText(text) /\ IntervalValid(text.of)
    BY <2>2, <2>3
  <2>5. IntervalVerdict(text) = IF IntervalWarned(text.of) THEN "WARN" ELSE "PASS"
    BY <2>4, Zenon DEF IntervalVerdict
  <2>6. Verdict("Interval", notes, text) = IntervalVerdict(text)
    BY Verdicts, Zenon
  <2>7. QED
    BY <1>1, <1>8, <2>5, <2>6
<1>9. CASE t = "Malformed"
  <2>1. Verdict("Malformed", notes, text) = IF notes = <<>> THEN "SKIP" ELSE MalformedVerdict(notes)
    BY Verdicts
  <2>2. QED
    BY <1>1, <1>9, <2>1 DEF MalformedVerdict
<1>10. CASE t = "Operational"
  <2>1. n >= 3
    <3>1. Broken(t, notes) => n > 3
      BY <1>2, <1>10 DEF Broken
    <3>2. Len(Script(t, s)) >= 3
      BY <1>1, <1>10, OperationalScript
    <3>3. QED
      BY <1>2, <1>3, <1>4, <3>1, <3>2
  <2>2. notes[2] = "proper"
    <3>1. 2 \in DOMAIN notes
      BY <1>2, <2>1
    <3>2. QED
      BY <1>1, <1>10, <3>1 DEF GoodNote
  <2>3. OperationalVerdict(notes) = "PASS"
    BY <2>2 DEF OperationalVerdict
  <2>4. Verdict("Operational", notes, text) =
          IF notes = <<>> THEN "SKIP" ELSE OperationalVerdict(notes)
    BY Verdicts
  <2>5. QED
    BY <1>1, <1>10, <2>3, <2>4
<1>11. CASE t = "Unauthorized"
  <2>1. n = 3
    <3>1. ~Broken(t, notes)
      BY <1>11 DEF Broken
    <3>2. Len(Script(t, s)) = 3
      BY <1>1, <1>11, UnauthorizedScript
    <3>3. QED
      BY <1>4, <3>1, <3>2
  <2>2. 2 \in DOMAIN notes /\ 3 \in DOMAIN notes
    BY <1>2, <2>1
  <2>3. notes[2] = "unauthorized" /\ notes[3] = "unauthorized"
    BY <1>1, <1>11, <2>2 DEF GoodNote
  <2>4. UnauthorizedVerdict(notes) = "PASS"
    BY <1>2, <2>1, <2>3, GoodUnauthorizedVerdict
  <2>5. Verdict("Unauthorized", notes, text) =
          IF notes = <<>> THEN "SKIP" ELSE UnauthorizedVerdict(notes)
    BY Verdicts
  <2>6. QED
    BY <1>1, <1>11, <2>4, <2>5
<1>12. CASE t = "SigRequired"
  <2>1. "detected" \notin {notes[i] : i \in DOMAIN notes}
    BY <1>1, <1>12 DEF GoodNote
  <2>2. SigrequiredVerdict(notes) = "PASS"
    BY <2>1 DEF SigrequiredVerdict
  <2>3. Verdict("SigRequired", notes, text) =
          IF notes = <<>> THEN "SKIP" ELSE SigrequiredVerdict(notes)
    BY Verdicts
  <2>4. QED
    BY <1>1, <1>12, <2>2, <2>3
<1>13. CASE t = "Nonce echo"
  <2>1. notes # <<>> => NonceVerdict(notes) = "PASS"
    BY <1>1, <1>13, GoodNonceVerdict
  <2>2. Verdict("Nonce echo", notes, text) = IF notes = <<>> THEN "SKIP" ELSE NonceVerdict(notes)
    BY Verdicts
  <2>3. QED
    BY <1>1, <1>13, <2>1, <2>2
<1>14. CASE t \in {"Latency", "Load", "Caching"}
  <2>1. "raised" \notin {notes[i] : i \in DOMAIN notes}
    BY <1>1, <1>14 DEF GoodNote
  <2>2. AnsweredVerdict(notes) = "PASS"
    BY <2>1 DEF AnsweredVerdict
  <2>3. Verdict(t, notes, text) = IF notes = <<>> THEN "SKIP" ELSE AnsweredVerdict(notes)
    BY <1>14, Verdicts
  <2>4. QED
    BY <1>1, <2>2, <2>3
<1>15. CASE t \in ClientTests \cup {"Preference"}
  <2>1. Verdict(t, notes, text) = IF notes = <<>> THEN "SKIP" ELSE notes[1]
    BY <1>15, OtherVerdict DEF ClientTests
  <2>2. notes # <<>> => notes[1] \in {"PASS", "SKIP"} \/ t \in MayFail
    <3>1. notes # <<>> => 1 \in DOMAIN notes
      BY <1>2
    <3>2. QED
      BY <1>1, <1>15, <3>1 DEF GoodNote
  <2>3. QED
    BY <1>1, <2>1, <2>2
<1>16. CASE /\ t \notin Scripted
            /\ t \notin {"Serial number", "Environment", "Batch", "Delegated EKU", "Interval"}
  <2>1. notes = <<>>
    <3>1. Script(t, s) = <<>>
      BY <1>16, NoScript
    <3>2. Len(Script(t, s)) = 0
      BY <3>1, Empty
    <3>3. QED
      BY <1>2, <1>3, <3>2
  <2>2. Verdict(t, notes, text) = "SKIP"
    BY <1>16, <2>1, OtherVerdict DEF Scripted
  <2>3. QED
    BY <1>1, <2>2
<1>17. QED
  BY <1>5, <1>6, <1>7, <1>8, <1>9, <1>10, <1>11, <1>12, <1>13, <1>14, <1>15, <1>16
     DEF Scripted, ClientTests

(* What the tests of the federal category read. *)
GoodText ==
  setup.category = "federal" /\ setup.selected \cap TextReaders # {} =>
    HasText(text) /\ IntervalValid(text.of)

GoodNotes == \A i \in DOMAIN notes : GoodNote(Test, i, notes[i])

(* What a conforming responder and the CRL of its CA leave in each state of *)
(* the engine; where that CRL is read, it is the genuine one.               *)
GoodInv ==
  Exemplary =>
    /\ pc # "discover" /\ (pc = "read" => crl = {Genuine})
    /\ pc = "head" => untried # <<>> \/ working # {}
    /\ pc \in {"get", "read"} /\ Test = "Consistency" =>
         notes[1] = Expected(Sample(setup.supplied))
    /\ pc # "start" => GoodText
    /\ pc = "script" => GoodNotes
    /\ \A t, s : Reported(t, s) /\ s \in {"FAIL", "ERROR"} => t \in MayFail

LEMMA SameExample ==
  ASSUME UNCHANGED setup
  PROVE  /\ (Exemplary' <=> Exemplary) /\ MayFail' = MayFail /\ Genuine' = Genuine
         /\ Sample(setup.supplied)' = Sample(setup.supplied)
         /\ \A t, i, n : GoodNote(t, i, n)' <=> GoodNote(t, i, n)
<1>1. MayFail' = MayFail
  BY DEF MayFail
<1>2. Genuine' = Genuine
  BY DEF Genuine
<1>3. Exemplary' <=> Exemplary
  BY SameSetup DEF Exemplary, Serving
<1>4. \A t, i, n : GoodNote(t, i, n)' <=> GoodNote(t, i, n)
  BY <1>1 DEF GoodNote
<1>5. QED
  BY <1>1, <1>2, <1>3, <1>4

LEMMA GoodReport ==
  ASSUME StageInv, GoodInv, UNCHANGED <<setup, text>>, NEW status, Report(status), pc # "start",
         Exemplary => status \notin {"FAIL", "ERROR"} \/ Test \in MayFail
  PROVE  GoodInv'
<1>1. PICK t, m : t = Test /\ m = MayFail
  OBVIOUS
<1>2. (Exemplary' <=> Exemplary) /\ pc' = "next" /\ MayFail' = m
  BY <1>1, SameExample DEF Report
<1>3. \A c, s : Reported(c, s)' <=> Reported(c, s) \/ (c = t /\ s = status)
  BY <1>1, ReportFacts
<1>4. GoodText' <=> GoodText
  BY DEF GoodText
<1>5. Exemplary => \A c, s : Reported(c, s) /\ s \in {"FAIL", "ERROR"} => c \in m
  BY <1>1 DEF GoodInv
<1>6. Exemplary' => \A c, s : Reported(c, s)' /\ s \in {"FAIL", "ERROR"} => c \in m
  BY <1>1, <1>2, <1>3, <1>5
<1>7. Exemplary' => GoodText'
  BY <1>2, <1>4 DEF GoodInv
<1>8. QED
  BY <1>2, <1>6, <1>7 DEF GoodInv

LEMMA GoodStays ==
  ASSUME StageInv, GoodInv, UNCHANGED <<setup, turn, results>>,
         Exemplary =>
           /\ pc' # "discover" /\ (pc' = "read" => crl' = {Genuine})
           /\ pc' = "head" => untried' # <<>> \/ working' # {}
           /\ pc' \in {"get", "read"} /\ Test = "Consistency" =>
                notes'[1] = Expected(Sample(setup.supplied))
           /\ pc' # "start" => GoodText'
           /\ pc' = "script" => \A i \in DOMAIN notes' : GoodNote(Test, i, notes'[i])
  PROVE  GoodInv'
<1>1. PICK t, m, g, e, q : /\ t = Test /\ m = MayFail /\ g = Genuine /\ q = notes'
                           /\ e = Expected(Sample(setup.supplied))
  OBVIOUS
<1>2. (Exemplary' <=> Exemplary) /\ Test' = t /\ MayFail' = m /\ Genuine' = g
  BY <1>1, SameTest, SameExample
<1>3. Expected(Sample(setup.supplied))' = e
  BY <1>1 DEF Expected
<1>4. \A c, s : Reported(c, s)' <=> Reported(c, s)
  BY DEF Reported
<1>5. Exemplary' => \A c, s : Reported(c, s)' /\ s \in {"FAIL", "ERROR"} => c \in m
  BY <1>1, <1>2, <1>4 DEF GoodInv
<1>6. Exemplary' /\ pc' = "script" => GoodNotes'
  <2>1. SUFFICES ASSUME Exemplary, pc' = "script", NEW i \in DOMAIN q
                 PROVE  GoodNote(t, i, q[i])'
    BY <1>1, <1>2 DEF GoodNotes
  <2>2. GoodNote(t, i, q[i])
    BY <1>1, <2>1
  <2>3. QED
    BY <2>2, SameExample
<1>7. QED
  BY <1>1, <1>2, <1>3, <1>5, <1>6 DEF GoodInv

LEMMA ExemplaryServes ==
  ASSUME Exemplary, NEW p \in Places, NEW d \in Served(p)
  PROVE  d = Genuine /\ d.form = "crl" /\ ~Failing(d) /\ LooksLikeCrl(d)
<1>1. setup.site # <<>> /\ setup.site[p] = "crl"
  BY DEF Exemplary, Serving
<1>2. d = Genuine
  BY <1>1, ServedAt
<1>3. QED
  BY <1>2, Forms DEF Failing, LooksLikeCrl

LEMMA GenuineFacts ==
  /\ Genuine.form = "crl" /\ Genuine.signed /\ Genuine.age = "current" /\ ~Genuine.mentions
  /\ Genuine.lists <=> Sample(setup.supplied) = "revoked"
<1>1. Genuine.form = "crl" /\ Genuine.signed = TRUE /\ Genuine.age = "current"
  BY DEF Genuine
<1>2. Genuine.mentions = FALSE /\ Genuine.lists = (Sample(setup.supplied) = "revoked")
  BY DEF Genuine
<1>3. QED
  BY <1>1, <1>2

(* The shared text of the federal category. *)
LEMMA GoodStart ==
  ASSUME Exemplary, Start
  PROVE  GoodText'
<1>1. SUFFICES ASSUME setup.category = "federal", setup.selected \cap TextReaders # {}
               PROVE  HasText(text') /\ IntervalValid(text'.of)
  BY DEF GoodText, Start
<1>2. PICK cert, out : /\ cert = Sample(setup.supplied) /\ out = text'
                       /\ out \in Outcomes(Text(cert, "valid"))
  BY <1>1 DEF Start, FetchText
<1>3. cert \in {"good", "revoked"}
  BY <1>2, SampleCert DEF Exemplary
<1>4. PICK q : q = Asks(cert, "valid", "POST")
  OBVIOUS
<1>5. PICK a \in Answering(Expected(cert), q) : out = Ran("0", a)
  BY <1>2, <1>3, <1>4, OpensslOutcome
<1>6. out.code = "0" /\ out.of = a
  BY <1>5 DEF Ran
<1>7. a \in Replies /\ Sound(a) /\ Successful(a) /\ ~Raises(a)
  BY <1>5, Replied
<1>8. IntervalValid(a)
  BY <1>7, SoundNotes
<1>9. QED
  BY <1>2, <1>6, <1>8 DEF HasText

LEMMA GoodOcsp ==
  ASSUME StageInv, NotesInv, GoodInv, OcspSteps
  PROVE  GoodInv'
<1>1. CASE Start
  <2>1. UNCHANGED <<setup, turn, results>> /\ pc' = "next"
    BY <1>1 DEF Start
  <2>2. QED
    BY <1>1, <2>1, GoodStart, GoodStays
<1>2. CASE SkipTest
  <2>1. UNCHANGED <<setup, pc, text, results>> /\ pc = "next"
    BY <1>2 DEF SkipTest
  <2>2. PICK m : m = MayFail /\ MayFail' = m
    BY <2>1, SameExample
  <2>3. (Exemplary' <=> Exemplary) /\ (GoodText' <=> GoodText)
    BY <2>1, SameExample DEF GoodText
  <2>4. \A c, s : Reported(c, s)' <=> Reported(c, s)
    BY <2>1 DEF Reported
  <2>5. Exemplary' => \A c, s : Reported(c, s)' /\ s \in {"FAIL", "ERROR"} => c \in m
    BY <2>2, <2>3, <2>4 DEF GoodInv
  <2>6. QED
    BY <2>1, <2>2, <2>3, <2>5 DEF GoodInv
<1>3. CASE BeginScript
  <2>1. /\ UNCHANGED <<setup, turn, text, results, notes>> /\ pc' = "script" /\ pc = "next"
        /\ notes = <<>>
    BY <1>3 DEF BeginScript, NotesInv
  <2>2. \A i \in DOMAIN notes' : FALSE
    BY <2>1
  <2>3. Exemplary => GoodText'
    BY <2>1 DEF GoodInv, GoodText
  <2>4. QED
    BY <2>1, <2>2, <2>3, GoodStays
<1>4. CASE ExchangeStep
  <2>1. UNCHANGED <<setup, turn, text, results, pc>> /\ pc = "script"
    BY <1>4 DEF ExchangeStep
  <2>2. PICK k : k = Len(notes) + 1
    OBVIOUS
  <2>3. PICK out \in Outcomes(ScriptHere[k]) : notes' = Append(notes, Note(Test, k, out))
    BY <1>4, <2>2 DEF ExchangeStep
  <2>4. /\ Len(notes) \in Nat /\ notes'[k] = Note(Test, k, out)
        /\ \A i \in 1..Len(notes) : notes'[i] = notes[i]
        /\ DOMAIN notes' = 1..k /\ DOMAIN notes = 1..Len(notes)
    BY <2>2, <2>3, Noted
  <2>5. k \in 1..Len(ScriptHere)
    <3>1. Len(notes) < Len(ScriptHere)
      BY <1>4 DEF ExchangeStep, More
    <3>2. QED
      BY <2>2, <2>4, <3>1, ScriptHereFacts
  <2>6. ASSUME Exemplary, NEW i \in DOMAIN notes'
        PROVE  GoodNote(Test, i, notes'[i])
    <3>1. CASE i = k
      BY <2>3, <2>4, <2>5, <2>6, <3>1, GoodNoted
    <3>2. CASE i # k
      <4>1. i \in 1..Len(notes)
        BY <2>2, <2>4, <2>6, <3>2
      <4>2. GoodNote(Test, i, notes[i])
        BY <2>1, <2>4, <2>6, <4>1 DEF GoodInv, GoodNotes
      <4>3. QED
        BY <2>4, <4>1, <4>2
    <3>3. QED
      BY <3>1, <3>2
  <2>7. Exemplary => GoodText'
    BY <2>1 DEF GoodInv, GoodText
  <2>8. QED
    BY <2>1, <2>6, <2>7, GoodStays
<1>5. CASE Judge
  <2>1. PICK status : status = Verdict(Test, notes, text)
    OBVIOUS
  <2>2. pc = "script" /\ ~More /\ Report(status) /\ UNCHANGED <<setup, text>>
    BY <1>5, <2>1 DEF Judge, ReportHere
  <2>3. ASSUME Exemplary PROVE status \notin {"FAIL", "ERROR"} \/ Test \in MayFail
    <3>1. GoodText /\ GoodNotes
      BY <2>2, <2>3 DEF GoodInv
    <3>2. QED
      BY <2>1, <2>2, <2>3, <3>1, GoodVerdict DEF GoodText, GoodNotes
  <2>4. QED
    BY <2>2, <2>3, GoodReport
<1>6. QED
  BY <1>1, <1>2, <1>3, <1>4, <1>5 DEF OcspSteps

(* The tests that read the genuine CRL. *)
LEMMA GoodRead ==
  ASSUME StageInv, GoodInv, Read
  PROVE  GoodInv'
<1>read. PICK d \in crl : \E status :
        /\ ReportHere(status)
        /\ setup.openssl # "missing" /\ Test = "Download" => status \in DownloadVerdicts(d)
        /\ setup.openssl # "missing" /\ Test = "CRL signature" => status \in CrlSignatureVerdicts(d)
        /\ setup.openssl # "missing" /\ Test = "CRL times" => status \in CrlTimesVerdicts(d)
  BY ReadFacts
<1>1. PICK status :
        /\ ReportHere(status)
        /\ setup.openssl # "missing" /\ Test = "Download" => status \in DownloadVerdicts(d)
        /\ setup.openssl # "missing" /\ Test = "CRL signature" => status \in CrlSignatureVerdicts(d)
        /\ setup.openssl # "missing" /\ Test = "CRL times" => status \in CrlTimesVerdicts(d)
  BY <1>read
<1>2. pc = "read" /\ Test \in {"Download", "CRL signature", "CRL times"}
  BY ReadFacts DEF Seekers
<1>3. ASSUME Exemplary PROVE status \notin {"FAIL", "ERROR"}
  <2>1. /\ d.form = "crl" /\ d.signed /\ d.age = "current" /\ setup.openssl = "works"
        /\ setup.openssl # "missing" /\ setup.openssl # "slow"
    <3>1. d = Genuine
      BY <1>1, <1>2, <1>3 DEF GoodInv
    <3>2. QED
      BY <1>3, <3>1, GenuineFacts DEF Exemplary
  <2>2. /\ DownloadVerdicts(d) = {"PASS"} /\ CrlSignatureVerdicts(d) = {"PASS"}
        /\ CrlTimesVerdicts(d) = {"PASS"}
    BY <2>1 DEF DownloadVerdicts, CrlSignatureVerdicts, CrlTimesVerdicts, Parsed, PassOrFail
  <2>3. status = "PASS"
    BY <1>1, <1>2, <2>1, <2>2
  <2>4. QED
    BY <2>3
<1>4. QED
  BY <1>1, <1>2, <1>3, GoodReport DEF ReportHere

LEMMA GoodCheck ==
  ASSUME Exemplary, Test \in Checks, NEW d, d = Genuine,
         Test = "Consistency" => notes[1] = Expected(Sample(setup.supplied))
  PROVE  CheckVerdict(d) = "PASS"
<1>1. PICK cert : cert = Sample(setup.supplied) /\ cert \in {"good", "revoked"}
  BY SampleCert DEF Exemplary
<1>2. setup.openssl = "works" /\ setup.openssl # "missing"
  BY DEF Exemplary
<1>3. CrlRevoked(d) <=> cert = "revoked"
  BY <1>1, <1>2, GenuineFacts DEF CrlRevoked, Parsed
<1>4. CrlRevoked(d) \in BOOLEAN
  <2>1. Genuine.lists \in BOOLEAN /\ Genuine.mentions \in BOOLEAN
    BY DEF Genuine
  <2>2. QED
    BY <2>1 DEF CrlRevoked, Parsed
<1>5. CASE Test = "Revocation"
  <2>1. CheckVerdict(d) = PassOrFail(CrlRevoked(d) = (Sample(setup.supplied) = "revoked"))
    BY <1>2, <1>5, Zenon DEF CheckVerdict
  <2>2. CrlRevoked(d) = (Sample(setup.supplied) = "revoked")
    BY <1>1, <1>3, <1>4
  <2>3. QED
    BY <2>1, <2>2, Zenon DEF PassOrFail
<1>6. CASE Test = "Consistency"
  <2>1. Test # "Revocation"
    BY <1>6
  <2>2. CheckVerdict(d) = PassOrFail(Consistent(notes[1], CrlRevoked(d)))
    BY <1>2, <1>6, <2>1, Zenon DEF CheckVerdict
  <2>3. Consistent(notes[1], CrlRevoked(d))
    <3>1. CASE cert = "good"
      <4>1. notes[1] = "GOOD" /\ ~CrlRevoked(d)
        BY <1>1, <1>3, <1>6, <3>1 DEF Expected
      <4>2. QED
        BY <4>1 DEF Consistent
    <3>2. CASE cert = "revoked"
      <4>1. notes[1] = "REVOKED" /\ CrlRevoked(d)
        BY <1>1, <1>3, <1>6, <3>2 DEF Expected
      <4>2. QED
        BY <4>1 DEF Consistent
    <3>3. QED
      BY <1>1, <3>1, <3>2
  <2>4. QED
    BY <2>2, <2>3, Zenon DEF PassOrFail
<1>7. QED
  BY <1>5, <1>6 DEF Checks

LEMMA GoodCrl ==
  ASSUME StageInv, NotesInv, ListInv, GoodInv, CrlSteps
  PROVE  GoodInv'
<1>1. ASSUME NEW status, Report(status), UNCHANGED <<setup, text>>, pc # "start",
             status \notin {"FAIL", "ERROR"} \/ ~Exemplary
      PROVE  GoodInv'
  BY <1>1, GoodReport
<1>2. ASSUME pc # "start", UNCHANGED <<setup, text>> PROVE Exemplary => GoodText'
  BY <1>2 DEF GoodInv, GoodText
<1>3. ASSUME UNCHANGED <<setup, turn, results, text>>, pc # "start",
             pc' \notin {"discover", "read", "head", "get", "script"} \/ ~Exemplary
      PROVE  GoodInv'
  BY <1>2, <1>3, GoodStays
<1>4. CASE Extract
  <2>1. PICK status :
          /\ ReportHere(status)
          /\ status = (CASE "good" \notin setup.supplied -> "SKIP"
                         [] OTHER -> IF CertUrls # <<>> THEN "PASS" ELSE "FAIL")
    BY <1>4, Zenon DEF Extract
  <2>2. pc = "next"
    BY <1>4 DEF Extract
  <2>3. ASSUME Exemplary PROVE status \notin {"FAIL", "ERROR"}
    <3>1. CertUrls # <<>>
      BY <2>3 DEF Exemplary, CertUrls
    <3>2. status = "SKIP" \/ status = "PASS"
      BY <2>1, <3>1, Zenon
    <3>3. QED
      BY <3>2
  <2>4. QED
    BY <1>1, <2>1, <2>2, <2>3 DEF ReportHere
<1>5. CASE BeginSeek
  <2>1. pc = "next"
    BY <1>5 DEF BeginSeek
  <2>2. CASE ReportHere("SKIP")
    BY <1>1, <2>1, <2>2 DEF ReportHere
  <2>3. CASE CrlStep("try")
    BY <1>3, <2>1, <2>3 DEF CrlStep
  <2>4. QED
    BY <1>5, <2>2, <2>3 DEF BeginSeek
<1>6. CASE TryUrl
  <2>1. PICK u : u = Head(untried)
    OBVIOUS
  <2>2. pc = "try" /\ <<u, 0>> \in Places
    BY <1>6, <2>1, Parts, FirstPlace DEF ListInv, TryUrl
  <2>3. PICK d \in Served(<<u, 0>>) :
          \/ d.form = "blocked" /\ ReportHere("ERROR")
          \/ /\ d.form = "failed" /\ probes' = Probes(u)
             /\ CrlStep("discover") /\ UNCHANGED <<untried, working, crl, temp, sent>>
          \/ ~Failing(d) /\ LooksLikeCrl(d) /\ FoundAt(<<u, 0>>)
          \/ ~Failing(d) /\ ~LooksLikeCrl(d) /\ NextUrl
    BY <1>6, <2>1 DEF TryUrl
  <2>4. Exemplary => d.form = "crl" /\ LooksLikeCrl(d)
    BY <2>2, <2>3, ExemplaryServes
  <2>5. CASE FoundAt(<<u, 0>>)
    BY <1>3, <2>2, <2>5 DEF FoundAt, CrlStep
  <2>6. CASE ~Exemplary /\ (ReportHere("ERROR") \/ CrlStep("discover") \/ NextUrl)
    BY <1>1, <1>3, <2>2, <2>6 DEF ReportHere, CrlStep, NextUrl
  <2>7. QED
    BY <2>3, <2>4, <2>5, <2>6
<1>7. CASE Discover
  <2>1. pc = "discover" /\ ~Exemplary
    BY <1>7 DEF Discover, GoodInv
  <2>2. (\E status : ReportHere(status)) \/ (\E step : CrlStep(step))
    BY <1>7 DEF Discover, FoundAt, NextUrl
  <2>3. QED
    BY <1>1, <1>3, <2>1, <2>2 DEF ReportHere, CrlStep
<1>8. CASE Fetch
  <2>1. pc = "fetch" /\ UNCHANGED <<setup, text>> /\ Test \in Seekers
    BY <1>8 DEF Fetch, ReportHere, CrlStep, StageInv
  <2>2. PICK p \in Places : working = {p}
    BY <2>1 DEF ListInv
  <2>3. PICK d \in Served(p) : \/ Failing(d) /\ ReportHere("ERROR")
                               \/ ~Failing(d) /\ crl' = Some(d) /\ CrlStep("read")
    BY <1>8, <2>2 DEF Fetch
  <2>4. Exemplary => d = Genuine /\ ~Failing(d)
    BY <2>2, <2>3, ExemplaryServes
  <2>5. CASE Failing(d) /\ ReportHere("ERROR")
    BY <1>1, <2>1, <2>4, <2>5 DEF ReportHere
  <2>6. CASE crl' = Some(d) /\ CrlStep("read")
    <3>1. UNCHANGED <<setup, turn, results>> /\ pc' = "read" /\ crl' = {d}
      BY <2>6 DEF CrlStep, Some
    <3>2. Test # "Consistency"
      BY <2>1 DEF Seekers
    <3>3. Exemplary => GoodText'
      BY <1>2, <2>1
    <3>4. Exemplary => crl' = {Genuine}
      BY <2>4, <3>1
    <3>5. QED
      BY <3>1, <3>2, <3>3, <3>4, GoodStays
  <2>7. QED
    BY <2>3, <2>5, <2>6
<1>9. CASE Read
  BY <1>9, GoodRead
<1>10. CASE BeginAccessibility
  <2>1. pc = "next"
    BY <1>10 DEF BeginAccessibility
  <2>2. CASE ReportHere("SKIP")
    BY <1>1, <2>1, <2>2 DEF ReportHere
  <2>3. CASE CertUrls # <<>> /\ untried' = CertUrls /\ CrlStep("head")
    <3>1. UNCHANGED <<setup, turn, results, text>> /\ pc' = "head" /\ untried' # <<>>
      BY <2>3 DEF CrlStep
    <3>2. QED
      BY <1>2, <2>1, <3>1, GoodStays
  <2>4. QED
    BY <1>10, <2>2, <2>3 DEF BeginAccessibility
<1>11. CASE Head200
  <2>1. pc = "head"
    BY <1>11 DEF Head200
  <2>2. CASE untried = <<>>
    <3>1. ReportHere(PassOrFail(working # None))
      BY <1>11, <2>2 DEF Head200
    <3>2. Exemplary => PassOrFail(working # None) = "PASS"
      BY <2>1, <2>2 DEF GoodInv, PassOrFail, None
    <3>3. QED
      BY <1>1, <2>1, <3>1, <3>2 DEF ReportHere
  <2>3. CASE untried # <<>>
    <3>1. PICK p : p = <<Head(untried), 0>> /\ p \in Places
      BY <2>3, Parts, FirstPlace DEF ListInv
    <3>2. PICK d \in Served(p) :
            \/ d.form = "blocked" /\ ReportHere("ERROR")
            \/ /\ working' = IF d.form = "failed" THEN working ELSE Some(p)
               /\ CrlStep("head")
      BY <1>11, <2>3, <3>1 DEF Head200
    <3>3. Exemplary => d.form = "crl"
      BY <3>1, <3>2, ExemplaryServes
    <3>4. CASE d.form = "blocked" /\ ReportHere("ERROR")
      BY <1>1, <2>1, <3>3, <3>4 DEF ReportHere
    <3>5. CASE /\ working' = IF d.form = "failed" THEN working ELSE Some(p)
               /\ CrlStep("head")
      <4>1. UNCHANGED <<setup, turn, results, text>> /\ pc' = "head"
        BY <3>5 DEF CrlStep
      <4>2. Exemplary => working' # {}
        BY <3>3, <3>5 DEF Some
      <4>3. QED
        BY <1>2, <2>1, <4>1, <4>2, GoodStays
    <3>6. QED
      BY <3>2, <3>4, <3>5
  <2>4. QED
    BY <2>2, <2>3
<1>12. CASE BeginCheck
  <2>1. pc = "next"
    BY <1>12 DEF BeginCheck
  <2>2. CASE Report("SKIP") /\ UNCHANGED <<setup, text>>
    BY <1>1, <2>1, <2>2
  <2>3. CASE CrlStep(IF Test = "Consistency" THEN "ocsp" ELSE "get")
    <3>1. UNCHANGED <<setup, turn, results, text>>
      BY <2>3 DEF CrlStep
    <3>2. pc' = IF Test = "Consistency" THEN "ocsp" ELSE "get"
      BY <2>3 DEF CrlStep
    <3>3. QED
      BY <1>2, <2>1, <3>1, <3>2, GoodStays
  <2>4. QED
    BY <1>12, <2>2, <2>3 DEF BeginCheck, ReportHere
<1>13. CASE AskStatus
  <2>1. pc = "ocsp" /\ UNCHANGED <<setup, text>>
    BY <1>13 DEF AskStatus
  <2>2. PICK x : x = Exchange("client", Asks(Sample(setup.supplied), "none", "POST"))
    OBVIOUS
  <2>3. PICK a \in Outcomes(x) :
          \/ Raises(a) /\ Report("ERROR")
          \/ /\ ~Raises(a) /\ notes' = <<a.status>> /\ pc' = "get"
             /\ UNCHANGED <<turn, results>>
    BY <1>13, <2>2 DEF AskStatus
  <2>4. Exemplary => ~Raises(a) /\ a.status = Expected(Sample(setup.supplied))
    BY <2>2, <2>3, GoodSample
  <2>5. CASE Raises(a) /\ Report("ERROR")
    BY <1>1, <2>1, <2>4, <2>5
  <2>6. CASE notes' = <<a.status>> /\ pc' = "get" /\ UNCHANGED <<turn, results>>
    <3>1. notes'[1] = a.status
      BY <2>6
    <3>2. QED
      BY <1>2, <2>1, <2>4, <2>6, <3>1, GoodStays
  <2>7. QED
    BY <2>3, <2>5, <2>6
<1>14. CASE GetCrl
  <2>1. pc = "get" /\ UNCHANGED <<setup, text>>
    BY <1>14 DEF GetCrl, ReportCheck, CrlStep
  <2>2. CheckUrl[1] \in Urls
    <3>1. CheckUrl \in Seq(Urls) /\ CheckUrl # <<>>
      BY <2>1, UrlLists DEF ListInv
    <3>2. QED
      BY <3>1
  <2>3. PICK p : p = <<CheckUrl[1], 0>> /\ p \in Places
    BY <2>2, FirstPlace
  <2>4. PICK d \in Served(p) :
          \/ Failing(d) /\ ReportCheck("ERROR")
          \/ ~Failing(d) /\ crl' = Some(d) /\ CrlStep("read")
    BY <1>14, <2>3 DEF GetCrl
  <2>5. Exemplary => d = Genuine /\ ~Failing(d)
    BY <2>3, <2>4, ExemplaryServes
  <2>6. CASE Failing(d) /\ ReportCheck("ERROR")
    BY <1>1, <2>1, <2>5, <2>6 DEF ReportCheck
  <2>7. CASE crl' = Some(d) /\ CrlStep("read")
    <3>1. UNCHANGED <<setup, turn, results, notes>> /\ pc' = "read" /\ crl' = {d}
      BY <2>7 DEF CrlStep, Some
    <3>2. Exemplary /\ Test = "Consistency" => notes'[1] = Expected(Sample(setup.supplied))
      BY <2>1, <3>1 DEF GoodInv
    <3>3. Exemplary => crl' = {Genuine}
      BY <2>5, <3>1
    <3>4. Exemplary => GoodText'
      BY <1>2, <2>1
    <3>5. QED
      BY <3>1, <3>2, <3>3, <3>4, GoodStays
  <2>8. QED
    BY <2>4, <2>6, <2>7
<1>15. CASE ReadCheck
  <2>1. pc = "read" /\ Test \in Checks
    BY <1>15 DEF ReadCheck, Checks
  <2>2. PICK d \in crl : ReportCheck(CheckVerdict(d))
    BY <1>15 DEF ReadCheck
  <2>3. ASSUME Exemplary PROVE CheckVerdict(d) = "PASS"
    <3>1. d = Genuine /\ (Test = "Consistency" => notes[1] = Expected(Sample(setup.supplied)))
      BY <2>1, <2>2, <2>3 DEF GoodInv
    <3>2. QED
      BY <2>1, <2>3, <3>1, GoodCheck
  <2>4. QED
    BY <1>1, <2>1, <2>2, <2>3 DEF ReportCheck
<1>16. CASE FetchConfigured
  <2>1. Test \in Urls /\ pc = "next"
    BY <1>16 DEF FetchConfigured
  <2>2. <<Test, 0>> \in Places
    BY <2>1, FirstPlace
  <2>3. PICK d \in Served(<<Test, 0>>) :
       ReportHere(CASE d.form = "blocked" -> "ERROR"
                    [] d.form # "crl" /\ d.form # "blocked" -> "FAIL"
                    [] OTHER -> IF d.age = "past" THEN "WARN" ELSE "PASS")
    BY <1>16, Zenon DEF FetchConfigured
  <2>4. PICK status : /\ ReportHere(status)
                      /\ status = (CASE d.form = "blocked" -> "ERROR"
                                     [] d.form # "crl" /\ d.form # "blocked" -> "FAIL"
                                     [] OTHER -> IF d.age = "past" THEN "WARN" ELSE "PASS")
    BY <2>3, Zenon
  <2>5. ASSUME Exemplary PROVE status \notin {"FAIL", "ERROR"}
    <3>1. d.form = "crl" /\ d.form # "blocked"
      BY <2>2, <2>3, <2>5, ExemplaryServes
    <3>2. status = IF d.age = "past" THEN "WARN" ELSE "PASS"
      BY <2>4, <3>1, Zenon
    <3>3. QED
      BY <3>2
  <2>6. QED
    BY <1>1, <2>1, <2>4, <2>5 DEF ReportHere
<1>17. QED
  BY <1>4, <1>5, <1>6, <1>7, <1>8, <1>9, <1>10, <1>11, <1>12, <1>13, <1>14, <1>15, <1>16
     DEF CrlSteps

LEMMA GoodStep ==
  ASSUME StageInv, NotesInv, ListInv, GoodInv, [Next]_vars
  PROVE  GoodInv'
<1>1. CASE UNCHANGED vars
  <2>1. UNCHANGED <<setup, turn, results, text, untried, working, crl, pc, notes>>
    BY <1>1 DEF vars, crlVars
  <2>2. Exemplary /\ pc' # "start" => GoodText'
    BY <2>1 DEF GoodInv, GoodText
  <2>3. Exemplary /\ pc' = "script" => \A i \in DOMAIN notes' : GoodNote(Test, i, notes'[i])
    BY <2>1 DEF GoodInv, GoodNotes
  <2>4. QED
    BY <2>1, <2>2, <2>3, GoodStays DEF GoodInv
<1>2. CASE OcspSteps
  BY <1>2, GoodOcsp
<1>3. CASE CrlSteps
  BY <1>3, GoodCrl
<1>4. QED
  BY <1>1, <1>2, <1>3 DEF Next

LEMMA GoodProperty ==
  ASSUME GoodInv
  PROVE  ConformingNeverFails
<1>1. SUFFICES ASSUME Exemplary, NEW i \in DOMAIN results, results[i].status \in {"FAIL", "ERROR"}
               PROVE  results[i].test \in MayFail
  BY DEF ConformingNeverFails, Exemplary
<1>2. Reported(results[i].test, results[i].status)
  BY <1>1 DEF Reported
<1>3. QED
  BY <1>1, <1>2 DEF GoodInv
-----------------------------------------------------------------------------
(* The initial state *)
LEMMA EngineInit == Init => ListInv /\ FoundInv /\ SilentInv /\ GoodInv
<1> SUFFICES ASSUME Init PROVE ListInv /\ FoundInv /\ SilentInv /\ GoodInv
  OBVIOUS
<1>1. \A t, s : ~Reported(t, s)
  BY DEF Init, Reported
<1>2. ListInv
  BY DEF Init, ListInv
<1>3. FoundInv
  BY <1>1 DEF Init, FoundInv
<1>4. SilentInv
  <2>1. text.code = "raised" /\ working = {}
    BY Silence DEF Init, None
  <2>2. QED
    BY <1>1, <2>1 DEF Init, SilentInv
<1>5. GoodInv
  BY <1>1 DEF Init, GoodInv
<1>6. QED
  BY <1>2, <1>3, <1>4, <1>5

(* The engine, whatever the responder and the sites do: its notes belong   *)
(* to its script and its requests to its tests, its lists of URLs are what *)
(* is left to try, and each of the three kinds of world (stable sites, an  *)
(* outage, a conforming responder) leaves its mark on every step.          *)
THEOREM EngineInvariance ==
  Spec => [](/\ StageInv /\ NotesInv /\ ExactInv /\ ListInv
             /\ FoundInv /\ SilentInv /\ GoodInv)
<1> DEFINE I == StageInv /\ NotesInv /\ ExactInv /\ ListInv /\ FoundInv /\ SilentInv /\ GoodInv
<1>1. Init => I
  BY StageInit, NotesInit, EngineInit
<1>2. I /\ [Next]_vars => I'
  <2> SUFFICES ASSUME I, [Next]_vars PROVE I'
    OBVIOUS
  <2>1. StageInv' /\ NotesInv' /\ ExactInv' /\ ListInv'
    BY StageStep, NotesStep, ExactStep, ListStep
  <2>2. FoundInv' /\ SilentInv' /\ GoodInv'
    BY FoundStep, SilentStep, GoodStep
  <2>3. QED
    BY <2>1, <2>2
<1>3. QED
  BY <1>1, <1>2, PTL DEF Spec

(* The tests of tests_protocol and tests_security send the method and the  *)
(* nonce that they are about, although send_ocsp_request overrides both    *)
(* for the other modules.                                                  *)
THEOREM ExactTestsAreExact == Spec => []RequestsAreExact
  BY EngineInvariance, ExactProperty, PTL

(* The search over configured URLs, URLs of the certificate and suffixes   *)
(* finds a CRL exactly if there is one, for any number of each.            *)
THEOREM PublishedCrlIsFound == Spec => []PublishedIsFound
  BY EngineInvariance, FoundProperty, PTL

(* An outage of the responder and of the sites is not reported as          *)
(* conformance, beyond the tests that are listed.                          *)
THEOREM OutageNeverPasses == Spec => []SilentNeverPasses
  BY EngineInvariance, SilentProperty, PTL

(* A responder as RFC 6960 asks for, whose CA publishes its CRL, fails no  *)
(* test beyond those listed, whatever sound reply it chooses.              *)
THEOREM ConformingIsNotFailed == Spec => []ConformingNeverFails
  BY EngineInvariance, GoodProperty, PTL
=============================================================================
