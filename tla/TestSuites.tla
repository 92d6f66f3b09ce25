----------------------------- MODULE TestSuites -----------------------------
(***************************************************************************)
(* The engine at work on one category: the runner of the category goes     *)
(* through its tests in order, runs each one that is selected, and reports *)
(* it.  The OCSP tests follow the scripts of OcspSuites.  The tests of     *)
(* tests_crl_comprehensive, which look for a CRL at several URLs, have     *)
(* their steps here, and so has _explicit_crl_tests of the executor.       *)
(*                                                                         *)
(* A request through the network guard can end with BlockedTargetError     *)
(* (an address or a redirect that the policy forbids, or a host name that  *)
(* does not resolve), which is no RequestException.                        *)
(***************************************************************************)
EXTENDS OcspSuites

CONSTANTS
  Setups,    \* configurations to run, see SetupType
  Urls,      \* URLs of CRLs; the test that fetches one has its name
  Plain,     \* those to which discover_crl_url adds suffixes
  Suffixes,  \* number of suffixes it tries
  Documents  \* what a URL may serve: a CRL, a "blob" that begins like one, or a "page"

CrlTests ==
  <<"Extraction", "Download", "Accessibility", "CRL signature", "CRL times", "Revocation",
    "Consistency">>

(* A place is a URL, or a URL with one of the suffixes. *)
Places == Urls \X (0..Suffixes)

SetupType ==
  [category : {"protocol", "status", "crl", "security", "performance", "ikev2", "federal"},
   selected : SUBSET STRING,                  \* the selection of the run
   supplied : SUBSET {"good", "revoked", "foreign"}, \* uploaded certificates
   runtime  : [method : {"auto", "GET", "POST"}, nonce : BOOLEAN],
   samples  : Nat \ {0},                      \* latency_samples
   load     : Nat,                            \* load_requests; 0: no load test
   responder : {"any", "silent"} \cup Policies,
   openssl  : {"works", "slow", "missing"},   \* slow: on a large CRL
   crlUrls  : Seq(Urls),                      \* configured; the first is crl_override_url
   points   : Seq(Urls),                      \* CRL distribution points of the certificates
   site     : [Places -> {"crl", "page", "dead", "blocked"}] \cup {<<>>}] \* <<>>: any

(* The names of the tests, none of which is a URL *)
TestNames ==
  UNION {{tests[i] : i \in DOMAIN tests} :
           tests \in {ProtocolTests, StatusTests, ResponseTests, CrlTests, SecurityTests,
                     PerformanceTests, Ikev2Tests, FederalTests}}

ASSUME SuitesAssumption ==
  /\ Suffixes \in Nat /\ Plain \subseteq Urls /\ Urls \cap TestNames = {}
  /\ Setups \subseteq SetupType

VARIABLES
  setup,    \* never changes
  turn,     \* the test whose turn it is
  pc,       \* "next", "script", or a step of a CRL test
  notes,    \* what the test has noted so far
  text,     \* response_text of the federal category
  untried,  \* crl_urls_to_try still ahead
  probes,   \* what discover_crl_url has still to try
  working,  \* working_crl_url, an option
  crl,      \* the CRL document that the test is about, an option
  temp,     \* tests whose file temp_cert exists
  results,  \* test and status
  sent      \* requests of send_ocsp_request, by test

crlVars == <<untried, probes, working, crl, temp>>
vars == <<setup, turn, pc, notes, text, crlVars, results, sent>>

TestOrder ==
  CASE setup.category = "protocol" -> ProtocolTests
    [] setup.category = "status" -> StatusTests
    [] setup.category = "security" -> SecurityTests
    [] setup.category = "performance" -> PerformanceTests
    [] setup.category = "ikev2" -> Ikev2Tests
    [] setup.category = "federal" -> FederalTests
    [] setup.category = "crl" -> ResponseTests \o CrlTests \o setup.crlUrls

Ended == turn > Len(TestOrder)
Test == TestOrder[turn]

Init ==
  /\ setup \in Setups
  /\ turn = 1 /\ pc = "start" /\ notes = <<>> /\ text = Raised
  /\ untried = <<>> /\ probes = <<>> /\ working = None /\ crl = None /\ temp = {}
  /\ results = <<>> /\ sent = {}

(* r.end() and results.append(r): the runner goes on with the next test. *)
Report(status) ==
  /\ results' = Append(results, [test |-> Test, status |-> status])
  /\ turn' = turn + 1 /\ pc' = "next" /\ notes' = <<>>
  /\ untried' = <<>> /\ probes' = <<>> /\ working' = None /\ crl' = None

ReportHere(status) == Report(status) /\ UNCHANGED <<setup, text, temp, sent>>
-----------------------------------------------------------------------------
(* Exchanges *)

(* What comes back over each of the clients. *)
Outcomes(x) ==
  CASE x.via = "local" -> {IF setup.openssl = "missing" THEN Raised ELSE Ran("1", Bare("silence"))}
    [] x.via = "openssl" -> IF setup.openssl = "missing" THEN {Raised}
                            ELSE UNION {Openssl(a) : a \in AnswersTo(x.q, setup.responder)}
    [] x.via = "post" -> AnswersTo(x.q, setup.responder)
    [] x.via = "client" ->
         AnswersTo(Overridden(x.q, Module(Test), setup.runtime), setup.responder)

Send(x) ==
  sent' = IF x.via = "client"
            THEN sent \cup {[test |-> Test, q |-> Overridden(x.q, Module(Test), setup.runtime)]}
            ELSE sent

(* The shared fetch of the federal category; an exception leaves the text  *)
(* empty.                                                                  *)
Start ==
  /\ pc = "start" /\ pc' = "next"
  /\ text' \in IF setup.category = "federal" /\ setup.selected \cap TextReaders # {}
                 THEN Outcomes(FetchText(setup.supplied)) ELSE {text}
  /\ UNCHANGED <<setup, turn, notes, crlVars, results, sent>>

(* should_run *)
SkipTest ==
  /\ pc = "next" /\ ~Ended /\ Test \notin setup.selected
  /\ turn' = turn + 1
  /\ UNCHANGED <<setup, pc, notes, text, crlVars, results, sent>>

ScriptHere == Script(Test, setup)
More == Len(notes) < Len(ScriptHere) /\ ~Broken(Test, notes)
CrlHere == Among(Test, CrlTests) \/ Test \in Urls

BeginScript ==
  /\ pc = "next" /\ ~Ended /\ Test \in setup.selected /\ ~CrlHere
  /\ pc' = "script"
  /\ UNCHANGED <<setup, turn, notes, text, crlVars, results, sent>>

ExchangeStep ==
  /\ pc = "script" /\ More
  /\ LET i == Len(notes) + 1 IN
       /\ Send(ScriptHere[i])
       /\ \E out \in Outcomes(ScriptHere[i]) : notes' = Append(notes, Note(Test, i, out))
  /\ UNCHANGED <<setup, turn, pc, text, crlVars, results>>

(* Mutant: an exchange that raises ends the category. *)
JudgeUnlessRaised ==
  /\ pc = "script" /\ ~More
  /\ IF notes # <<>> /\ notes[1] = "ERROR"
       THEN /\ turn' = Len(TestOrder) + 1 /\ pc' = "next"
            /\ UNCHANGED <<setup, notes, text, crlVars, results, sent>>
       ELSE ReportHere(Verdict(Test, notes, text))

Judge == pc = "script" /\ ~More /\ ReportHere(Verdict(Test, notes, text))
-----------------------------------------------------------------------------
(* CRL tests *)

(* good_cert or revoked_cert *)
HasTestCert == setup.supplied \cap {"good", "revoked"} # {}

(* extract_all_crl_urls asks openssl; no URLs if that fails. *)
CertUrls == IF setup.openssl = "missing" THEN <<>> ELSE setup.points
Override == IF setup.crlUrls = <<>> THEN <<>> ELSE <<setup.crlUrls[1]>>

(* Mutant: the configured URL replaces those of the certificate. *)
UrlsToTryOverride == IF Override # <<>> THEN Override ELSE CertUrls

UrlsToTry == Override \o CertUrls

(* requests.get or head: a document, or a failure of either kind.          *)
Blank(form) ==
  [form |-> form, signed |-> FALSE, age |-> "past", lists |-> FALSE, mentions |-> FALSE]
Failing(d) == d.form \in {"failed", "blocked"}

(* The CRL of the CA, in which the serial number of a certificate is found *)
(* only as that of a revoked one.                                          *)
Genuine == [form |-> "crl", signed |-> TRUE, age |-> "current",
            lists |-> Sample(setup.supplied) = "revoked", mentions |-> FALSE]

Served(place) ==
  IF setup.site = <<>> THEN Documents \cup {Blank("failed"), Blank("blocked")}
  ELSE CASE setup.site[place] = "crl" -> {Genuine}
         [] setup.site[place] = "page" -> {Blank("page")}
         [] setup.site[place] = "dead" -> {Blank("failed")}
         [] setup.site[place] = "blocked" -> {Blank("blocked")}

(* More than 100 bytes, and PEM or the first byte of DER. *)
LooksLikeCrl(d) == d.form \in {"crl", "blob"}

CrlStep(step) == pc' = step /\ UNCHANGED <<setup, turn, notes, text, results>>

(* "CRL Distribution Point extraction from certificate" *)
Extract ==
  /\ pc = "next" /\ ~Ended /\ Test \in setup.selected /\ Test = "Extraction"
  /\ ReportHere(CASE "good" \notin setup.supplied -> "SKIP"
                  [] OTHER -> IF CertUrls # <<>> THEN "PASS" ELSE "FAIL")

(* Download, signature and timestamp tests: up to the loop over the URLs. *)
Seekers == {"Download", "CRL signature", "CRL times"}

BeginSeek ==
  /\ pc = "next" /\ ~Ended /\ Test \in setup.selected \cap Seekers
  /\ \/ (~HasTestCert \/ UrlsToTry = <<>>) /\ ReportHere("SKIP")
     \/ /\ HasTestCert /\ UrlsToTry # <<>>
        /\ untried' = UrlsToTry
        /\ CrlStep("try") /\ UNCHANGED <<probes, working, crl, temp, sent>>

(* discover_crl_url tries the URL once more, then with the suffixes. *)
Probes(u) == [i \in 1..(IF u \in Plain THEN Suffixes + 1 ELSE 1) |-> <<u, i - 1>>]

NextUrl ==
  \/ Tail(untried) = <<>> /\ ReportHere("FAIL")
  \/ /\ Tail(untried) # <<>> /\ untried' = Tail(untried) /\ probes' = <<>>
     /\ CrlStep("try") /\ UNCHANGED <<working, crl, temp, sent>>

FoundAt(place) ==
  /\ working' = Some(place)
  /\ CrlStep("fetch") /\ UNCHANGED <<untried, probes, crl, temp, sent>>

TryUrl ==
  /\ pc = "try"
  /\ LET u == Head(untried) IN \E d \in Served(<<u, 0>>) :
       \/ d.form = "blocked" /\ ReportHere("ERROR")
       \/ /\ d.form = "failed" /\ probes' = Probes(u)
          /\ CrlStep("discover") /\ UNCHANGED <<untried, working, crl, temp, sent>>
       \/ ~Failing(d) /\ LooksLikeCrl(d) /\ FoundAt(<<u, 0>>)
       \/ ~Failing(d) /\ ~LooksLikeCrl(d) /\ NextUrl

Discover ==
  /\ pc = "discover"
  /\ \E d \in Served(Head(probes)) :
       \/ d.form = "blocked" /\ ReportHere("ERROR")
       \/ ~Failing(d) /\ LooksLikeCrl(d) /\ FoundAt(Head(probes))
       \/ /\ d.form # "blocked" /\ ~(~Failing(d) /\ LooksLikeCrl(d))
          /\ \/ Tail(probes) = <<>> /\ NextUrl
             \/ /\ Tail(probes) # <<>> /\ probes' = Tail(probes)
                /\ CrlStep("discover") /\ UNCHANGED <<untried, working, crl, temp, sent>>

(* The URL that worked is fetched again for the test itself. *)
Fetch ==
  /\ pc = "fetch"
  /\ \E place \in working : \E d \in Served(place) :
       \/ Failing(d) /\ ReportHere("ERROR")
       \/ /\ ~Failing(d) /\ crl' = Some(d)
          /\ CrlStep("read") /\ UNCHANGED <<untried, probes, working, temp, sent>>

(* openssl crl: a timeout is caught, a missing program is an exception. *)
Parsed(d) == setup.openssl = "works" /\ d.form = "crl"

(* A parse that takes too long counts as one for the download test, but    *)
(* not for the signature; the times are then asked for on their own, which *)
(* may take too long as well.                                              *)
DownloadVerdicts(d) == {PassOrFail(d.form = "crl")}
CrlSignatureVerdicts(d) == {PassOrFail(Parsed(d) /\ d.signed)}
CrlTimesVerdicts(d) ==
  {PassOrFail(d.form = "crl" /\ d.age = "current")}
    \cup (IF setup.openssl = "slow" THEN {"FAIL"} ELSE {})

Read ==
  /\ pc = "read" /\ Test \in Seekers
  /\ \E d \in crl :
       \E status \in IF setup.openssl = "missing" THEN {"ERROR"}
                     ELSE CASE Test = "Download" -> DownloadVerdicts(d)
                            [] Test = "CRL signature" -> CrlSignatureVerdicts(d)
                            [] Test = "CRL times" -> CrlTimesVerdicts(d) :
         ReportHere(status)

(* "CRL Distribution Point accessibility": HEAD to every URL of the        *)
(* certificate.                                                            *)
BeginAccessibility ==
  /\ pc = "next" /\ ~Ended /\ Test \in setup.selected /\ Test = "Accessibility"
  /\ \/ ("good" \notin setup.supplied \/ CertUrls = <<>>) /\ ReportHere("SKIP")
     \/ /\ "good" \in setup.supplied /\ CertUrls # <<>>
        /\ untried' = CertUrls
        /\ CrlStep("head") /\ UNCHANGED <<probes, working, crl, temp, sent>>

Head200 ==
  /\ pc = "head"
  /\ IF untried = <<>> THEN ReportHere(PassOrFail(working # None))
     ELSE \E d \in Served(<<Head(untried), 0>>) :
            \/ d.form = "blocked" /\ ReportHere("ERROR")
            \/ /\ d.form # "blocked" /\ untried' = Tail(untried)
               /\ working' = IF d.form = "failed" THEN working ELSE Some(<<Head(untried), 0>>)
               /\ CrlStep("head") /\ UNCHANGED <<probes, crl, temp, sent>>
-----------------------------------------------------------------------------
(* "Certificate revocation status check" and "CRL vs OCSP consistency      *)
(* check" use the first URL only, and keep the certificate in a file, which *)
(* nothing removes where there is no URL.                                  *)
CheckUrl == IF Override # <<>> THEN Override ELSE CertUrls

BeginCheck ==
  /\ pc = "next" /\ ~Ended /\ Test \in setup.selected \cap {"Revocation", "Consistency"}
  /\ \/ ~HasTestCert /\ ReportHere("SKIP")
     \/ /\ HasTestCert /\ CheckUrl = <<>>
        /\ Report("SKIP") /\ temp' = temp \cup {Test} /\ UNCHANGED <<setup, text, sent>>
     \/ /\ HasTestCert /\ CheckUrl # <<>>
        /\ temp' = temp \cup {Test}
        /\ CrlStep(IF Test = "Consistency" THEN "ocsp" ELSE "get")
        /\ UNCHANGED <<untried, probes, working, crl, sent>>

(* Mutant: the file is removed on the normal path only. *)
ReportCheckKeeping(status) ==
  /\ Report(status) /\ temp' = IF status = "ERROR" THEN temp ELSE temp \ {Test}
  /\ UNCHANGED <<setup, text, sent>>

(* temp_cert is removed on the normal path and in the handler. *)
ReportCheck(status) == Report(status) /\ temp' = temp \ {Test} /\ UNCHANGED <<setup, text, sent>>

AskStatus ==
  /\ pc = "ocsp"
  /\ LET x == Exchange("client", Asks(Sample(setup.supplied), "none", "POST")) IN
       \E a \in Outcomes(x) :
         \/ /\ Raises(a) /\ Report("ERROR") /\ temp' = temp \ {Test} /\ Send(x) /\ UNCHANGED <<setup, text>>
         \/ /\ ~Raises(a) /\ Send(x) /\ notes' = <<a.status>> /\ pc' = "get"
            /\ UNCHANGED <<setup, turn, text, crlVars, results>>

GetCrl ==
  /\ pc = "get"
  /\ \E d \in Served(<<CheckUrl[1], 0>>) :
       \/ Failing(d) /\ ReportCheck("ERROR")
       \/ /\ ~Failing(d) /\ crl' = Some(d)
          /\ CrlStep("read") /\ UNCHANGED <<untried, probes, working, temp, sent>>

(* The serial number among the revoked ones, or else anywhere in the text. *)
(* Where no text could be had, nothing is revoked.                         *)
CrlRevoked(d) == Parsed(d) /\ (d.lists \/ d.mentions)

Consistent(status, revoked) ==
  (status = "GOOD" /\ ~revoked) \/ (status = "REVOKED" /\ revoked)

CheckVerdict(d) ==
  IF setup.openssl = "missing" THEN "ERROR"
  ELSE CASE Test = "Revocation" -> PassOrFail(CrlRevoked(d) = (Sample(setup.supplied) = "revoked"))
         [] Test = "Consistency" -> PassOrFail(Consistent(notes[1], CrlRevoked(d)))

ReadCheck ==
  /\ pc = "read" /\ Test \in {"Revocation", "Consistency"}
  /\ \E d \in crl : ReportCheck(CheckVerdict(d))

(* _explicit_crl_tests, with the parsers of the cryptography library. *)
FetchConfigured ==
  /\ pc = "next" /\ ~Ended /\ Test \in setup.selected \cap Urls
  /\ \E d \in Served(<<Test, 0>>) :
       ReportHere(CASE d.form = "blocked" -> "ERROR"
                    [] d.form # "crl" /\ d.form # "blocked" -> "FAIL"
                    [] OTHER -> IF d.age = "past" THEN "WARN" ELSE "PASS")
-----------------------------------------------------------------------------
OcspSteps == Start \/ SkipTest \/ BeginScript \/ ExchangeStep \/ Judge

CrlSteps ==
  \/ Extract \/ BeginSeek \/ TryUrl \/ Discover \/ Fetch \/ Read
  \/ BeginAccessibility \/ Head200
  \/ BeginCheck \/ AskStatus \/ GetCrl \/ ReadCheck
  \/ FetchConfigured

Next == OcspSteps \/ CrlSteps

(* Every request has a timeout and every process ends, so that the engine  *)
(* takes its next step.                                                    *)
Spec == Init /\ [][Next]_vars /\ WF_vars(Next)
-----------------------------------------------------------------------------
Statuses == {"PASS", "FAIL", "SKIP", "WARN", "ERROR"}

TypeOK ==
  /\ turn \in 1..(Len(TestOrder) + 1)
  /\ pc \in {"start", "next", "script", "try", "discover", "fetch", "read", "head", "ocsp", "get"}
  /\ \A i \in DOMAIN untried : untried[i] \in Urls
  /\ \A i \in DOMAIN probes : probes[i] \in Places
  /\ Within(working, Places) /\ temp \subseteq {"Revocation", "Consistency"}
  /\ \A i \in DOMAIN results : results[i].status \in Statuses

(* Whatever responders, sites and openssl do, each selected test of the    *)
(* category is reported once and in the order of the category: no failure  *)
(* of one test keeps a later one from its report.                          *)
EachTestReported ==
  [i \in DOMAIN results |-> results[i].test] =
    SelectSeq(SubSeq(TestOrder, 1, turn - 1), LAMBDA t : t \in setup.selected)

(* The category comes to its end with a report of every selected test:     *)
(* every retry, probe and loop over URLs is finite, and no answer leaves   *)
(* the engine without a next step.                                         *)
EngineEnds == <>(Ended /\ EachTestReported)

StatusesOf(t) == {results[i].status : i \in {j \in DOMAIN results : results[j].test = t}}

(* temp_cert, the file of the two checks that ask OCSP and a CRL, does not *)
(* outlive its check, on whichever path the check ends, unless there was   *)
(* no URL of a CRL.                                                        *)
TempCertRemoved ==
  \A t \in temp : (~Ended /\ Test = t) \/ (CheckUrl = <<>> /\ "SKIP" \in StatusesOf(t))

(* The tests of the transport and of bad nonces put on the wire what their *)
(* names say, whatever method and nonce the run is configured to use.      *)
RequestsAreExact ==
  LET asked(t) == {e.q : e \in {f \in sent : f.test = t}} IN
    \A i \in DOMAIN results :
      CASE results[i].test = "GET" -> {q.method : q \in asked("GET")} = {"GET"}
        [] results[i].test = "POST" -> {q.method : q \in asked("POST")} = {"POST"}
        [] results[i].test = "Malformed" ->
             {q.nonce : q \in asked("Malformed")} = {"zero", "overlong"}
        [] OTHER -> TRUE

Serving(kinds) == setup.site # <<>> /\ \A p \in Places : setup.site[p] \in kinds

(* The tests that pass without a word from anyone: three look at what the  *)
(* engine itself has, and four take a missing answer for a good one.       *)
PassesUnheard ==
  {"Serial number", "Environment", "Extraction",
   "Malformed", "Operational", "Unauthorized", "SigRequired"}

(* A responder that never answers and URLs that serve nothing pass no      *)
(* other test: an outage is not reported as conformance.                   *)
SilentNeverPasses ==
  setup.responder = "silent" /\ Serving({"dead", "blocked"}) =>
    \A i \in DOMAIN results : results[i].status = "PASS" => results[i].test \in PassesUnheard

(* What a conforming responder may fail: the policy that RFC 6960 permits  *)
(* on certificates of other CAs, and two tests of the federal category     *)
(* that look for text which openssl does not print.                        *)
MayFail ==
  {"Signer signature", "Delegated EKU"}
    \cup (IF setup.responder = "refuses" THEN {"Unknown CA"} ELSE {})

(* A conforming responder whose CA publishes its CRL where it says is not  *)
(* reported as failing, under either policy and with any configuration of  *)
(* the requests.                                                           *)
ConformingNeverFails ==
  /\ setup.responder \in Policies /\ setup.openssl = "works"
  /\ HasTestCert /\ setup.points # <<>> /\ Serving({"crl"})
  => \A i \in DOMAIN results :
       results[i].status \in {"FAIL", "ERROR"} => results[i].test \in MayFail

(* Where the CRL is for one URL: there, or if that fails, with a suffix. *)
FindsAt(u) ==
  \/ setup.site[<<u, 0>>] = "crl"
  \/ /\ setup.site[<<u, 0>>] = "dead" /\ u \in Plain
     /\ \E k \in 1..Suffixes : setup.site[<<u, k>>] = "crl"

(* While the sites do not change and the network guard blocks none, the    *)
(* download test passes exactly if one of the URLs, configured or of the   *)
(* certificate, leads to a CRL, however many before it lead nowhere.       *)
PublishedIsFound ==
  Serving({"crl", "page", "dead"}) /\ setup.openssl # "missing" /\ HasTestCert =>
    LET urls == Override \o setup.points IN
      \A status \in StatusesOf("Download") :
        (status = "PASS") = (\E i \in DOMAIN urls : FindsAt(urls[i]))
=============================================================================
