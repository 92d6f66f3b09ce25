----------------------------- MODULE PathSuite ------------------------------
(***************************************************************************)
(* The path validation category of the engine: PathValidationTestSuite of  *)
(* ocsp_tester/tests_path_validation.py.  Twelve tests run in a fixed      *)
(* order, each if it is selected.  The first, 1.01, discovers a chain by   *)
(* following the AIA URLs upwards from the supplied issuer and validates   *)
(* it; the others judge the supplied certificates.                         *)
(*                                                                         *)
(* What a URL serves is chosen when it is first asked.  The helper of      *)
(* every test catches all exceptions, so that the handlers that report     *)
(* ERROR are never reached.                                                *)
(***************************************************************************)
EXTENDS PathValidator

CONSTANTS
  EndEntities, \* certificates that may be supplied as the good certificate
  Issuers,     \* certificates that may be supplied as its issuer
  Anchors,     \* certificates that may be supplied as trust anchors
  AnchorFiles, \* what trust_anchor_path may hold: lists of them
  Served,      \* certificates that a URL may serve
  Urls,        \* AIA URLs
  Selections,  \* selections of the tests of this category
  MaxDepth     \* MAX_CHAIN_DEPTH

Certs == EndEntities \cup Issuers \cup Anchors \cup Served

ASSUME PathAssumption ==
  /\ MaxDepth \in Nat /\ AnchorFiles \subseteq Seq(Anchors)
  /\ \A c \in Certs : c.aia \in Seq(Urls) /\ c.pathLen \in Int

TestOrder ==
  <<"1.01", "1.02", "1.03", "1.04", "2.01", "2.04", "3.01", "3.03", "4.01", "4.02",
    "5.01", "5.02">>

VARIABLES
  good,     \* the end-entity certificate, {} if none is supplied or readable
  issuer,   \* the issuer certificate; the worker does not start without it
  anchors,  \* _load_supplied_trust_anchors, <<>> when it could not be read
  selected, \* the tests that should_run admits
  turn,     \* the test whose turn it is, an index of TestOrder
  pc,       \* "suite", "look", "fetch" or "judge"
  chain,    \* chain: the end entity first; its last element is current_cert
  depth,
  untried,  \* AIA URLs of current_cert still to be tried
  cache,    \* _aia_cert_cache: {certificate}, or {} for a failure
  asked,    \* number of downloads per URL
  ended,    \* termination; "raised" if discovery returns None
  results   \* test_results: test and status

inputs == <<good, issuer, anchors, selected>>
search == <<chain, depth, untried, cache, asked, ended>>
vars == <<inputs, turn, pc, search, results>>

(* Options as sets of at most one element. *)
None == {}
Some(c) == {c}
Option(S) == {None} \cup {Some(c) : c \in S}

Current == chain[Len(chain)]

(* _key *)
Key(c) == <<c.subject, c.serial>>
Seen == {Key(chain[i]) : i \in 1..Len(chain)}

Init ==
  /\ good \in Option(EndEntities)
  /\ issuer \in Issuers
  /\ anchors \in AnchorFiles \cup {<<>>}
  /\ selected \in Selections
  /\ turn = 1 /\ pc = "suite" /\ chain = <<>> /\ depth = 0 /\ untried = <<>>
  /\ cache = [u \in {} |-> None] /\ asked = [u \in Urls |-> 0]
  /\ ended = "none" /\ results = <<>>
-----------------------------------------------------------------------------
(* _build_certificate_chain_with_aia *)

AtAnchor == \E i \in 1..Len(anchors) : Key(anchors[i]) = Key(Current)
AtRoot == Current.subject = Current.issuer
AtLimit == depth >= MaxDepth

Stop(reason) ==
  /\ ended' = reason /\ pc' = "judge"
  /\ UNCHANGED <<inputs, turn, chain, depth, results>>

StopHere(reason) == Stop(reason) /\ UNCHANGED <<untried, cache, asked>>

ReachAnchor == pc = "look" /\ AtAnchor /\ StopHere("anchor")
ReachRoot   == pc = "look" /\ ~AtAnchor /\ AtRoot /\ StopHere("root")
ReachLimit  == pc = "look" /\ ~AtAnchor /\ ~AtRoot /\ AtLimit /\ StopHere("depth")

(* _extract_aia_urls *)
ReadAia ==
  /\ pc = "look" /\ ~AtAnchor /\ ~AtRoot /\ ~AtLimit
  /\ \/ Current.exts = "malformed" /\ StopHere("raised")
     \/ Current.exts = "ok" /\ Current.aia = <<>> /\ StopHere("no-aia")
     \/ /\ Current.exts = "ok" /\ Current.aia # <<>>
        /\ untried' = Current.aia /\ pc' = "fetch"
        /\ UNCHANGED <<inputs, turn, chain, depth, cache, asked, ended, results>>

(* Mutant: a certificate that is already in the chain is added again. *)
TakeAgain(parent) ==
  \/ parent.subject # Current.issuer /\ Stop("mismatch")
  \/ /\ parent.subject = Current.issuer
     /\ chain' = Append(chain, parent) /\ depth' = depth + 1 /\ pc' = "look"
     /\ UNCHANGED <<inputs, turn, ended, results>>

(* The checks on a downloaded parent certificate. *)
TakeParent(parent) ==
  \/ parent.subject # Current.issuer /\ Stop("mismatch")
  \/ /\ parent.subject = Current.issuer /\ Key(parent) \in Seen
     /\ Stop("cycle")
  \/ /\ parent.subject = Current.issuer /\ Key(parent) \notin Seen
     /\ chain' = Append(chain, parent) /\ depth' = depth + 1 /\ pc' = "look"
     /\ UNCHANGED <<inputs, turn, ended, results>>

(* The loop over the URLs goes on with the next after a failure. *)
Answered(answer) ==
  /\ untried' = Tail(untried)
  /\ \/ \E parent \in answer : TakeParent(parent)
     \/ answer = None /\ Tail(untried) = <<>> /\ Stop("download-failed")
     \/ /\ answer = None /\ Tail(untried) # <<>>
        /\ UNCHANGED <<inputs, turn, pc, chain, depth, ended, results>>

(* _download_certificate_from_url: the answer is kept, a failure too.  A   *)
(* failure stands for any error of the request and for data that none of   *)
(* the parsers takes; of a PKCS #7 bundle the first certificate is used.   *)
Download ==
  LET u == Head(untried) IN
    /\ pc = "fetch" /\ u \notin DOMAIN cache
    /\ \E answer \in Option(Served) :
         /\ cache' = [v \in DOMAIN cache \cup {u} |-> IF v = u THEN answer ELSE cache[v]]
         /\ asked' = [asked EXCEPT ![u] = @ + 1]
         /\ Answered(answer)

UseCache ==
  LET u == Head(untried) IN
    /\ pc = "fetch" /\ u \in DOMAIN cache
    /\ Answered(cache[u])
    /\ UNCHANGED <<cache, asked>>

(* Mutant: the last certificate found is trusted whatever it is. *)
TopIsTrusted == [intermediates |-> SubSeq(chain, 2, Len(chain) - 1), anchors |-> <<Current>>]

(* The chain that goes to the validator. *)
Organised ==
  IF ended \in {"root", "anchor"}
    THEN [intermediates |-> SubSeq(chain, 2, Len(chain) - 1), anchors |-> <<Current>>]
    ELSE [intermediates |-> SubSeq(chain, 2, Len(chain)), anchors |-> anchors]
-----------------------------------------------------------------------------
(* The tests *)

Test == TestOrder[turn]

Report(status) ==
  /\ results' = Append(results, [test |-> Test, status |-> status])
  /\ turn' = turn + 1 /\ pc' = "suite"
  /\ UNCHANGED <<inputs, search>>

PassIf(b) == IF b THEN "PASS" ELSE "FAIL"

(* Mutant: the issuer's signature is verified with the end entity's key. *)
SwappedSignature ==
  PassIf(\A g \in good : g.issuer = issuer.subject /\ Verified(issuer, g))

(* _test_invalid_signature_ee, _test_invalid_signature_intermediate *)
SignatureTest ==
  PassIf(\A g \in good : g.issuer = issuer.subject /\ Verified(g, issuer))

(* _test_issuer_subject_mismatch *)
NameChaining ==
  IF good = None THEN "SKIP" ELSE PassIf(\A g \in good : g.issuer = issuer.subject)

(* _test_expired_ee_certificate *)
Expiry == PassIf(\A g \in good : g.time # "late")

(* _test_basic_constraints_violation *)
BasicConstraints == PassIf(issuer.exts = "malformed" \/ issuer.ca = "yes")

(* _test_policy_mapping_success only reads the extensions; whether it can  *)
(* read a policyMappings extension is up to the library.                   *)
PolicyMapping ==
  IF good = None \/ issuer.exts = "malformed" \/ \E g \in good : g.exts = "malformed"
    THEN {"FAIL"} ELSE {"PASS", "FAIL"}

(* The helpers of 2.04, 3.01, 3.03, 4.02 and 5.02 return a constant. *)
Verdicts(t) ==
  CASE t \in {"1.02", "1.03"} -> {SignatureTest}
    [] t = "1.04" -> {NameChaining}
    [] t = "2.01" -> {Expiry}
    [] t = "4.01" -> {BasicConstraints}
    [] t = "5.01" -> PolicyMapping
    [] t \in {"2.04", "3.01", "3.03", "4.02", "5.02"} -> {"PASS"}

Running == pc = "suite" /\ turn <= Len(TestOrder)

SkipTest ==
  /\ Running /\ Test \notin selected
  /\ turn' = turn + 1
  /\ UNCHANGED <<inputs, pc, search, results>>

RunTest ==
  /\ Running /\ Test \in selected /\ Test # "1.01"
  /\ \E status \in Verdicts(Test) : Report(status)

(* _validate_certificate_chain_basic: without a good certificate there is  *)
(* nothing to validate.                                                    *)
StartChain ==
  /\ Running /\ Test = "1.01" /\ Test \in selected
  /\ \/ good = None /\ Report("FAIL")
     \/ \E g \in good :
          /\ chain' = <<g, issuer>> /\ depth' = 0 /\ pc' = "look"
          /\ UNCHANGED <<inputs, turn, untried, cache, asked, ended, results>>

JudgeChain ==
  /\ pc = "judge"
  /\ LET o == Organised IN
       Report(PassIf(ended # "raised" /\ ValidateChain(chain[1], o.intermediates, o.anchors)))

Discover ==
  \/ ReachAnchor \/ ReachRoot \/ ReachLimit \/ ReadAia \/ Download \/ UseCache

Next == SkipTest \/ RunTest \/ StartChain \/ Discover \/ JudgeChain

Spec == Init /\ [][Next]_vars
-----------------------------------------------------------------------------
Endings == {"none", "anchor", "root", "depth", "no-aia", "raised", "mismatch", "cycle", "download-failed"}
Statuses == {"PASS", "FAIL", "SKIP"}

TypeOK ==
  /\ good \in Option(EndEntities) /\ issuer \in Issuers /\ anchors \in Seq(Anchors)
  /\ selected \in Selections /\ turn \in 1..(Len(TestOrder) + 1)
  /\ pc \in {"suite", "look", "fetch", "judge"}
  /\ chain \in Seq(Certs) /\ depth \in 0..MaxDepth /\ untried \in Seq(Urls)
  /\ DOMAIN cache \subseteq Urls /\ \A u \in DOMAIN cache : cache[u] \in Option(Served)
  /\ asked \in [Urls -> Nat] /\ ended \in Endings
  /\ results \in Seq([test : {TestOrder[i] : i \in 1..Len(TestOrder)}, status : Statuses])

Passed(t) == \E i \in 1..Len(results) : results[i] = [test |-> t, status |-> "PASS"]
Failed(t) == \E i \in 1..Len(results) : results[i] = [test |-> t, status |-> "FAIL"]

(* The discovered chain: above the supplied issuer every certificate       *)
(* carries the name that the one below it gives as its issuer, whatever    *)
(* the URLs serve and whichever answers come from the cache.               *)
ChainLinked ==
  \A i \in 3..Len(chain) : chain[i].subject = chain[i - 1].issuer

(* Cross-certified CAs do not make discovery go round: no certificate is   *)
(* added that is in the chain already.                                     *)
NoCertificateTwice ==
  \A i \in 3..Len(chain) : \A j \in 1..(i - 1) : Key(chain[i]) # Key(chain[j])

(* "fetch each URL once per run": also one that failed, and that several   *)
(* certificates of the chain name.                                         *)
AskedOnce == \A u \in Urls : asked[u] <= 1

(* What discovery by AIA promises, however many URLs fail, answer with     *)
(* other certificates or lead back to the chain.                           *)
DiscoverySound == ChainLinked /\ NoCertificateTwice /\ AskedOnce

(* The inductive invariant behind them: what the search keeps between two  *)
(* steps.                                                                  *)
SearchInv ==
  /\ good \in Option(EndEntities) /\ issuer \in Issuers
  /\ chain \in Seq(Certs) /\ depth \in Nat /\ untried \in Seq(Urls)
  /\ pc \in {"look", "fetch", "judge"} => Len(chain) = depth + 2 /\ depth <= MaxDepth
  /\ pc = "fetch" => untried # <<>> /\ depth < MaxDepth
  /\ DOMAIN cache \subseteq Urls /\ \A u \in DOMAIN cache : cache[u] \in Option(Served)
  /\ asked \in [Urls -> Nat]
  /\ \A u \in Urls : asked[u] = IF u \in DOMAIN cache THEN 1 ELSE 0

(* RFC 5280, 6.1, for a path from the end entity up to, not including, a   *)
(* trust anchor, without the path length constraints.                      *)
RfcLinked(path, anchor) ==
  \A i \in 1..Len(path) :
    LET parent == IF i < Len(path) THEN path[i + 1] ELSE anchor IN
      path[i].issuer = parent.subject /\ path[i].signedBy = parent.key

RfcPath(path, anchor) ==
  /\ RfcLinked(path, anchor)
  /\ \A i \in 1..Len(path) : path[i].time = "now" /\ path[i].exts = "ok"
  /\ \A i \in 2..Len(path) : path[i].ca = "yes" /\ path[i].keyUsage # "other"

Path == <<chain[1]>> \o Organised.intermediates

(* What may be trusted: the supplied anchors, and a CA of the chain that   *)
(* has the key of one of them or is a root.                                *)
TrustAnchors ==
  {anchors[i] : i \in 1..Len(anchors)} \cup
  {chain[i] : i \in {i \in 2..Len(chain) :
     chain[i].subject = chain[i].issuer \/ \E j \in 1..Len(anchors) : Key(anchors[j]) = Key(chain[i])}}

(* A CA of the path gives itself or one below it as its issuer. *)
Looped == \E i \in 2..Len(Path) : \E j \in 2..i : Path[i].issuer = Path[j].subject

(* test_catalog.py on 1.01: "Baseline chain builds and validates to the    *)
(* trust anchor".  If it passes, the discovered path is valid from the     *)
(* given issuer's certificate to a trust anchor in the sense of RFC 5280,  *)
(* as long as no CA of the path is its own ancestor.                       *)
PassIsTrusted ==
  (Passed("1.01") /\ chain[1].issuer = issuer.subject /\ ~Looped) =>
    \E a \in TrustAnchors : RfcPath(Path, a)

(* Conversely, 1.01 passes for a path that discovery followed up to a root *)
(* or to the supplied anchor and that RFC 5280 accepts, if its signatures  *)
(* are RSA PKCS #1 v1.5, its names are distinct and it has no path length  *)
(* constraint (the validator counts these in the wrong direction).         *)
ValidChainPasses ==
  (/\ ended \in {"root", "anchor"} /\ pc = "suite"
   /\ RfcPath(Path, Current)
   /\ \A i \in 1..Len(Path) : Path[i].pkcs1 /\ Path[i].pathLen < 0
   /\ \A i, j \in 2..Len(chain) : chain[i].subject = chain[j].subject => i = j)
  => Passed("1.01")

(* The verdicts of one suite agree: when 1.01 passes through the supplied  *)
(* issuer, the tests of its parts do not fail.                             *)
VerdictsAgree ==
  (Passed("1.01") /\ chain[1].issuer = issuer.subject) =>
    /\ ~Failed("1.02") /\ ~Failed("1.03") /\ ~Failed("1.04") /\ ~Failed("2.01")
    /\ Len(Path) > 1 => ~Failed("4.01")
=============================================================================
