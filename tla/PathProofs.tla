----------------------------- MODULE PathProofs -----------------------------
(***************************************************************************)
(* Chain discovery for any certificates, any number of URLs and whatever   *)
(* they serve: the chain is linked by name, holds no certificate twice and *)
(* is bounded, and no URL is asked twice.  Of the tests that judge it: a   *)
(* pass of 1.01 means that the signatures of a path to a trust anchor      *)
(* verify, a chain without a flaw passes, and tests that look at the same  *)
(* thing do not contradict each other.                                     *)
(***************************************************************************)
EXTENDS PathSuite, TLAPS

Inv == SearchInv /\ ChainLinked /\ NoCertificateTwice

(* What TakeParent adds to the chain keeps it linked and without repeats.  *)
LEMMA AppendKeeps ==
  ASSUME chain \in Seq(Certs), Len(chain) >= 2, ChainLinked, NoCertificateTwice,
         NEW p \in Certs, p.subject = Current.issuer, Key(p) \notin Seen,
         chain' = Append(chain, p)
  PROVE  ChainLinked' /\ NoCertificateTwice' /\ chain' \in Seq(Certs) /\ Len(chain') = Len(chain) + 1
<1> DEFINE n == Len(chain)
<1>1. /\ n \in Nat /\ n >= 2 /\ Len(chain') = n + 1 /\ chain' \in Seq(Certs)
      /\ chain'[n + 1] = p /\ \A i \in 1..n : chain'[i] = chain[i]
  OBVIOUS
<1>2. ChainLinked'
  <2> SUFFICES ASSUME NEW i \in 3..(n + 1) PROVE chain'[i].subject = chain'[i - 1].issuer
    BY <1>1 DEF ChainLinked
  <2>1. CASE i = n + 1
    <3>1. chain'[i] = p /\ chain'[i - 1] = chain[n]
      BY <1>1, <2>1
    <3> QED BY <3>1 DEF Current
  <2>2. CASE i # n + 1
    <3>1. i \in 3..n /\ i \in 1..n /\ i - 1 \in 1..n
      BY <1>1, <2>2
    <3>2. chain'[i] = chain[i] /\ chain'[i - 1] = chain[i - 1]
      BY <1>1, <3>1
    <3> QED BY <3>1, <3>2 DEF ChainLinked
  <2> QED BY <2>1, <2>2
<1>3. NoCertificateTwice'
  <2> SUFFICES ASSUME NEW i \in 3..(n + 1), NEW j \in 1..(i - 1)
               PROVE  Key(chain'[i]) # Key(chain'[j])
    BY <1>1 DEF NoCertificateTwice, Key
  <2>1. CASE i = n + 1
    <3>1. j \in 1..n /\ chain'[i] = p /\ chain'[j] = chain[j]
      BY <1>1, <2>1
    <3>2. Key(chain[j]) \in Seen
      BY <3>1 DEF Seen
    <3> QED BY <3>1, <3>2
  <2>2. CASE i # n + 1
    <3>1. i \in 3..n /\ i \in 1..n /\ j \in 1..n
      BY <1>1, <2>2
    <3>2. chain'[i] = chain[i] /\ chain'[j] = chain[j]
      BY <1>1, <3>1
    <3> QED BY <3>1, <3>2 DEF NoCertificateTwice
  <2> QED BY <2>1, <2>2
<1> QED BY <1>1, <1>2, <1>3

(* The suite starts with no chain and no download.                         *)
LEMMA InitInv == Init => Inv
  BY DEF Init, Inv, SearchInv, ChainLinked, NoCertificateTwice, Option, None, Some

(* One answer of a URL, downloaded or cached. *)
LEMMA AnsweredKeeps ==
  ASSUME PathAssumption, Inv, pc = "fetch", NEW answer \in Option(Served), Answered(answer)
  PROVE  /\ ChainLinked' /\ NoCertificateTwice'
         /\ good' = good /\ issuer' = issuer
         /\ chain' \in Seq(Certs) /\ depth' \in Nat /\ untried' \in Seq(Urls)
         /\ pc' \in {"look", "fetch", "judge"} => Len(chain') = depth' + 2 /\ depth' <= MaxDepth
         /\ pc' = "fetch" => untried' # <<>> /\ depth' < MaxDepth
<1>1. untried' \in Seq(Urls) /\ untried' = Tail(untried)
  BY DEF Answered, Inv, SearchInv
<1>2. ASSUME UNCHANGED <<inputs, chain, depth>>, pc' \in {"judge", "fetch"},
             pc' = "fetch" => untried' # <<>>
      PROVE  /\ ChainLinked' /\ NoCertificateTwice'
             /\ good' = good /\ issuer' = issuer
             /\ chain' \in Seq(Certs) /\ depth' \in Nat
             /\ Len(chain') = depth' + 2 /\ depth' <= MaxDepth
             /\ pc' = "fetch" => depth' < MaxDepth
  BY <1>2 DEF Inv, SearchInv, ChainLinked, NoCertificateTwice, Key, inputs
<1>3. ASSUME NEW reason, Stop(reason)
      PROVE  UNCHANGED <<inputs, chain, depth>> /\ pc' = "judge"
  BY <1>3 DEF Stop
<1>4. ASSUME NEW parent \in answer, TakeParent(parent)
      PROVE  \/ UNCHANGED <<inputs, chain, depth>> /\ pc' = "judge"
             \/ /\ ChainLinked' /\ NoCertificateTwice' /\ chain' \in Seq(Certs)
                /\ Len(chain') = Len(chain) + 1 /\ depth' = depth + 1
                /\ pc' = "look" /\ UNCHANGED inputs
  <2>1. parent \in Certs
    BY <1>4 DEF Option, None, Some, Certs
  <2>2. CASE parent.subject # Current.issuer /\ Stop("mismatch")
    BY <2>2, <1>3
  <2>3. CASE parent.subject = Current.issuer /\ Key(parent) \in Seen /\ Stop("cycle")
    BY <2>3, <1>3
  <2>4. CASE /\ parent.subject = Current.issuer /\ Key(parent) \notin Seen
             /\ chain' = Append(chain, parent) /\ depth' = depth + 1 /\ pc' = "look"
             /\ UNCHANGED <<inputs, turn, ended, results>>
    <3>1. chain \in Seq(Certs) /\ Len(chain) >= 2 /\ ChainLinked /\ NoCertificateTwice
      BY DEF Inv, SearchInv
    <3> QED BY <3>1, <2>1, <2>4, AppendKeeps
  <2> QED BY <1>4, <2>2, <2>3, <2>4 DEF TakeParent
<1>5. CASE \E parent \in answer : TakeParent(parent)
  <2>1. PICK parent \in answer : TakeParent(parent)
    BY <1>5
  <2>2. CASE UNCHANGED <<inputs, chain, depth>> /\ pc' = "judge"
    BY <1>1, <1>2, <2>2
  <2>3. CASE /\ ChainLinked' /\ NoCertificateTwice' /\ chain' \in Seq(Certs)
             /\ Len(chain') = Len(chain) + 1 /\ depth' = depth + 1
             /\ pc' = "look" /\ UNCHANGED inputs
    <3>1. depth \in Nat /\ MaxDepth \in Nat /\ depth < MaxDepth /\ Len(chain) = depth + 2
      BY DEF Inv, SearchInv, PathAssumption
    <3>2. depth' \in Nat /\ Len(chain') = depth' + 2 /\ depth' <= MaxDepth
      BY <2>3, <3>1
    <3> QED BY <1>1, <2>3, <3>2 DEF inputs
  <2> QED BY <1>4, <2>1, <2>2, <2>3
<1>6. CASE answer = None /\ Tail(untried) = <<>> /\ Stop("download-failed")
  BY <1>1, <1>2, <1>3, <1>6
<1>7. CASE /\ answer = None /\ Tail(untried) # <<>>
           /\ UNCHANGED <<inputs, turn, pc, chain, depth, ended, results>>
  BY <1>1, <1>2, <1>7
<1> QED BY <1>5, <1>6, <1>7 DEF Answered

(* Discovery and the tests keep the invariant of the search.               *)
LEMMA StepInv == ASSUME PathAssumption, Inv, [Next]_vars PROVE Inv'
<1> DEFINE Quiet == UNCHANGED <<good, issuer, chain, untried, cache, asked>>
<1>1. ASSUME Quiet, UNCHANGED depth,
             pc' \in {"suite", "judge"}, pc' = "judge" => pc = "look"
      PROVE  Inv'
  BY <1>1 DEF Inv, SearchInv, ChainLinked, NoCertificateTwice, Key, Option, None, Some
<1>2. ASSUME NEW status, Report(status) PROVE Inv'
  BY <1>1, <1>2 DEF Report, inputs, search
<1>3. ASSUME NEW reason, pc = "look", StopHere(reason) PROVE Inv'
  BY <1>1, <1>3 DEF StopHere, Stop, inputs
<1>4. CASE SkipTest
  <2>1. Quiet /\ UNCHANGED depth /\ pc' = "suite"
    BY <1>4 DEF SkipTest, Running, inputs, search
  <2> QED BY <1>1, <2>1
<1>5. CASE RunTest
  BY <1>2, <1>5 DEF RunTest
<1>6. CASE StartChain
  <2>1. CASE good = None /\ Report("FAIL")
    BY <1>2, <2>1
  <2>2. ASSUME NEW g \in good, chain' = <<g, issuer>>, depth' = 0, pc' = "look",
               UNCHANGED <<inputs, turn, untried, cache, asked, ended, results>>
        PROVE  Inv'
    <3>1. g \in Certs /\ issuer \in Certs
      BY <2>2 DEF Inv, SearchInv, Option, None, Some, Certs
    <3>2. chain' \in Seq(Certs) /\ Len(chain') = 2
      BY <2>2, <3>1
    <3>3. ChainLinked' /\ NoCertificateTwice'
      BY <3>2 DEF ChainLinked, NoCertificateTwice
    <3>4. Len(chain') = depth' + 2 /\ depth' <= MaxDepth /\ depth' \in Nat
      BY <2>2, <3>2 DEF PathAssumption
    <3>5. UNCHANGED <<good, issuer, untried, cache, asked>> /\ pc' = "look"
      BY <2>2 DEF inputs
    <3>6. SearchInv'
      BY <3>2, <3>4, <3>5 DEF Inv, SearchInv
    <3> QED BY <3>3, <3>6 DEF Inv
  <2> QED BY <1>6, <2>1, <2>2 DEF StartChain
<1>7. CASE ReachAnchor
  BY <1>3, <1>7 DEF ReachAnchor
<1>8. CASE ReachRoot
  BY <1>3, <1>8 DEF ReachRoot
<1>9. CASE ReachLimit
  BY <1>3, <1>9 DEF ReachLimit
<1>10. CASE ReadAia
  <2>1. CASE Current.exts = "ok" /\ Current.aia # <<>> /\ untried' = Current.aia /\ pc' = "fetch"
             /\ UNCHANGED <<inputs, turn, chain, depth, cache, asked, ended, results>>
    <3>1. Current \in Certs
      BY <1>10 DEF ReadAia, Inv, SearchInv, Current
    <3>2. untried' \in Seq(Urls) /\ untried' # <<>>
      BY <2>1, <3>1 DEF PathAssumption
    <3>3. pc = "look" /\ depth \in Nat /\ MaxDepth \in Nat /\ ~(depth >= MaxDepth)
      BY <1>10 DEF ReadAia, AtLimit, Inv, SearchInv, PathAssumption
    <3>4. Len(chain') = depth' + 2 /\ depth' < MaxDepth /\ depth' <= MaxDepth /\ depth' \in Nat
      BY <2>1, <3>3 DEF Inv, SearchInv
    <3>5. ChainLinked' /\ NoCertificateTwice' /\ chain' \in Seq(Certs)
      BY <2>1 DEF Inv, SearchInv, ChainLinked, NoCertificateTwice, Key
    <3> QED BY <2>1, <3>2, <3>4, <3>5 DEF Inv, SearchInv, inputs, Option, None, Some
  <2>2. CASE Current.exts = "malformed" /\ StopHere("raised")
    BY <1>3, <1>10, <2>2 DEF ReadAia
  <2>3. CASE Current.exts = "ok" /\ Current.aia = <<>> /\ StopHere("no-aia")
    BY <1>3, <1>10, <2>3 DEF ReadAia
  <2> QED BY <1>10, <2>1, <2>2, <2>3 DEF ReadAia
<1>11. CASE Download
  <2> DEFINE u == Head(untried)
  <2>1. PICK answer \in Option(Served) :
          /\ cache' = [v \in DOMAIN cache \cup {u} |-> IF v = u THEN answer ELSE cache[v]]
          /\ asked' = [asked EXCEPT ![u] = @ + 1]
          /\ Answered(answer)
    BY <1>11 DEF Download
  <2>2. pc = "fetch" /\ u \notin DOMAIN cache
    BY <1>11 DEF Download
  <2>3. u \in Urls
    BY <2>2 DEF Inv, SearchInv
  <2>4. /\ DOMAIN cache' \subseteq Urls /\ \A v \in DOMAIN cache' : cache'[v] \in Option(Served)
        /\ DOMAIN cache' = DOMAIN cache \cup {u}
    BY <2>1, <2>3 DEF Inv, SearchInv
  <2>5. /\ asked' \in [Urls -> Nat]
        /\ \A v \in Urls : asked'[v] = IF v \in DOMAIN cache' THEN 1 ELSE 0
    BY <2>1, <2>2, <2>3, <2>4 DEF Inv, SearchInv
  <2>6. /\ ChainLinked' /\ NoCertificateTwice'
        /\ good' = good /\ issuer' = issuer
        /\ chain' \in Seq(Certs) /\ depth' \in Nat /\ untried' \in Seq(Urls)
        /\ pc' \in {"look", "fetch", "judge"} => Len(chain') = depth' + 2 /\ depth' <= MaxDepth
        /\ pc' = "fetch" => untried' # <<>> /\ depth' < MaxDepth
    BY <2>1, <2>2, AnsweredKeeps
  <2> QED BY <2>4, <2>5, <2>6 DEF Inv, SearchInv, Option, None, Some
<1>12. CASE UseCache
  <2>1. pc = "fetch" /\ cache[Head(untried)] \in Option(Served) /\ Answered(cache[Head(untried)])
        /\ UNCHANGED <<cache, asked>>
    BY <1>12 DEF UseCache, Inv, SearchInv
  <2>2. /\ ChainLinked' /\ NoCertificateTwice'
        /\ good' = good /\ issuer' = issuer
        /\ chain' \in Seq(Certs) /\ depth' \in Nat /\ untried' \in Seq(Urls)
        /\ pc' \in {"look", "fetch", "judge"} => Len(chain') = depth' + 2 /\ depth' <= MaxDepth
        /\ pc' = "fetch" => untried' # <<>> /\ depth' < MaxDepth
    BY <2>1, AnsweredKeeps
  <2> QED BY <2>1, <2>2 DEF Inv, SearchInv, Option, None, Some
<1>13. CASE JudgeChain
  BY <1>2, <1>13 DEF JudgeChain
<1>14. CASE UNCHANGED vars
  BY <1>14 DEF Inv, SearchInv, ChainLinked, NoCertificateTwice, Key, vars, inputs, search,
              Option, None, Some
<1> QED BY <1>4, <1>5, <1>6, <1>7, <1>8, <1>9, <1>10, <1>11, <1>12, <1>13, <1>14
        DEF Next, Discover

(* The invariant of the search holds throughout.                           *)
LEMMA Inductive == Spec => []Inv
<1>1. Init => Inv
  BY InitInv
<1>2. Inv /\ [Next]_vars => Inv'
  BY StepInv, PathAssumption
<1> QED BY <1>1, <1>2, PTL DEF Spec

(* Above the supplied issuer, the discovered chain is linked by name and   *)
(* has no certificate twice, and no URL is asked twice, one that failed    *)
(* included (tests_path_validation.py, _build_certificate_chain_with_aia), *)
(* for any certificates, whichever CAs certify each other and whatever the *)
(* URLs answer.                                                            *)
THEOREM SpecDiscoverySound == Spec => []DiscoverySound
<1>1. Inv => AskedOnce
  BY DEF Inv, SearchInv, AskedOnce
<1>2. Inv => DiscoverySound
  BY <1>1 DEF Inv, DiscoverySound
<1> QED BY <1>2, Inductive, PTL
-----------------------------------------------------------------------------
(* The soundness of 1.01. *)

Tests == {"1.01", "1.02", "1.03", "1.04", "2.01", "2.04", "3.01", "3.03", "4.01", "4.02",
          "5.01", "5.02"}

(* What is known of the search once 1.01 is judged. *)
JudgeInv ==
  /\ anchors \in Seq(Anchors) /\ turn \in Nat \ {0}
  /\ results \in Seq([test : Tests, status : Statuses])
  /\ (pc = "suite" /\ turn = 1) => chain = <<>>
  /\ pc # "suite" => turn = 1
  /\ turn = 1 => results = <<>>
  /\ chain # <<>> => Len(chain) >= 2 /\ chain[2] = issuer
  /\ pc # "suite" => chain # <<>>
  /\ (pc \in {"look", "fetch"} \/ chain = <<>>) => ended = "none"
  /\ ended = "anchor" => AtAnchor
  /\ ended = "root" => AtRoot
  /\ Passed("1.01") =>
       chain # <<>> /\ ValidateChain(chain[1], Organised.intermediates, Organised.anchors)

(* In a list that starts with the CAs of a path, the certificate found for *)
(* the i-th of the path is the next one, if no CA is its own ancestor.     *)
LEMMA FoundIsNext ==
  ASSUME NEW ints, NEW tas, NEW C, ints \in Seq(C), tas \in Seq(C), NEW cert,
         NEW k \in 1..Len(ints \o tas),
         (ints \o tas)[k].subject = cert.issuer,
         \A j \in 1..(k - 1) : (ints \o tas)[j].subject # cert.issuer,
         SignatureFound(cert, ints, tas)
  PROVE  Verified(cert, (ints \o tas)[k])
<1> DEFINE all == ints \o tas
<1> DEFINE named == {i \in 1..Len(all) : all[i].subject = cert.issuer}
<1>1. Len(all) \in Nat
  OBVIOUS
<1>2. \A i \in {i \in named : \A j \in named : i <= j} : i = k
  <2> SUFFICES ASSUME NEW i \in named, \A j \in named : i <= j PROVE i = k
    OBVIOUS
  <2>1. k \in named /\ i <= k
    OBVIOUS
  <2>2. ~(i \in 1..(k - 1))
    OBVIOUS
  <2> QED BY <1>1, <2>1, <2>2
<1>3. PICK c \in FindIssuer(cert, ints, tas) : Verified(cert, c)
  BY DEF SignatureFound
<1>4. PICK i \in {i \in named : \A j \in named : i <= j} : c = all[i]
  BY <1>3 DEF FindIssuer
<1> QED BY <1>2, <1>3, <1>4

(* Two lists one after the other. *)
LEMMA Concat ==
  ASSUME NEW C, NEW s \in Seq(C), NEW t \in Seq(C)
  PROVE  /\ Len(s \o t) = Len(s) + Len(t) /\ Len(s) \in Nat /\ Len(t) \in Nat
         /\ \A i \in 1..Len(s) : (s \o t)[i] = s[i]
         /\ \A i \in 1..Len(t) : (s \o t)[Len(s) + i] = t[i]
  OBVIOUS

(* A part of a list. *)
LEMMA Part ==
  ASSUME NEW C, NEW s \in Seq(C), Len(s) >= 2, NEW k \in (Len(s) - 1)..Len(s)
  PROVE  /\ SubSeq(s, 2, k) \in Seq(C) /\ Len(SubSeq(s, 2, k)) = k - 1
         /\ \A i \in 1..(k - 1) : SubSeq(s, 2, k)[i] = s[i + 1]
  OBVIOUS

Ints == Organised.intermediates
Tas == Organised.anchors

(* The chain as it goes to the validator: without its last certificate if  *)
(* discovery ended at a root or an anchor, else as a whole below the       *)
(* supplied anchors.                                                       *)
LEMMA OrganisedFacts ==
  ASSUME Inv, JudgeInv, chain # <<>>
  PROVE  /\ Len(chain) \in Nat /\ Len(chain) >= 2 /\ chain[2] = issuer /\ chain \in Seq(Certs)
         /\ anchors \in Seq(Certs)
         /\ Ints \in Seq(Certs) /\ Tas \in Seq(Certs) /\ Len(Ints) \in Nat
         /\ \A i \in 1..Len(Ints) : Ints[i] = chain[i + 1]
         /\ \/ Len(Ints) = Len(chain) - 2 /\ Tas = <<chain[Len(chain)]>> /\ ended \in {"root", "anchor"}
            \/ Len(Ints) = Len(chain) - 1 /\ Tas = anchors /\ ended \notin {"root", "anchor"}
         /\ Len(Path) = Len(Ints) + 1 /\ Path[1] = chain[1]
         /\ \A i \in 1..(Len(Ints) + 1) : Path[i] = chain[i]
         /\ \A i \in 2..(Len(Ints) + 1) : Path[i] = Ints[i - 1]
<1> DEFINE ints == Ints
           tas == Tas
           n == Len(chain)
           m == Len(ints)
<1>1. n \in Nat /\ n >= 2 /\ chain[2] = issuer /\ chain \in Seq(Certs) /\ anchors \in Seq(Certs)
  <2>1. anchors \in Seq(Certs)
    BY DEF JudgeInv, Certs
  <2> QED BY <2>1 DEF Inv, SearchInv, JudgeInv
<1>2. /\ ints \in Seq(Certs) /\ tas \in Seq(Certs) /\ m \in Nat
      /\ \A i \in 1..m : ints[i] = chain[i + 1]
      /\ \/ m = n - 2 /\ tas = <<chain[n]>> /\ ended \in {"root", "anchor"}
         \/ m = n - 1 /\ tas = anchors /\ ended \notin {"root", "anchor"}
  <2>1. CASE ended \in {"root", "anchor"}
    <3>1. ints = SubSeq(chain, 2, n - 1) /\ tas = <<chain[n]>>
      BY <2>1 DEF Organised, Current, Ints, Tas
    <3>2. chain[n] \in Certs /\ n - 1 \in (n - 1)..n
      BY <1>1
    <3>3. ints \in Seq(Certs) /\ m = (n - 1) - 1 /\ \A i \in 1..((n - 1) - 1) : ints[i] = chain[i + 1]
      BY <1>1, <3>1, <3>2, Part
    <3>4. tas \in Seq(Certs)
      BY <3>1, <3>2
    <3>5. m \in Nat /\ m = n - 2 /\ (n - 1) - 1 = m
      BY <1>1, <3>3
    <3> QED BY <2>1, <3>1, <3>3, <3>4, <3>5
  <2>2. CASE ended \notin {"root", "anchor"}
    <3>1. ints = SubSeq(chain, 2, n) /\ tas = anchors
      BY <2>2 DEF Organised, Ints, Tas
    <3>2. n \in (n - 1)..n
      BY <1>1
    <3>3. ints \in Seq(Certs) /\ m = n - 1 /\ \A i \in 1..(n - 1) : ints[i] = chain[i + 1]
      BY <1>1, <3>1, <3>2, Part
    <3>4. m \in Nat
      BY <1>1, <3>3
    <3> QED BY <1>1, <2>2, <3>1, <3>3, <3>4
  <2> QED BY <2>1, <2>2
<1>3. /\ Len(Path) = m + 1 /\ Path[1] = chain[1]
      /\ \A i \in 1..(m + 1) : Path[i] = chain[i]
      /\ \A i \in 2..(m + 1) : Path[i] = ints[i - 1]
  <2>1. Path = <<chain[1]>> \o ints
    BY DEF Path, Ints
  <2>2. Len(Path) = m + 1 /\ Path[1] = chain[1] /\ \A i \in 2..(m + 1) : Path[i] = ints[i - 1]
    BY <1>2, <2>1
  <2>3. ASSUME NEW i \in 2..(m + 1) PROVE ints[i - 1] = chain[i]
    BY <1>2
  <2> QED BY <1>2, <2>2, <2>3
<1> QED BY <1>1, <1>2, <1>3

(* A chain that the validator accepts is an RFC 5280 path. *)
LEMMA AcceptedIsPath ==
  ASSUME Inv, JudgeInv, chain # <<>>,
         ValidateChain(chain[1], Organised.intermediates, Organised.anchors),
         chain[1].issuer = issuer.subject, ~Looped
  PROVE  \E a \in TrustAnchors : RfcPath(Path, a)
<1> DEFINE ints == Ints
           tas == Tas
           n == Len(chain)
           m == Len(ints)
           all == ints \o tas
<1>1. n \in Nat /\ n >= 2 /\ chain[2] = issuer /\ chain \in Seq(Certs) /\ anchors \in Seq(Certs)
  BY OrganisedFacts
<1>2. /\ ints \in Seq(Certs) /\ tas \in Seq(Certs) /\ m \in Nat
      /\ \A i \in 1..m : ints[i] = chain[i + 1]
      /\ \/ m = n - 2 /\ tas = <<chain[n]>> /\ ended \in {"root", "anchor"}
         \/ m = n - 1 /\ tas = anchors
  BY OrganisedFacts
<1>3. /\ Len(Path) = m + 1 /\ Path[1] = chain[1]
      /\ \A i \in 1..(m + 1) : Path[i] = chain[i]
      /\ \A i \in 2..(m + 1) : Path[i] = ints[i - 1]
  BY OrganisedFacts
<1>4. \A i \in 1..(n - 1) : chain[i].issuer = chain[i + 1].subject
  <2>1. ASSUME NEW i \in 2..(n - 1) PROVE chain[i + 1].subject = chain[(i + 1) - 1].issuer
    BY <1>1 DEF Inv, ChainLinked
  <2>2. ASSUME NEW i \in 2..(n - 1) PROVE chain[i].issuer = chain[i + 1].subject
    BY <1>1, <2>1
  <2> QED BY <1>1, <2>2
<1>5. \A i \in 2..(m + 1) : \A j \in 2..i : Path[i].issuer # Path[j].subject
  BY <1>3 DEF Looped
<1>6. \A i \in 1..(m + 1) : SignatureFound(Path[i], ints, tas)
  <2>1. SignatureFound(chain[1], ints, tas) /\ \A i \in 1..m : SignatureFound(ints[i], ints, tas)
    BY DEF ValidateChain, VerifySignatures, Ints, Tas
  <2>2. ASSUME NEW i \in 2..(m + 1) PROVE SignatureFound(Path[i], ints, tas)
    <3>1. i - 1 \in 1..m
      BY <1>2
    <3> QED BY <1>3, <2>1, <3>1
  <2> QED BY <1>2, <1>3, <2>1, <2>2
<1>7. /\ Len(all) = m + Len(tas) /\ Len(tas) \in Nat
      /\ \A i \in 1..m : all[i] = ints[i]
      /\ \A i \in 1..Len(tas) : all[m + i] = tas[i]
  <2>1. ints \in Seq(Certs) /\ tas \in Seq(Certs)
    BY <1>2
  <2> HIDE DEF ints, tas
  <2> QED BY <2>1, Concat
<1> HIDE DEF n, m, ints, tas, all
(* Below the certificate at place i of the path, no CA has the name of its *)
(* issuer.                                                                 *)
<1>8. ASSUME NEW i \in 1..(m + 1), NEW j \in 1..(i - 1) PROVE all[j].subject # Path[i].issuer
  <2>1. i \in 2..(m + 1) /\ j + 1 \in 2..i /\ j \in 1..m /\ j + 1 \in 2..(m + 1)
    BY <1>2
  <2>2. all[j] = ints[j] /\ Path[j + 1] = ints[(j + 1) - 1] /\ (j + 1) - 1 = j
    BY <1>3, <1>7, <2>1
  <2>3. Path[i].issuer # Path[j + 1].subject
    BY <1>5, <2>1
  <2> QED BY <2>2, <2>3
<1>9. ASSUME NEW i \in 1..m PROVE Verified(Path[i], Path[i + 1]) /\ Path[i].issuer = Path[i + 1].subject
  <2>1. i \in 1..(m + 1) /\ i + 1 \in 2..(m + 1) /\ i + 1 \in 1..(m + 1) /\ i \in 1..(n - 1)
        /\ i \in 1..Len(all) /\ (i + 1) - 1 = i
    BY <1>1, <1>2, <1>7
  <2>2. all[i] = Path[i + 1]
    BY <1>3, <1>7, <2>1
  <2>3. Path[i].issuer = Path[i + 1].subject
    BY <1>3, <1>4, <2>1
  <2>4. SignatureFound(Path[i], ints, tas)
    BY <1>6, <2>1
  <2>5. \A j \in 1..(i - 1) : all[j].subject # Path[i].issuer
    BY <1>8, <2>1
  <2>6. Verified(Path[i], all[i])
    BY <1>2, <2>1, <2>2, <2>3, <2>4, <2>5, FoundIsNext DEF all
  <2> QED BY <2>2, <2>3, <2>6
(* The certificate found for the last of the path is a trust anchor. *)
<1>10. \E a \in TrustAnchors : Verified(Path[m + 1], a) /\ Path[m + 1].issuer = a.subject
  <2> DEFINE top == Path[m + 1]
  <2>1. PICK c \in FindIssuer(top, ints, tas) : Verified(top, c)
    <3>1. m + 1 \in 1..(m + 1)
      BY <1>2
    <3>2. SignatureFound(top, ints, tas)
      BY <1>6, <3>1
    <3> QED BY <3>2 DEF SignatureFound
  <2>2. PICK k \in 1..Len(all) : c = all[k] /\ all[k].subject = top.issuer
    BY <2>1 DEF FindIssuer, all
  <2>3. ~(k \in 1..m)
    <3> SUFFICES ASSUME k \in 1..m PROVE FALSE
      OBVIOUS
    <3>1. m + 1 \in 1..(m + 1) /\ k \in 1..((m + 1) - 1)
      BY <1>2
    <3> QED BY <1>8, <2>2, <3>1
  <2>4. PICK q \in 1..Len(tas) : c = tas[q]
    <3>1. k - m \in 1..Len(tas) /\ m + (k - m) = k
      BY <1>2, <1>7, <2>2, <2>3
    <3> QED BY <1>7, <2>2, <3>1
  <2>5. c \in TrustAnchors
    <3>1. CASE tas = anchors
      BY <2>4, <3>1 DEF TrustAnchors
    <3>2. CASE tas = <<chain[n]>> /\ ended \in {"root", "anchor"}
      <4>1. c = chain[n] /\ n \in 2..n
        BY <1>1, <2>4, <3>2
      <4>2. AtAnchor \/ AtRoot
        BY <3>2 DEF JudgeInv
      <4>3. chain[n].subject = chain[n].issuer
            \/ \E j \in 1..Len(anchors) : Key(anchors[j]) = Key(chain[n])
        BY <4>2 DEF AtAnchor, AtRoot, Current, n
      <4> QED BY <4>1, <4>3 DEF TrustAnchors, n
    <3> QED BY <1>2, <3>1, <3>2
  <2> QED BY <2>1, <2>2, <2>5
<1>11. PICK a \in TrustAnchors : Verified(Path[m + 1], a) /\ Path[m + 1].issuer = a.subject
  BY <1>10
<1>12. RfcLinked(Path, a)
  <2> SUFFICES ASSUME NEW i \in 1..(m + 1)
               PROVE  LET parent == IF i < m + 1 THEN Path[i + 1] ELSE a IN
                        Path[i].issuer = parent.subject /\ Path[i].signedBy = parent.key
    BY <1>3 DEF RfcLinked
  <2>1. CASE i < m + 1
    <3>1. i \in 1..m
      BY <1>2, <2>1
    <3> QED BY <1>9, <2>1, <3>1 DEF Verified
  <2>2. CASE ~(i < m + 1)
    <3>1. i = m + 1
      BY <1>2, <2>2
    <3> QED BY <1>11, <2>2, <3>1 DEF Verified
  <2> QED BY <2>1, <2>2
<1>13. \A i \in 1..(m + 1) : Path[i].time = "now" /\ Path[i].exts = "ok"
  <2>1. /\ chain[1].time = "now" /\ chain[1].exts = "ok"
        /\ \A i \in 1..m : ints[i].time = "now" /\ ints[i].exts = "ok"
    BY DEF ValidateChain, CheckValidityPeriods, ints, m, Ints
  <2>2. ASSUME NEW i \in 2..(m + 1) PROVE i - 1 \in 1..m
    BY <1>2
  <2>3. ASSUME NEW i \in 2..(m + 1) PROVE Path[i].time = "now" /\ Path[i].exts = "ok"
    BY <1>3, <2>1, <2>2
  <2> QED BY <1>2, <1>3, <2>1, <2>3
<1>14. \A i \in 2..(m + 1) : Path[i].ca = "yes" /\ Path[i].keyUsage # "other"
  <2>1. \A i \in 1..m : ints[i].ca = "yes" /\ ints[i].keyUsage # "other"
    BY DEF ValidateChain, CheckBasicConstraints, CheckKeyUsage, ints, m, Ints
  <2>2. ASSUME NEW i \in 2..(m + 1) PROVE i - 1 \in 1..m
    BY <1>2
  <2> QED BY <1>3, <2>1, <2>2
<1> QED BY <1>3, <1>11, <1>12, <1>13, <1>14 DEF RfcPath

(* Nothing but the chain, the supplied anchors and the ending decides what *)
(* JudgeInv says of a chain that stays as it is.                           *)
LEMMA JudgedStays ==
  ASSUME JudgeInv, UNCHANGED <<good, issuer, anchors, chain, ended>>, turn' \in Nat \ {0},
         results' \in Seq([test : Tests, status : Statuses]),
         pc' = "suite", turn' # 1,
         Passed("1.01")' =>
           \/ Passed("1.01")
           \/ chain # <<>> /\ ValidateChain(chain[1], Organised.intermediates, Organised.anchors)
  PROVE  JudgeInv'
<1>1. Organised' = Organised
  BY DEF Organised, Current
<1>2. AtAnchor' = AtAnchor /\ AtRoot' = AtRoot
  BY DEF AtAnchor, AtRoot, Current, Key
<1>3. (Passed("1.01") => chain # <<>> /\ ValidateChain(chain[1], Organised.intermediates, Organised.anchors))
  BY DEF JudgeInv
<1>4. ValidateChain(chain[1], Organised.intermediates, Organised.anchors) =>
      ValidateChain(chain[1], Organised.intermediates, Organised.anchors)'
  BY <1>1
<1>5. Passed("1.01")' =>
        chain' # <<>> /\ ValidateChain(chain[1], Organised.intermediates, Organised.anchors)'
  BY <1>3, <1>4
<1> QED BY <1>2, <1>5 DEF JudgeInv

(* The test whose turn it is; 1.01 comes first.                             *)
LEMMA TestTypes ==
  ASSUME turn \in Nat \ {0}, Running
  PROVE  Test \in Tests /\ (Test = "1.01" => turn = 1)
<1>1. turn \in 1..12
  BY DEF Running, TestOrder
<1> QED BY <1>1 DEF Test, TestOrder, Tests

(* Every test gives a status.                                              *)
LEMMA VerdictTypes ==
  ASSUME NEW t \in Tests, t # "1.01" PROVE Verdicts(t) \subseteq Statuses
<1>1. \A b : PassIf(b) \in Statuses
  BY DEF PassIf, Statuses
<1>2. CASE t \in {"1.02", "1.03"}
  BY <1>1, <1>2 DEF Verdicts, SignatureTest
<1>3. CASE t = "1.04"
  <2>1. NameChaining \in Statuses
    BY <1>1 DEF NameChaining, Statuses
  <2> QED BY <1>3, <2>1 DEF Verdicts
<1>4. CASE t = "2.01"
  BY <1>1, <1>4 DEF Verdicts, Expiry
<1>5. CASE t = "4.01"
  BY <1>1, <1>5 DEF Verdicts, BasicConstraints
<1>6. CASE t = "5.01"
  BY <1>6 DEF Verdicts, PolicyMapping, Statuses
<1>7. CASE t \in {"2.04", "3.01", "3.03", "4.02", "5.02"}
  BY <1>7 DEF Verdicts, Statuses
<1> QED BY <1>2, <1>3, <1>4, <1>5, <1>6, <1>7 DEF Tests

(* A report that is not a PASS of 1.01 adds none. *)
LEMMA ReportTypes ==
  ASSUME NEW T, NEW rs \in Seq(T), NEW r \in T
  PROVE  /\ Append(rs, r) \in Seq(T)
         /\ \A x : (x # r /\ \E i \in 1..Len(Append(rs, r)) : Append(rs, r)[i] = x)
              => \E i \in 1..Len(rs) : rs[i] = x
  OBVIOUS

(* A verdict once reported of 1.01 stays that of the chain.                *)
LEMMA StepJudge == ASSUME PathAssumption, Inv, JudgeInv, [Next]_vars PROVE JudgeInv'
<1> DEFINE R == [test : Tests, status : Statuses]
           Accepts == ValidateChain(chain[1], Organised.intermediates, Organised.anchors)
<1>1. ASSUME NEW status \in Statuses, Report(status), Test \in Tests,
             (Test = "1.01" /\ status = "PASS") => chain # <<>> /\ Accepts
      PROVE  JudgeInv'
  <2> DEFINE r == [test |-> Test, status |-> status]
             x == [test |-> "1.01", status |-> "PASS"]
  <2>1. r \in R /\ results \in Seq(R) /\ results' = Append(results, r)
    BY <1>1 DEF Report, JudgeInv
  <2>2. /\ results' \in Seq(R)
        /\ (x # r /\ \E i \in 1..Len(results') : results'[i] = x)
              => \E i \in 1..Len(results) : results[i] = x
    <3> HIDE DEF R, r, x
    <3> QED BY <2>1, ReportTypes
  <2>3. x = r => chain # <<>> /\ Accepts
    BY <1>1
  <2>4. Passed("1.01")' => Passed("1.01") \/ (chain # <<>> /\ Accepts)
    BY <2>2, <2>3 DEF Passed
  <2>5. UNCHANGED <<good, issuer, anchors, chain, ended>> /\ pc' = "suite" /\ turn' = turn + 1
    BY <1>1 DEF Report, inputs, search
  <2>6. turn' \in Nat \ {0} /\ turn' # 1
    BY <2>5 DEF JudgeInv
  <2> QED BY <2>2, <2>4, <2>5, <2>6, JudgedStays
(* As long as the search goes on there are no results. *)
<1>2. ASSUME pc # "suite", UNCHANGED <<inputs, turn, results>>, pc' # "suite",
             chain' # <<>>, Len(chain') >= 2, chain'[2] = chain[2],
             pc' \in {"look", "fetch"} => ended' = "none",
             ended' = "anchor" => AtAnchor', ended' = "root" => AtRoot'
      PROVE  JudgeInv'
  <2>1. results = <<>> /\ turn = 1 /\ chain[2] = issuer
    BY <1>2 DEF JudgeInv
  <2>2. results' = <<>> /\ turn' = 1 /\ chain'[2] = issuer' /\ anchors' \in Seq(Anchors)
        /\ results' \in Seq(R)
    BY <1>2, <2>1 DEF JudgeInv, inputs
  <2>3. ~Passed("1.01")'
    BY <2>2 DEF Passed
  <2> QED BY <1>2, <2>2, <2>3 DEF JudgeInv
<1>3. ASSUME NEW reason, pc = "look", StopHere(reason),
             reason = "anchor" => AtAnchor, reason = "root" => AtRoot
      PROVE  JudgeInv'
  <2>1. pc' = "judge" /\ ended' = reason /\ UNCHANGED <<inputs, turn, chain, results>>
    BY <1>3 DEF StopHere, Stop
  <2>2. AtAnchor' = AtAnchor /\ AtRoot' = AtRoot
    BY <2>1 DEF AtAnchor, AtRoot, Current, Key, inputs
  <2>3. chain # <<>> /\ Len(chain) >= 2
    BY <1>3 DEF JudgeInv
  <2> QED BY <1>2, <1>3, <2>1, <2>2, <2>3
<1>4. ASSUME NEW answer \in Option(Served), pc = "fetch", Answered(answer) PROVE JudgeInv'
  <2>1. chain # <<>> /\ Len(chain) >= 2 /\ ended = "none" /\ chain \in Seq(Certs)
    BY <1>4 DEF JudgeInv, Inv, SearchInv
  <2>2. ASSUME NEW reason \in {"mismatch", "cycle", "download-failed"}, Stop(reason) PROVE JudgeInv'
    BY <1>2, <1>4, <2>1, <2>2 DEF Stop
  <2>3. ASSUME NEW parent \in answer, chain' = Append(chain, parent), pc' = "look",
               UNCHANGED <<inputs, turn, ended, results>>
        PROVE  JudgeInv'
    <3>1. parent \in Certs
      BY <2>3 DEF Option, None, Some, Certs
    <3>2. chain' # <<>> /\ Len(chain') >= 2 /\ chain'[2] = chain[2]
      BY <2>1, <2>3, <3>1
    <3> QED BY <1>2, <1>4, <2>1, <2>3, <3>2
  <2>4. CASE \E parent \in answer : TakeParent(parent)
    BY <2>2, <2>3, <2>4 DEF TakeParent
  <2>5. CASE answer = None /\ Tail(untried) = <<>> /\ Stop("download-failed")
    BY <2>2, <2>5
  <2>6. CASE /\ answer = None /\ Tail(untried) # <<>>
             /\ UNCHANGED <<inputs, turn, pc, chain, depth, ended, results>>
    BY <1>2, <1>4, <2>1, <2>6
  <2> QED BY <1>4, <2>4, <2>5, <2>6 DEF Answered
<1>5. CASE SkipTest
  <2>1. /\ UNCHANGED <<good, issuer, anchors, chain, ended, results>> /\ pc' = "suite"
        /\ turn' = turn + 1
    BY <1>5 DEF SkipTest, Running, inputs, search
  <2>2. turn' \in Nat \ {0} /\ turn' # 1 /\ results' \in Seq(R)
    BY <2>1 DEF JudgeInv
  <2>3. Passed("1.01")' => Passed("1.01")
    BY <2>1 DEF Passed
  <2> QED BY <2>1, <2>2, <2>3, JudgedStays
<1>6. CASE RunTest
  <2>1. Test \in Tests
    BY <1>6, TestTypes DEF RunTest, JudgeInv
  <2>2. PICK status \in Verdicts(Test) : Report(status)
    BY <1>6 DEF RunTest
  <2>3. status \in Statuses /\ Test # "1.01"
    BY <1>6, <2>1, VerdictTypes DEF RunTest
  <2> QED BY <1>1, <2>1, <2>2, <2>3
<1>7. CASE StartChain
  <2>1. Test \in Tests /\ turn = 1 /\ pc = "suite"
    BY <1>7, TestTypes DEF StartChain, JudgeInv, Running
  <2>2. CASE good = None /\ Report("FAIL")
    BY <1>1, <2>1, <2>2 DEF Statuses
  <2>3. ASSUME NEW g \in good, chain' = <<g, issuer>>, depth' = 0, pc' = "look",
               UNCHANGED <<inputs, turn, untried, cache, asked, ended, results>>
        PROVE  JudgeInv'
    <3>1. results = <<>> /\ ended = "none"
      BY <2>1 DEF JudgeInv
    <3>2. results' = <<>> /\ turn' = 1 /\ ended' = "none" /\ anchors' \in Seq(Anchors)
          /\ results' \in Seq(R) /\ issuer' = issuer
      BY <2>1, <2>3, <3>1 DEF JudgeInv, inputs
    <3>3. ~Passed("1.01")'
      BY <3>2 DEF Passed
    <3>4. chain' # <<>> /\ Len(chain') >= 2 /\ chain'[2] = issuer
      BY <2>3
    <3> QED BY <2>3, <3>2, <3>3, <3>4 DEF JudgeInv
  <2> QED BY <1>7, <2>2, <2>3 DEF StartChain
<1>8. CASE ReachAnchor
  BY <1>3, <1>8 DEF ReachAnchor
<1>9. CASE ReachRoot
  BY <1>3, <1>9 DEF ReachRoot
<1>10. CASE ReachLimit
  BY <1>3, <1>10 DEF ReachLimit
<1>11. CASE ReadAia
  <2>1. CASE Current.exts = "malformed" /\ StopHere("raised")
    BY <1>3, <1>11, <2>1 DEF ReadAia
  <2>2. CASE Current.exts = "ok" /\ Current.aia = <<>> /\ StopHere("no-aia")
    BY <1>3, <1>11, <2>2 DEF ReadAia
  <2>3. CASE pc' = "fetch" /\ UNCHANGED <<inputs, turn, chain, depth, cache, asked, ended, results>>
    <3>1. pc = "look" /\ chain # <<>> /\ Len(chain) >= 2 /\ ended = "none"
      BY <1>11 DEF ReadAia, JudgeInv
    <3> QED BY <1>2, <2>3, <3>1
  <2> QED BY <1>11, <2>1, <2>2, <2>3 DEF ReadAia
<1>12. CASE Download
  BY <1>4, <1>12 DEF Download
<1>13. CASE UseCache
  <2>1. pc = "fetch" /\ cache[Head(untried)] \in Option(Served) /\ Answered(cache[Head(untried)])
    BY <1>13 DEF UseCache, Inv, SearchInv
  <2> QED BY <1>4, <2>1
<1>14. CASE JudgeChain
  <2> DEFINE ok == ended # "raised" /\ Accepts
  <2>1. pc = "judge" /\ Report(PassIf(ok))
    BY <1>14 DEF JudgeChain
  <2>2. turn = 1 /\ chain # <<>>
    BY <2>1 DEF JudgeInv
  <2>3. Test \in Tests
    BY <2>2 DEF Test, TestOrder, Tests
  <2>4. PassIf(ok) \in Statuses /\ (PassIf(ok) = "PASS" => Accepts)
    BY DEF PassIf, Statuses
  <2> QED BY <1>1, <2>1, <2>2, <2>3, <2>4
<1>15. CASE UNCHANGED vars
  <2>1. UNCHANGED <<good, issuer, anchors, turn, pc, chain, ended, results>>
    BY <1>15 DEF vars, inputs, search
  <2>2. Organised' = Organised /\ AtAnchor' = AtAnchor /\ AtRoot' = AtRoot
    BY <2>1 DEF Organised, Current, AtAnchor, AtRoot, Key
  <2>3. Passed("1.01")' = Passed("1.01") /\ Accepts' = Accepts
    BY <2>1, <2>2 DEF Passed
  <2> QED BY <2>1, <2>2, <2>3 DEF JudgeInv
<1> QED BY <1>5, <1>6, <1>7, <1>8, <1>9, <1>10, <1>11, <1>12, <1>13, <1>14, <1>15
        DEF Next, Discover

(* Nothing has been reported at the start.                                 *)
LEMMA InitJudge == Init => JudgeInv
<1> SUFFICES ASSUME Init PROVE JudgeInv
  OBVIOUS
<1>1. /\ anchors \in Seq(Anchors) /\ turn = 1 /\ pc = "suite" /\ chain = <<>> /\ ended = "none"
      /\ results = <<>>
  <2>1. <<>> \in Seq(Anchors)
    OBVIOUS
  <2>2. anchors \in AnchorFiles \cup {<<>>}
    BY DEF Init
  <2>3. anchors \in Seq(Anchors)
    BY <2>1, <2>2, PathAssumption DEF PathAssumption
  <2> QED BY <2>3 DEF Init
<1>2. ~Passed("1.01")
  BY <1>1 DEF Passed
<1> QED BY <1>1, <1>2 DEF JudgeInv

(* 1.01 (tests_path_validation.py, run_foundational_tests; validator       *)
(* path_validator.py, validate_certificate_chain) is sound: a chain that   *)
(* passes is an RFC 5280 path to a trust anchor, path lengths aside, if no *)
(* CA of it is its own ancestor.                                           *)
THEOREM SpecPassIsTrusted == Spec => []PassIsTrusted
<1>1. Inv /\ JudgeInv => PassIsTrusted
  BY AcceptedIsPath DEF PassIsTrusted, JudgeInv
<1>2. Init => JudgeInv
  BY InitJudge
<1>3. Inv /\ JudgeInv /\ [Next]_vars => JudgeInv'
  BY StepJudge, PathAssumption
<1> QED BY <1>1, <1>2, <1>3, Inductive, PTL DEF Spec
-----------------------------------------------------------------------------
(* The other direction, and the agreement of the verdicts. *)

Accepted == ValidateChain(chain[1], Organised.intermediates, Organised.anchors)

(* What the reports say of the inputs: an accepted chain has passed, and a *)
(* test of one part fails only on what it reads of the inputs.             *)
VerdictInv ==
  /\ chain # <<>> => good = Some(chain[1])
  /\ (pc = "suite" /\ ended \in {"root", "anchor"} /\ Accepted) => Passed("1.01")
  /\ (Failed("1.02") \/ Failed("1.03")) => SignatureTest = "FAIL"
  /\ Failed("1.04") => NameChaining = "FAIL"
  /\ Failed("2.01") => Expiry = "FAIL"
  /\ Failed("4.01") => BasicConstraints = "FAIL"

(* If the only certificate of the lists with the issuer's name is the k-th *)
(* and its key verifies the signature, the signature is found.             *)
LEMMA OnlyIssuerIsFound ==
  ASSUME NEW ints, NEW tas, NEW C, ints \in Seq(C), tas \in Seq(C), NEW cert,
         NEW k \in 1..Len(ints \o tas),
         (ints \o tas)[k].subject = cert.issuer,
         \A j \in 1..Len(ints \o tas) : (ints \o tas)[j].subject = cert.issuer => j = k,
         Verified(cert, (ints \o tas)[k])
  PROVE  SignatureFound(cert, ints, tas)
<1> DEFINE all == ints \o tas
           named == {i \in 1..Len(all) : all[i].subject = cert.issuer}
<1>1. Len(all) \in Nat
  OBVIOUS
<1>2. named = {k}
  OBVIOUS
<1>3. k \in {i \in named : \A j \in named : i <= j}
  BY <1>1, <1>2
<1>4. all[k] \in FindIssuer(cert, ints, tas)
  BY <1>3 DEF FindIssuer
<1> QED BY <1>4 DEF SignatureFound

(* The validator accepts a chain up to a root or an anchor that RFC 5280   *)
(* accepts, when no name occurs twice.                                     *)
LEMMA PathIsAccepted ==
  ASSUME PathAssumption, Inv, JudgeInv, chain # <<>>, ended \in {"root", "anchor"},
         RfcPath(Path, Current),
         \A i \in 1..Len(Path) : Path[i].pkcs1 /\ Path[i].pathLen < 0,
         \A i, j \in 2..Len(chain) : chain[i].subject = chain[j].subject => i = j
  PROVE  Accepted
<1> DEFINE ints == Ints
           tas == Tas
           n == Len(chain)
           m == Len(ints)
           all == ints \o tas
<1>1. /\ n \in Nat /\ n >= 2 /\ chain \in Seq(Certs)
      /\ ints \in Seq(Certs) /\ tas \in Seq(Certs) /\ m \in Nat
      /\ \A i \in 1..m : ints[i] = chain[i + 1]
      /\ Len(Path) = m + 1 /\ Path[1] = chain[1]
      /\ \A i \in 1..(m + 1) : Path[i] = chain[i]
  BY OrganisedFacts
<1>2. m = n - 2 /\ tas = <<chain[n]>>
  BY OrganisedFacts
<1> HIDE DEF ints, tas, n, m
<1>3. Len(tas) = 1 /\ tas[1] = chain[n] /\ Len(all) = m + 1
  BY <1>1, <1>2, Concat DEF m
<1>4. \A i \in 1..(m + 1) : all[i] = chain[i + 1]
  <2> TAKE i \in 1..(m + 1)
  <2>1. CASE i \in 1..m
    BY <2>1, <1>1, Concat DEF m
  <2>2. CASE i = m + 1
    <3>1. all[m + 1] = tas[1]
      BY <1>1, <1>3, Concat DEF m
    <3> QED BY <2>2, <3>1, <1>1, <1>2, <1>3
  <2>3. i \in 1..m \/ i = m + 1
    BY <1>1
  <2> HIDE DEF all
  <2> QED BY <2>1, <2>2, <2>3
<1>5. \A i \in 1..(m + 1) : chain[i].issuer = chain[i + 1].subject /\ chain[i].signedBy = chain[i + 1].key
  <2> TAKE i \in 1..(m + 1)
  <2>1. LET parent == IF i < m + 1 THEN Path[i + 1] ELSE Current IN
          Path[i].issuer = parent.subject /\ Path[i].signedBy = parent.key
    BY <1>1 DEF RfcPath, RfcLinked
  <2>2. (IF i < m + 1 THEN Path[i + 1] ELSE Current) = chain[i + 1]
    <3>1. CASE i < m + 1
      <4>1. i + 1 \in 1..(m + 1)
        BY <3>1, <1>1
      <4> QED BY <3>1, <4>1, <1>1
    <3>2. CASE ~(i < m + 1)
      <4>1. i + 1 = n
        BY <3>2, <1>1, <1>2
      <4> QED BY <3>2, <4>1 DEF Current, n
    <3> QED BY <3>1, <3>2
  <2>3. Path[i] = chain[i]
    BY <1>1
  <2> QED BY <2>1, <2>2, <2>3
<1>6. \A i \in 1..(m + 1) : SignatureFound(chain[i], ints, tas)
  <2> TAKE i \in 1..(m + 1)
  <2>1. i \in 1..Len(all) /\ all[i] = chain[i + 1] /\ all[i].subject = chain[i].issuer
    BY <1>3, <1>4, <1>5
  <2>2. ASSUME NEW j \in 1..Len(all), all[j].subject = chain[i].issuer
        PROVE  j = i
    <3>1. j \in 1..(m + 1) /\ all[j] = chain[j + 1]
      BY <1>3, <1>4
    <3>2. chain[j + 1].subject = chain[i + 1].subject
      BY <2>1, <2>2, <3>1
    <3>3. j + 1 \in 2..n /\ i + 1 \in 2..n
      BY <3>1, <1>1, <1>2
    <3>4. j + 1 = i + 1
      BY <3>2, <3>3 DEF n
    <3> QED BY <3>1, <3>4, <1>1
  <2>3. Verified(chain[i], all[i])
    <3>1. chain[i].pkcs1
      BY <1>1
    <3>2. chain[i].signedBy = all[i].key
      BY <2>1, <1>5
    <3> QED BY <3>1, <3>2 DEF Verified
  <2> HIDE DEF all
  <2>4. \A j \in 1..Len(all) : all[j].subject = chain[i].issuer => j = i
    BY <2>2
  <2> QED BY <2>1, <2>3, <2>4, <1>1, OnlyIssuerIsFound DEF all
<1>7. 1 \in 1..(m + 1) /\ \A i \in 1..m : i + 1 \in 1..(m + 1) /\ i + 1 \in 2..(m + 1)
  BY <1>1
<1>8. VerifySignatures(chain[1], ints, tas)
  BY <1>1, <1>6, <1>7 DEF VerifySignatures, m
<1>9. \A i \in 1..(m + 1) : chain[i].time = "now" /\ chain[i].exts = "ok"
  BY <1>1 DEF RfcPath
<1>10. \A i \in 2..(m + 1) : chain[i].ca = "yes" /\ chain[i].keyUsage # "other"
  <2> TAKE i \in 2..(m + 1)
  <2>1. i \in 1..(m + 1)
    BY <1>1
  <2> QED BY <1>1, <2>1 DEF RfcPath
<1>11. \A i \in 1..m : ~(ints[i].pathLen >= 0)
  <2> TAKE i \in 1..m
  <2>0. ints[i] \in Certs
    BY <1>1 DEF m
  <2>1. ints[i] = Path[i + 1] /\ ints[i] \in Certs /\ i + 1 \in 1..Len(Path)
    BY <2>0, <1>1, <1>7
  <2>2. ints[i].pathLen < 0 /\ ints[i].pathLen \in Int
    BY <2>1 DEF PathAssumption
  <2> QED BY <2>2
<1>12. \A i \in 1..m : /\ ints[i].exts = "ok" /\ ints[i].time = "now"
                       /\ ints[i].ca = "yes" /\ ints[i].keyUsage # "other"
  BY <1>1, <1>7, <1>9, <1>10
<1>13. chain[1].exts = "ok" /\ chain[1].time = "now"
  BY <1>7, <1>9
<1>14. ValidateChain(chain[1], ints, tas)
  BY <1>8, <1>11, <1>12, <1>13
     DEF ValidateChain, CheckValidityPeriods, CheckBasicConstraints, CheckKeyUsage, CheckPathLength, m
<1> QED BY <1>14 DEF Accepted, ints, tas, Ints, Tas

(* What the other tests say of an accepted chain through the issuer. *)
LEMMA PartsPass ==
  ASSUME Inv, JudgeInv, VerdictInv, chain # <<>>, Accepted, chain[1].issuer = issuer.subject
  PROVE  /\ SignatureTest = "PASS" /\ NameChaining = "PASS" /\ Expiry = "PASS"
         /\ Len(Path) > 1 => BasicConstraints = "PASS"
<1> DEFINE all == Ints \o Tas
<1>1. /\ Len(chain) \in Nat /\ Len(chain) >= 2 /\ chain[2] = issuer
      /\ Ints \in Seq(Certs) /\ Tas \in Seq(Certs) /\ Len(Ints) \in Nat
      /\ \A i \in 1..Len(Ints) : Ints[i] = chain[i + 1]
      /\ \/ Len(Ints) = Len(chain) - 2 /\ Tas = <<chain[Len(chain)]>>
         \/ Len(Ints) = Len(chain) - 1
      /\ Len(Path) = Len(Ints) + 1
  BY OrganisedFacts
<1>2. good = {chain[1]}
  BY DEF VerdictInv, Some
<1>3. 1 \in 1..Len(all) /\ all[1] = issuer
  <2>1. CASE Len(Ints) >= 1
    <3>1. 1 \in 1..Len(Ints) /\ Ints[1] = issuer
      BY <1>1, <2>1
    <3>2. all[1] = Ints[1] /\ Len(all) >= 1 /\ Len(all) \in Nat
      BY <1>1, <3>1, <2>1, Concat
    <3> QED BY <3>1, <3>2
  <2>2. CASE Len(Ints) = 0
    <3>1. Len(chain) = 2 /\ Tas = <<issuer>>
      BY <1>1, <2>2
    <3>2. Len(Tas) = 1 /\ Tas[1] = issuer
      BY <3>1
    <3>3. all[0 + 1] = Tas[1] /\ Len(all) = 1
      BY <1>1, <2>2, <3>2, Concat
    <3> QED BY <3>2, <3>3
  <2> QED BY <1>1, <2>1, <2>2
<1>4. SignatureFound(chain[1], Ints, Tas) /\ chain[1].time = "now"
      /\ \A i \in 1..Len(Ints) : Ints[i].ca = "yes"
  BY DEF Accepted, ValidateChain, VerifySignatures, CheckValidityPeriods, CheckBasicConstraints,
     Ints, Tas
<1>5. Verified(chain[1], issuer)
  <2>1. \A j \in 1..(1 - 1) : all[j].subject # chain[1].issuer
    OBVIOUS
  <2>2. all[1].subject = chain[1].issuer
    BY <1>3
  <2> HIDE DEF all
  <2>3. Verified(chain[1], all[1])
    BY <1>1, <1>3, <1>4, <2>1, <2>2, FoundIsNext DEF all
  <2> QED BY <1>3, <2>3
<1>6. SignatureTest = "PASS"
  BY <1>2, <1>5 DEF SignatureTest, PassIf
<1>7. NameChaining = "PASS"
  BY <1>2 DEF NameChaining, PassIf, None
<1>8. Expiry = "PASS"
  BY <1>2, <1>4 DEF Expiry, PassIf
<1>9. ASSUME Len(Path) > 1 PROVE BasicConstraints = "PASS"
  <2>1. 1 \in 1..Len(Ints) /\ Ints[1] = chain[2]
    BY <1>1, <1>9
  <2>2. issuer.ca = "yes"
    BY <2>1, <1>1, <1>4
  <2> QED BY <2>2 DEF BasicConstraints, PassIf
<1> QED BY <1>6, <1>7, <1>8, <1>9

(* The verdicts depend on the supplied certificates alone. *)
LEMMA InputsDecide ==
  ASSUME UNCHANGED inputs
  PROVE  /\ SignatureTest' = SignatureTest /\ NameChaining' = NameChaining
         /\ Expiry' = Expiry /\ BasicConstraints' = BasicConstraints
BY DEF inputs, SignatureTest, NameChaining, Expiry, BasicConstraints, PassIf, Verified, None

(* A report says of a test what the test's verdict is, and of 1.01 what    *)
(* the validator says of the chain.                                        *)
LEMMA ReportStep ==
  ASSUME Inv, JudgeInv, VerdictInv, NEW status \in Statuses, Report(status), Test \in Tests,
         Test # "1.01" => pc = "suite" /\ status \in Verdicts(Test),
         Test = "1.01" => (ended \in {"root", "anchor"} /\ Accepted => status = "PASS")
  PROVE  VerdictInv'
<1> DEFINE R == [test : Tests, status : Statuses]
           r == [test |-> Test, status |-> status]
<1>1. r \in R /\ results \in Seq(R) /\ results' = Append(results, r)
  BY DEF Report, JudgeInv
<1>2. UNCHANGED inputs /\ UNCHANGED <<good, issuer, anchors, chain, ended>>
  BY DEF Report, inputs, search
<1>3. Accepted' = Accepted
  BY <1>2 DEF Accepted, Organised, Current
<1>4. ASSUME NEW t PROVE Failed(t)' => Failed(t) \/ (t = Test /\ status = "FAIL")
  <2> DEFINE x == [test |-> t, status |-> "FAIL"]
  <2>1. (x # r /\ \E i \in 1..Len(results') : results'[i] = x) => \E i \in 1..Len(results) : results[i] = x
    <3> HIDE DEF R, r, x
    <3> QED BY <1>1, ReportTypes
  <2>2. x = r => t = Test /\ status = "FAIL"
    OBVIOUS
  <2> QED BY <2>1, <2>2 DEF Failed
<1>5. Passed("1.01") \/ r = [test |-> "1.01", status |-> "PASS"] => Passed("1.01")'
  <2> HIDE DEF R, r
  <2>1. /\ Len(results') = Len(results) + 1 /\ Len(results) \in Nat /\ results'[Len(results) + 1] = r
        /\ \A i \in 1..Len(results) : results'[i] = results[i]
    BY <1>1
  <2>2. ASSUME NEW i \in 1..Len(results) PROVE i \in 1..Len(results')
    BY <2>1
  <2>3. Len(results) + 1 \in 1..Len(results')
    BY <2>1
  <2> QED BY <2>1, <2>2, <2>3 DEF Passed
<1>6. /\ Test \in {"1.02", "1.03"} /\ status = "FAIL" => SignatureTest = "FAIL"
      /\ Test = "1.04" /\ status = "FAIL" => NameChaining = "FAIL"
      /\ Test = "2.01" /\ status = "FAIL" => Expiry = "FAIL"
      /\ Test = "4.01" /\ status = "FAIL" => BasicConstraints = "FAIL"
  BY DEF Verdicts
<1>7. chain' # <<>> => good' = Some(chain'[1])
  BY <1>2 DEF VerdictInv, Some
<1>8. (ended' \in {"root", "anchor"} /\ Accepted') => Passed("1.01")'
  <2>1. CASE Test = "1.01"
    BY <2>1, <1>2, <1>3, <1>5
  <2>2. CASE Test # "1.01"
    BY <2>2, <1>2, <1>3, <1>5 DEF VerdictInv
  <2> QED BY <2>1, <2>2
<1>9. /\ (Failed("1.02")' \/ Failed("1.03")') => SignatureTest' = "FAIL"
      /\ Failed("1.04")' => NameChaining' = "FAIL"
      /\ Failed("2.01")' => Expiry' = "FAIL"
      /\ Failed("4.01")' => BasicConstraints' = "FAIL"
  BY <1>2, <1>4, <1>6, InputsDecide DEF VerdictInv
<1> QED BY <1>7, <1>8, <1>9 DEF VerdictInv

(* Before 1.01 is judged there are no reports. *)
LEMMA SearchStep ==
  ASSUME JudgeInv, results' = <<>>, pc' # "suite", good' = Some(chain'[1])
  PROVE  VerdictInv'
BY DEF VerdictInv, Failed

(* Every step keeps the agreement of the reports with the inputs. *)
LEMMA StepVerdict ==
  ASSUME PathAssumption, Inv, JudgeInv, VerdictInv, [Next]_vars
  PROVE  VerdictInv'
<1>1. ASSUME pc # "suite", UNCHANGED <<inputs, results>>, pc' # "suite", chain'[1] = chain[1]
      PROVE  VerdictInv'
  <2>1. results = <<>> /\ chain # <<>>
    BY <1>1 DEF JudgeInv
  <2>2. good = Some(chain[1]) /\ good' = good
    BY <1>1, <2>1 DEF VerdictInv, inputs
  <2> QED BY <1>1, <2>1, <2>2, SearchStep DEF Some
<1>2. ASSUME NEW reason, pc = "look", StopHere(reason) PROVE VerdictInv'
  BY <1>1, <1>2 DEF StopHere, Stop
<1>3. ASSUME NEW answer \in Option(Served), pc = "fetch", Answered(answer) PROVE VerdictInv'
  <2>0. chain \in Seq(Certs) /\ Len(chain) >= 2
    BY <1>3 DEF JudgeInv, Inv, SearchInv
  <2>1. ASSUME NEW reason, Stop(reason) PROVE VerdictInv'
    BY <1>1, <1>3, <2>1 DEF Stop
  <2>2. ASSUME NEW parent \in answer, chain' = Append(chain, parent), pc' = "look",
               UNCHANGED <<inputs, turn, ended, results>>
        PROVE  VerdictInv'
    <3>1. parent \in Certs
      BY <2>2 DEF Option, None, Some, Certs
    <3>2. chain'[1] = chain[1]
      BY <2>0, <2>2, <3>1
    <3> QED BY <1>1, <1>3, <2>2, <3>2
  <2>3. CASE \E parent \in answer : TakeParent(parent)
    BY <2>1, <2>2, <2>3 DEF TakeParent
  <2>4. CASE answer = None /\ Tail(untried) = <<>> /\ Stop("download-failed")
    BY <2>1, <2>4
  <2>5. CASE /\ answer = None /\ Tail(untried) # <<>>
             /\ UNCHANGED <<inputs, turn, pc, chain, depth, ended, results>>
    BY <1>1, <1>3, <2>5
  <2> QED BY <1>3, <2>3, <2>4, <2>5 DEF Answered
<1>4. ASSUME UNCHANGED <<inputs, pc, chain, ended, results>> PROVE VerdictInv'
  <2>1. Accepted' = Accepted
    BY <1>4 DEF Accepted, Organised, Current, inputs
  <2>2. /\ Passed("1.01")' = Passed("1.01") /\ good' = good
        /\ \A t : Failed(t)' = Failed(t)
    BY <1>4 DEF Passed, Failed, inputs
  <2> QED BY <1>4, <2>1, <2>2, InputsDecide DEF VerdictInv, Some
<1>5. CASE SkipTest
  BY <1>4, <1>5 DEF SkipTest, search
<1>6. CASE RunTest
  <2>1. Test \in Tests /\ Test # "1.01" /\ pc = "suite"
    BY <1>6, TestTypes DEF RunTest, JudgeInv, Running
  <2>2. PICK status \in Verdicts(Test) : Report(status)
    BY <1>6 DEF RunTest
  <2>3. status \in Statuses
    BY <2>1, VerdictTypes
  <2> QED BY <2>1, <2>2, <2>3, ReportStep
<1>7. CASE StartChain
  <2>1. Test = "1.01" /\ turn = 1 /\ pc = "suite" /\ Test \in Tests
    BY <1>7, TestTypes DEF StartChain, JudgeInv, Running
  <2>2. results = <<>> /\ ended = "none"
    BY <2>1 DEF JudgeInv
  <2>3. CASE good = None /\ Report("FAIL")
    <3>1. "FAIL" \in Statuses
      BY DEF Statuses
    <3> QED BY <2>1, <2>2, <2>3, <3>1, ReportStep
  <2>4. ASSUME NEW g \in good, chain' = <<g, issuer>>, depth' = 0, pc' = "look",
               UNCHANGED <<inputs, turn, untried, cache, asked, ended, results>>
        PROVE  VerdictInv'
    <3>1. good = Some(g) /\ chain'[1] = g
      BY <2>4 DEF Inv, SearchInv, Option, None, Some
    <3>2. good' = Some(chain'[1]) /\ results' = <<>>
      BY <2>2, <2>4, <3>1 DEF inputs
    <3> QED BY <2>4, <3>2, SearchStep
  <2> QED BY <1>7, <2>3, <2>4 DEF StartChain
<1>8. CASE ReachAnchor \/ ReachRoot \/ ReachLimit
  BY <1>2, <1>8 DEF ReachAnchor, ReachRoot, ReachLimit
<1>9. CASE ReadAia
  <2>1. CASE Current.exts = "malformed" /\ StopHere("raised")
    BY <1>2, <1>9, <2>1 DEF ReadAia
  <2>2. CASE Current.exts = "ok" /\ Current.aia = <<>> /\ StopHere("no-aia")
    BY <1>2, <1>9, <2>2 DEF ReadAia
  <2>3. CASE pc' = "fetch" /\ UNCHANGED <<inputs, turn, chain, depth, cache, asked, ended, results>>
    BY <1>1, <1>9, <2>3 DEF ReadAia
  <2> QED BY <1>9, <2>1, <2>2, <2>3 DEF ReadAia
<1>10. CASE Download
  BY <1>3, <1>10 DEF Download
<1>11. CASE UseCache
  <2>1. pc = "fetch" /\ cache[Head(untried)] \in Option(Served) /\ Answered(cache[Head(untried)])
    BY <1>11 DEF UseCache, Inv, SearchInv
  <2> QED BY <1>3, <2>1
<1>12. CASE JudgeChain
  <2> DEFINE ok == ended # "raised" /\ Accepted
  <2>1. pc = "judge" /\ Report(PassIf(ok))
    BY <1>12 DEF JudgeChain, Accepted
  <2>2. turn = 1
    BY <2>1 DEF JudgeInv
  <2>3. Test = "1.01" /\ Test \in Tests
    BY <2>2 DEF Test, TestOrder, Tests
  <2>4. PassIf(ok) \in Statuses /\ (ended \in {"root", "anchor"} /\ Accepted => PassIf(ok) = "PASS")
    BY DEF PassIf, Statuses
  <2> QED BY <2>1, <2>3, <2>4, ReportStep
<1>13. CASE UNCHANGED vars
  BY <1>4, <1>13 DEF vars, search
<1> QED BY <1>5, <1>6, <1>7, <1>8, <1>9, <1>10, <1>11, <1>12, <1>13 DEF Next, Discover

(* The reports agree with the inputs throughout. *)
LEMMA ReportsAgree == Spec => [](Inv /\ JudgeInv /\ VerdictInv)
<1>1. Init => VerdictInv
  BY DEF Init, VerdictInv, Failed
<1>2. Inv /\ JudgeInv /\ [Next]_vars => JudgeInv'
  BY StepJudge, PathAssumption
<1>3. Inv /\ JudgeInv /\ VerdictInv /\ [Next]_vars => VerdictInv'
  BY StepVerdict, PathAssumption
<1> QED BY <1>1, <1>2, <1>3, InitJudge, Inductive, PTL DEF Spec

(* 1.01 is complete for what it is meant to accept: a chain followed up to *)
(* a root or the supplied anchor that RFC 5280 accepts passes, if it is    *)
(* signed with RSA PKCS #1 v1.5, its CA names are distinct and it has no   *)
(* path length constraint (path_validator.py, _find_issuer takes the first *)
(* certificate with the name and _check_path_length counts upwards).       *)
THEOREM SpecValidChainPasses == Spec => []ValidChainPasses
<1>1. Inv /\ JudgeInv /\ VerdictInv => ValidChainPasses
  <2> SUFFICES ASSUME Inv, JudgeInv, VerdictInv,
                      ended \in {"root", "anchor"}, pc = "suite", RfcPath(Path, Current),
                      \A i \in 1..Len(Path) : Path[i].pkcs1 /\ Path[i].pathLen < 0,
                      \A i, j \in 2..Len(chain) : chain[i].subject = chain[j].subject => i = j
               PROVE  Passed("1.01")
    BY DEF ValidChainPasses
  <2>1. chain # <<>>
    BY DEF JudgeInv
  <2>2. Accepted
    BY <2>1, PathIsAccepted, PathAssumption
  <2> QED BY <2>2 DEF VerdictInv
<1> QED BY <1>1, ReportsAgree, PTL

(* The verdicts of the suite do not contradict each other: a chain that    *)
(* passes 1.01 through the supplied issuer fails none of the tests of its  *)
(* parts (tests_path_validation.py, _test_invalid_signature_ee and the     *)
(* others), whatever was selected and discovered.                          *)
THEOREM SpecVerdictsAgree == Spec => []VerdictsAgree
<1>1. Inv /\ JudgeInv /\ VerdictInv => VerdictsAgree
  <2> SUFFICES ASSUME Inv, JudgeInv, VerdictInv, Passed("1.01"), chain[1].issuer = issuer.subject
               PROVE  /\ ~Failed("1.02") /\ ~Failed("1.03") /\ ~Failed("1.04") /\ ~Failed("2.01")
                      /\ Len(Path) > 1 => ~Failed("4.01")
    BY DEF VerdictsAgree
  <2>1. chain # <<>> /\ Accepted
    BY DEF JudgeInv, Accepted
  <2> QED BY <2>1, PartsPass DEF VerdictInv
<1> QED BY <1>1, ReportsAgree, PTL
=============================================================================
