------------------------------- MODULE MCPath -------------------------------
(***************************************************************************)
(* PathSuite with two CA names, two serial numbers each and two URLs.  A   *)
(* certificate is sound or has one flaw.                                   *)
(***************************************************************************)
EXTENDS PathSuite

Sound(s, i, n, urls) ==
  [subject |-> s, issuer |-> i, serial |-> n, key |-> s, signedBy |-> i, pkcs1 |-> TRUE,
   time |-> "now", exts |-> "ok", ca |-> "yes", pathLen |-> -1, keyUsage |-> "sign", aia |-> urls]

(* Every field that 1.01 reads.  A missing key usage extension is no flaw. *)
Flawed(c) ==
  {[c EXCEPT !.signedBy = "x"], [c EXCEPT !.pkcs1 = FALSE], [c EXCEPT !.time = "late"],
   [c EXCEPT !.time = "early"], [c EXCEPT !.exts = "malformed"], [c EXCEPT !.ca = "no"],
   [c EXCEPT !.ca = "absent", !.keyUsage = "absent"], [c EXCEPT !.keyUsage = "absent"],
   [c EXCEPT !.keyUsage = "other"], [c EXCEPT !.pathLen = 0]}

(* Two of them name both URLs, in either order. *)
Aia(s, n) ==
  CASE s = "A" /\ n = 1 -> <<"u2", "u1">> [] s = "B" /\ n = 1 -> <<"u2">>
    [] s = "A" /\ n = 2 -> <<"u1">>       [] s = "B" /\ n = 2 -> <<"u1", "u2">>

CAs == {Sound(s, i, n, Aia(s, n)) : s \in {"A", "B"}, i \in {"A", "B"}, n \in 1..2}
NoAia == {[c EXCEPT !.aia = <<>>] : c \in {c \in CAs : c.serial = 1}}

MCEndEntities ==
  LET ee == [Sound("E", "A", 1, <<>>) EXCEPT !.ca = "no", !.keyUsage = "other"] IN
    {ee} \cup {c \in Flawed(ee) : c.ca = "no" /\ c.pathLen < 0}
MCIssuers == {c \in CAs : c.serial = 1} \cup Flawed(Sound("A", "B", 1, Aia("A", 1)))
MCAnchors == {c \in CAs : c.serial = 2}
MCAnchorFiles ==
  {<<c>> : c \in MCAnchors} \cup {<<Sound("A", "A", 2, Aia("A", 2)), Sound("B", "B", 2, Aia("B", 2))>>}
MCServed ==
  CAs \cup NoAia \cup Flawed(Sound("B", "B", 1, <<>>)) \cup Flawed(Sound("B", "A", 2, Aia("B", 2)))
AllTests == {TestOrder[i] : i \in 1..Len(TestOrder)}
MCSelections == {AllTests, AllTests \ {"1.01", "2.04"}}
=============================================================================
