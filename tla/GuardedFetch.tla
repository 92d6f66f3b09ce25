---------------------------- MODULE GuardedFetch ----------------------------
(***************************************************************************)
(* Outbound requests under the network policy (backend/app/ssrf.py):       *)
(* guarded_fetch of the API process, and requests.Session.send and         *)
(* socket.getaddrinfo as the worker patches them (worker/netguard.py).     *)
(*                                                                         *)
(* Name servers may answer every question differently, and any peer may    *)
(* redirect to any URL and send a body of any length.                      *)
(***************************************************************************)
EXTENDS Integers, FiniteSets

CONSTANTS
  Hosts, LocalHosts, BlockedHosts, \* localhost and its subdomains; the block list
  Public, Private, Metadata,       \* addresses by class
  MaxRedirects,                    \* of guarded_fetch
  SessionRedirects,                \* requests.Session.max_redirects
  MaxChunks                        \* max_bytes, in chunks

Addresses == Public \cup Private \cup Metadata

ASSUME FetchAssumption ==
  /\ LocalHosts \subseteq Hosts /\ BlockedHosts \subseteq Hosts
  /\ Public \cap Private = {} /\ Public \cap Metadata = {} /\ Private \cap Metadata = {}
  /\ MaxRedirects \in Nat /\ SessionRedirects \in Nat /\ MaxChunks \in Nat

VARIABLES
  policy, \* NetworkPolicy: allow_private, allow_redirects
  caller, \* "api": guarded_fetch, "worker": the patched requests
  pc,     \* "validate", "connect", "answer", "read", "done" or "failed"
  url,    \* scheme and host of the request on its way
  pin,    \* the validated addresses that the connection is pinned to
  peer,   \* the address connected to, an option
  hops,   \* requests sent
  read,   \* chunks of the body read
  heard   \* history: the addresses whose answers were used

fetchVars == <<policy, caller, pc, url, pin, peer, hops, read, heard>>

Urls == [scheme : {"http", "https", "other"}, host : Hosts]

FetchInit ==
  /\ policy \in [private : BOOLEAN, redirects : BOOLEAN]
  /\ caller \in {"api", "worker"} /\ url \in Urls
  /\ pc = "validate" /\ pin = {} /\ peer = {} /\ hops = 0 /\ read = 0 /\ heard = {}

(* address_block_reason: metadata services stay blocked in lab mode. *)
Allowed(a) == a \in Public \/ (a \in Private /\ policy.private)

(* Name resolution is external: any addresses, but the loopback for        *)
(* localhost.                                                              *)
Resolves(host) == IF host \in LocalHosts THEN SUBSET Private ELSE SUBSET Addresses

GiveUp ==
  /\ pc' = "failed"
  /\ UNCHANGED <<policy, caller, url, pin, peer, hops, read, heard>>

(* resolve_and_validate: every resolved address must pass; an empty list   *)
(* for localhost in lab mode.                                              *)
Permitted(found) ==
  /\ url.scheme # "other" /\ url.host \notin BlockedHosts
  /\ IF url.host \in LocalHosts THEN policy.private
     ELSE found # {} /\ \A a \in found : Allowed(a)

(* Mutant: the connection is made to the host name whatever the scheme. *)
PinnedNever(found) == {}

(* guarded_fetch pins plain http to the first address; for https the       *)
(* certificate of the peer is the pin.                                     *)
Pinned(found) ==
  IF caller = "api" /\ url.scheme = "http" /\ url.host \notin LocalHosts
    THEN {CHOOSE a \in found : TRUE} ELSE {}

Validate ==
  /\ pc = "validate"
  /\ \E found \in Resolves(url.host) :
       IF Permitted(found)
         THEN /\ pin' = Pinned(found) /\ pc' = "connect"
              /\ UNCHANGED <<policy, caller, url, peer, hops, read, heard>>
         ELSE GiveUp

(* The second resolution, at the connect: the worker's getaddrinfo drops   *)
(* what the policy forbids.                                                *)
Reachable(found) == IF caller = "worker" THEN {a \in found : Allowed(a)} ELSE found

Connect ==
  /\ pc = "connect"
  /\ \E found \in Resolves(url.host) :
       LET targets == IF pin # {} THEN pin ELSE Reachable(found) IN
         IF targets = {} THEN GiveUp
         ELSE \E a \in targets :
                /\ peer' = {a} /\ hops' = hops + 1 /\ pc' = "answer"
                /\ UNCHANGED <<policy, caller, url, pin, read, heard>>

(* TLS, external: a peer at an address that the policy forbids has no      *)
(* certificate for a host name that passed.                                *)
Handshake == url.scheme = "https" => \A a \in peer : Allowed(a)

(* The for loop of guarded_fetch; in the worker requests follows           *)
(* redirects, each through the patched send, if the policy lets it.        *)
MayFollow == IF caller = "api" THEN hops <= MaxRedirects
             ELSE policy.redirects /\ hops <= SessionRedirects

Redirected ==
  /\ pc = "answer" /\ Handshake /\ MayFollow
  /\ url' \in Urls /\ pc' = "validate"
  /\ heard' = heard \cup peer /\ pin' = {} /\ peer' = {}
  /\ UNCHANGED <<policy, caller, hops, read>>

(* An answer with a status that is no success, no Location, a failed       *)
(* handshake, a timeout, or one redirect too many                          *)
AnswerFails == pc = "answer" /\ GiveUp

Answered ==
  /\ pc = "answer" /\ Handshake
  /\ pc' = "read" /\ heard' = heard \cup peer /\ read' = 0
  /\ UNCHANGED <<policy, caller, url, pin, peer, hops>>

(* A Content-Length beyond the limit is refused at once by the worker; the *)
(* chunks are counted by both.                                             *)
Chunk ==
  /\ pc = "read"
  /\ read' = read + 1
  /\ pc' = IF read' > MaxChunks THEN "failed" ELSE "read"
  /\ UNCHANGED <<policy, caller, url, pin, peer, hops, heard>>

ReadFails == pc = "read" /\ GiveUp

EndOfBody ==
  /\ pc = "read" /\ pc' = "done"
  /\ UNCHANGED <<policy, caller, url, pin, peer, hops, read, heard>>

FetchNext ==
  Validate \/ Connect \/ Redirected \/ AnswerFails \/ Answered \/ Chunk \/ ReadFails \/ EndOfBody

FetchSpec == FetchInit /\ [][FetchNext]_fetchVars
-----------------------------------------------------------------------------
(* Properties *)

FetchTypeOK ==
  /\ policy \in [private : BOOLEAN, redirects : BOOLEAN]
  /\ caller \in {"api", "worker"} /\ url \in Urls
  /\ pc \in {"validate", "connect", "answer", "read", "done", "failed"}
  /\ pin \subseteq Addresses /\ peer \subseteq Addresses /\ heard \subseteq Addresses
  /\ hops \in Nat /\ read \in Nat

(* Whatever names resolve to, and however often, and wherever redirects    *)
(* lead, no answer is used that did not come from an address that the      *)
(* policy allows.                                                          *)
HeardFromAllowed == \A a \in heard : Allowed(a)

(* Every fetch is bounded: in the requests that redirects lead to (one, if *)
(* the policy does not let them), and in the body that is handed on.       *)
FetchBounded ==
  /\ hops <= 1 + (IF caller = "api" THEN MaxRedirects
                  ELSE IF policy.redirects THEN SessionRedirects ELSE 0)
  /\ pc = "done" => read <= MaxChunks

(* A fetch stays within the policy and within its limits.                  *)
FetchGuarded == HeardFromAllowed /\ FetchBounded
=============================================================================
