------------------------------ MODULE Accounts ------------------------------
(***************************************************************************)
(* User accounts: the OIDC code flow (backend/app/api/auth.py), the        *)
(* provisioning of users with their personal workspaces                    *)
(* (provisioning.py) and the administration of local users                 *)
(* (api/admin.py).                                                         *)
(*                                                                         *)
(* Every request reads in one step and commits in a later one; the API     *)
(* process may be restarted in between.  _default_workspace_for would      *)
(* create a missing personal workspace; by OneHome it never finds one      *)
(* missing, and it is left out.                                            *)
(***************************************************************************)
EXTENDS Integers, FiniteSets

CONSTANTS
  Sso, Locals,    \* subjects of the identity provider, names of local users
  BootstrapName,  \* OCSPWEB_BOOTSTRAP_ADMIN_USERNAME
  OidcStates,     \* values of secrets.token_urlsafe
  AccountTasks

Subjects == Sso \cup Locals

ASSUME AccountsAssumption == BootstrapName \in Locals /\ Sso \cap Locals = {}

VARIABLES
  account,  \* row of each subject, and how many personal workspaces it owns
  oidc,     \* _OIDC_STATE
  sessions, \* how many sessions each OIDC state was good for
  request,  \* what each task has read and is about to do, an option
  raced     \* somebody was deactivated by a request of an account that had
            \* itself been deactivated since its check

accountVars == <<account, oidc, sessions, request, raced>>

NoAccount == [row |-> FALSE, admin |-> FALSE, active |-> FALSE, homes |-> 0]

(* A user and its personal workspace, in one transaction *)
Provisioned(admin) == [row |-> TRUE, admin |-> admin, active |-> TRUE, homes |-> 1]

AccountsInit ==
  /\ account = [s \in Subjects |-> IF s = BootstrapName THEN Provisioned(TRUE) ELSE NoAccount]
  /\ oidc = [x \in OidcStates |-> "none"]
  /\ sessions = [x \in OidcStates |-> 0]
  /\ request = [t \in AccountTasks |-> {}]
  /\ raced = FALSE

Ask(kind, s) == [kind |-> kind, subject |-> s, found |-> account[s].row, admin |-> FALSE,
                 actor |-> s, overtaken |-> FALSE, state |-> {}]

Enter(t, r) == request[t] = {} /\ request' = [request EXCEPT ![t] = {r}]

Leave(t) == request' = [request EXCEPT ![t] = {}]
-----------------------------------------------------------------------------
(* The OIDC code flow *)

OidcLogin ==
  \E x \in OidcStates :
    /\ oidc[x] = "none" /\ sessions[x] = 0
    /\ oidc' = [oidc EXCEPT ![x] = "issued"]
    /\ UNCHANGED <<account, sessions, request, raced>>

(* Mutant: the state is dropped with the session, after the exchange. *)
CallbackKeepsState(t) ==
  \E x \in OidcStates, s \in Sso :
    /\ oidc[x] = "issued"
    /\ Enter(t, [Ask("exchange", s) EXCEPT !.state = {x}])
    /\ UNCHANGED <<account, oidc, sessions, raced>>

(* oidc_callback: the state must be known and not expired, and is dropped  *)
(* before the code is exchanged.                                           *)
Callback(t) ==
  \E x \in OidcStates, s \in Sso :
    /\ oidc[x] = "issued"
    /\ Enter(t, [Ask("exchange", s) EXCEPT !.state = {x}])
    /\ oidc' = [oidc EXCEPT ![x] = "used"]
    /\ UNCHANGED <<account, sessions, raced>>

ExpireState ==
  \E x \in OidcStates :
    /\ oidc[x] = "issued"
    /\ oidc' = [oidc EXCEPT ![x] = "used"]
    /\ UNCHANGED <<account, sessions, request, raced>>

(* authorize_access_token, then the SELECT of get_or_create_oidc_user *)
Exchange(t) ==
  \E r \in request[t] :
    /\ r.kind = "exchange"
    /\ \/ Leave(t)
       \/ request' = [request EXCEPT ![t] =
            {[r EXCEPT !.kind = "provision", !.found = account[r.subject].row]}]
    /\ UNCHANGED <<account, oidc, sessions, raced>>

(* Mutant: nothing keeps a subject unique. *)
CreatesAnyway(r) == ~r.found

(* The transaction creates an account that it did not find; the unique     *)
(* index uq_users_provider_subject makes it fail if another one did.       *)
Creates(r) == ~r.found /\ ~account[r.subject].row

Created(r) == [row |-> TRUE, admin |-> r.admin, active |-> TRUE,
               homes |-> account[r.subject].homes + 1]

(* get_or_create_oidc_user and the session cookie *)
Provision(t) ==
  \E r \in request[t] :
    /\ r.kind = "provision"
    /\ account' = IF Creates(r) THEN [account EXCEPT ![r.subject] = Created(r)] ELSE account
    /\ sessions' = [x \in OidcStates |-> IF x \in r.state /\ (r.found \/ Creates(r))
                                           THEN sessions[x] + 1 ELSE sessions[x]]
    /\ Leave(t) /\ UNCHANGED <<oidc, raced>>
-----------------------------------------------------------------------------
(* Administration *)

(* require_global_admin *)
MayAdminister(s) == account[s].row /\ account[s].admin /\ account[s].active

(* create_local_user: 409 if the name is taken. *)
CreateLocalUser(t) ==
  \E a, s \in Subjects, admin \in BOOLEAN :
    /\ MayAdminister(a) /\ s \in Locals /\ ~account[s].row
    /\ Enter(t, [Ask("create", s) EXCEPT !.actor = a, !.admin = admin])
    /\ UNCHANGED <<account, oidc, sessions, raced>>

CommitLocalUser(t) ==
  \E r \in request[t] :
    /\ r.kind = "create"
    /\ account' = IF Creates(r) THEN [account EXCEPT ![r.subject] = Created(r)] ELSE account
    /\ Leave(t) /\ UNCHANGED <<oidc, sessions, raced>>

(* Mutant: nobody is kept from deactivating the own account. *)
SetActiveAny(t) ==
  \E a, s \in Subjects, on \in BOOLEAN :
    /\ MayAdminister(a) /\ account[s].row
    /\ Enter(t, [Ask(IF on THEN "activate" ELSE "deactivate", s) EXCEPT !.actor = a])
    /\ UNCHANGED <<account, oidc, sessions, raced>>

(* set_user_active: 400 for the own account. *)
SetActive(t) ==
  \E a, s \in Subjects, on \in BOOLEAN :
    /\ MayAdminister(a) /\ account[s].row /\ (on \/ s # a)
    /\ Enter(t, [Ask(IF on THEN "activate" ELSE "deactivate", s) EXCEPT !.actor = a])
    /\ UNCHANGED <<account, oidc, sessions, raced>>

Overtaken(s) ==
  [t \in AccountTasks |->
     {IF r.actor = s THEN [r EXCEPT !.overtaken = TRUE] ELSE r : r \in request[t]}]

CommitActive(t) ==
  \E r \in request[t] :
    /\ \/ /\ r.kind = "activate"
          /\ account' = [account EXCEPT ![r.subject].active = TRUE]
          /\ Leave(t) /\ UNCHANGED raced
       \/ /\ r.kind = "deactivate"
          /\ account' = [account EXCEPT ![r.subject].active = FALSE]
          /\ request' = [Overtaken(r.subject) EXCEPT ![t] = {}]
          /\ raced' = (raced \/ r.overtaken)
    /\ UNCHANGED <<oidc, sessions>>

(* A restart of the API process: requests and OIDC states are gone, and    *)
(* ensure_bootstrap_admin makes the break-glass account usable again.      *)
Restart ==
  /\ request' = [t \in AccountTasks |-> {}]
  /\ oidc' = [x \in OidcStates |-> IF oidc[x] = "issued" THEN "used" ELSE oidc[x]]
  /\ account' = [account EXCEPT ![BootstrapName].admin = TRUE, ![BootstrapName].active = TRUE]
  /\ raced' = FALSE
  /\ UNCHANGED sessions

AccountsNext ==
  \/ OidcLogin \/ ExpireState \/ Restart
  \/ \E t \in AccountTasks :
       \/ Callback(t) \/ Exchange(t) \/ Provision(t)
       \/ CreateLocalUser(t) \/ CommitLocalUser(t) \/ SetActive(t) \/ CommitActive(t)

AccountsSpec == AccountsInit /\ [][AccountsNext]_accountVars
-----------------------------------------------------------------------------
(* Properties *)

AccountRequest == [kind : {"exchange", "provision", "create", "activate", "deactivate"},
            subject : Subjects, found : BOOLEAN, admin : BOOLEAN, actor : Subjects,
            overtaken : BOOLEAN, state : SUBSET OidcStates]

AccountsTypeOK ==
  /\ account \in [Subjects -> [row : BOOLEAN, admin : BOOLEAN, active : BOOLEAN, homes : Nat]]
  /\ oidc \in [OidcStates -> {"none", "issued", "used"}]
  /\ sessions \in [OidcStates -> Nat]
  /\ DOMAIN request = AccountTasks /\ \A t \in AccountTasks : request[t] \subseteq AccountRequest
  /\ raced \in BOOLEAN

(* Whatever first logins and requests overlap, an account has exactly one  *)
(* personal workspace, and a workspace never stays without its account.    *)
OneHome == \A s \in Subjects : account[s].homes = IF account[s].row THEN 1 ELSE 0

(* A state of the OIDC flow is good for one session, also when its         *)
(* callback is delivered twice or is slow.                                 *)
StateUsedOnce == \A x \in OidcStates : sessions[x] <= 1

(* There is always an active global admin, unless admins deactivated each  *)
(* other in overlapping requests; the next start of the process ends that. *)
AdminRemains == raced \/ \E s \in Subjects : MayAdminister(s)
=============================================================================
