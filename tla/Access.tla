------------------------------- MODULE Access -------------------------------
(***************************************************************************)
(* Who may do what: principals from session cookies and API tokens         *)
(* (backend/app/authz.py), the token and user administration               *)
(* (api/tokens.py, api/admin.py), the workspaces, and the visibility of    *)
(* runs over REST (api/runs.py) and over the streams (api/stream.py).      *)
(*                                                                         *)
(* A request authenticates, checks and reads in one step, and commits in a *)
(* second one; other requests may commit in between.  A session cookie is  *)
(* good until it expires, so that a credential is a user (by cookie) or a  *)
(* token.  Where a role comes from, and the guard for the last admin, are  *)
(* matters of module Membership; the accounts are those of Accounts.       *)
(***************************************************************************)
EXTENDS Integers, FiniteSets

CONSTANTS
  Users, GlobalAdmins, \* is_global_admin never changes after creation
  Shared, Personal,    \* workspaces; Personal[u] is that of u
  Runs,                \* workspace and creator; no creator: a run of open mode
  Tokens,              \* ids of tokens that may be created
  Cascades,            \* the database enforces ON DELETE CASCADE; SQLite does not
  AccessTasks,
  Managed              \* bound: the workspaces that requests change

Workspaces == Shared \cup {Personal[u] : u \in Users}

ASSUME AccessAssumption ==
  /\ GlobalAdmins \subseteq Users /\ GlobalAdmins # {}
  /\ \A u, v \in Users : Personal[u] = Personal[v] => u = v
  /\ \A u \in Users : Personal[u] \notin Shared
  /\ Users \cap Tokens = {}
  /\ \A r \in Runs : r.ws \in Workspaces /\ r.by \subseteq Users
  /\ Cascades \in BOOLEAN /\ Shared \subseteq Managed /\ Managed \subseteq Workspaces

(* Role: 1 viewer, 2 member, 3 admin; 0 stands for no membership. *)
Viewer == 1
Member == 2
Admin == 3

VARIABLES
  active,     \* users with is_active
  exists,     \* workspaces that have a row
  role,       \* rows of workspace_members
  visibility, \* run_visibility of each workspace
  token,      \* rows of api_tokens
  op          \* what each task has checked and is about to commit, an option

accessVars == <<active, exists, role, visibility, token, op>>

NoToken == [state |-> "none", user |-> CHOOSE u \in Users : TRUE, scope |-> {}, ceiling |-> Viewer]

AccessInit ==
  /\ active = Users
  /\ exists = {Personal[u] : u \in Users}
  /\ role = [w \in Workspaces |-> [u \in Users |-> IF w = Personal[u] THEN Admin ELSE 0]]
  /\ visibility = [w \in Workspaces |-> "all"]
  /\ token = [k \in Tokens |-> NoToken]
  /\ op = [t \in AccessTasks |-> {}]
-----------------------------------------------------------------------------
(* Principals *)

UserOf(c) == IF c \in Tokens THEN token[c].user ELSE c
Scope(c) == IF c \in Tokens THEN token[c].scope ELSE {}
Ceiling(c) == IF c \in Tokens THEN token[c].ceiling ELSE Admin

(* _principal_from_request: a revoked token and an inactive user are       *)
(* nobody.                                                                 *)
Authenticated(c) ==
  /\ c \in Tokens => token[c].state = "live"
  /\ UserOf(c) \in active

IsGlobalAdmin(c) == UserOf(c) \in GlobalAdmins

Capped(r, c) == IF r > Ceiling(c) THEN Ceiling(c) ELSE r

OutOfScope(c, w) == Scope(c) # {} /\ w \notin Scope(c)

(* authorize_workspace_role and require_workspace: the effective role, 0   *)
(* for a refusal.                                                          *)
RoleIn(c, w) ==
  IF w \notin exists \/ OutOfScope(c, w) THEN 0
  ELSE Capped(IF IsGlobalAdmin(c) THEN Admin ELSE role[w][UserOf(c)], c)

(* Mutant: without a workspace_id every token is taken to the personal     *)
(* workspace of its owner.                                                 *)
ActiveWorkspaceOwn(c, param) ==
  IF param = {} THEN [ws |-> Personal[UserOf(c)], role |-> Capped(Admin, c)]
  ELSE LET w == CHOOSE x \in param : TRUE IN [ws |-> w, role |-> RoleIn(c, w)]

(* active_workspace: the workspace_id of the request, else the scope of    *)
(* the token, else the personal workspace, in which its owner is an admin  *)
(* whatever the members say.                                               *)
ActiveWorkspace(c, param) ==
  LET named == IF param = {} THEN Scope(c) ELSE param IN
    IF named = {} THEN [ws |-> Personal[UserOf(c)], role |-> Capped(Admin, c)]
    ELSE LET w == CHOOSE x \in named : TRUE IN [ws |-> w, role |-> RoleIn(c, w)]
-----------------------------------------------------------------------------
(* Visibility of runs *)

OthersRun(c, run) == run.by # {} /\ UserOf(c) \notin run.by

(* _get_run_or_404, with the workspace of the run as workspace_id *)
Reads(c, run) ==
  LET ctx == ActiveWorkspace(c, {run.ws}) IN
    /\ Authenticated(c) /\ ctx.role >= Viewer
    /\ ~(/\ visibility[run.ws] = "own" /\ ctx.role < Admin /\ ~IsGlobalAdmin(c)
         /\ OthersRun(c, run))

(* list_runs with _visibility_filter *)
Lists(c, run) ==
  LET ctx == ActiveWorkspace(c, {run.ws}) IN
    /\ Authenticated(c) /\ ctx.role >= Viewer
    /\ visibility[run.ws] = "own" /\ ctx.role < Admin /\ ~IsGlobalAdmin(c) => UserOf(c) \in run.by

(* Mutant: the ceiling of a token is left out. *)
StreamsUncapped(c, run) ==
  /\ Authenticated(c) /\ run.ws \in exists /\ ~OutOfScope(c, run.ws)
  /\ \/ IsGlobalAdmin(c)
     \/ /\ role[run.ws][UserOf(c)] # 0
        /\ ~(visibility[run.ws] = "own" /\ role[run.ws][UserOf(c)] < Admin /\ OthersRun(c, run))

(* stream_ws and stream_sse: authorize_run_view *)
Streams(c, run) ==
  /\ Authenticated(c) /\ run.ws \in exists /\ ~OutOfScope(c, run.ws)
  /\ \/ IsGlobalAdmin(c)
     \/ /\ role[run.ws][UserOf(c)] # 0
        /\ ~(/\ visibility[run.ws] = "own" /\ Capped(role[run.ws][UserOf(c)], c) < Admin
             /\ OthersRun(c, run))
-----------------------------------------------------------------------------
(* Requests: the check *)

Credentials == Users \cup Tokens

Do(kind, w, u, r) == [kind |-> kind, ws |-> w, user |-> u, role |-> r, token |-> {}]

Begin(t, c, request) ==
  /\ op[t] = {} /\ Authenticated(c)
  /\ op' = [op EXCEPT ![t] = {request}]
  /\ UNCHANGED <<active, exists, role, visibility, token>>

(* create_token: not with a token, and scoped only to a workspace of which *)
(* the user is a member.                                                   *)
CreateToken(t) ==
  \E u \in Users, w \in Managed, scoped \in BOOLEAN, r \in Viewer..Admin :
    /\ scoped => w \in exists /\ (IsGlobalAdmin(u) \/ role[w][u] # 0)
    /\ Begin(t, u, Do(IF scoped THEN "scoped token" ELSE "token", w, u, r))

(* revoke_token: the owner's own, with any credential of the owner. *)
RevokeToken(t) ==
  \E c \in Credentials, k \in Tokens :
    /\ token[k].state # "none" /\ token[k].user = UserOf(c)
    /\ Begin(t, c, [Do("revoke", Personal[UserOf(c)], UserOf(c), 0) EXCEPT !.token = {k}])

(* _guard_last_admin *)
LastAdmin(w, u) == {v \in Users : role[w][v] = Admin} = {u}

(* add_member, change_member_role, remove_member: 0 is a removal. *)
ChangeMember(t) ==
  \E c \in Credentials, w \in Managed, u \in Users, r \in 0..Admin :
    /\ RoleIn(c, w) >= Admin
    /\ ~(r # Admin /\ LastAdmin(w, u))
    /\ \/ role[w][u] = 0 /\ r # 0 /\ Begin(t, c, Do("add", w, u, r))
       \/ role[w][u] # 0 /\ Begin(t, c, Do("change", w, u, r))

(* update_workspace: run_visibility *)
SetVisibility(t) ==
  \E c \in Credentials, w \in Managed, v \in {"all", "own"} :
    RoleIn(c, w) >= Admin /\ Begin(t, c, Do(v, w, UserOf(c), 0))

(* create_workspace: any principal, also a token of any scope *)
CreateWorkspace(t) ==
  \E c \in Credentials, w \in Shared : Begin(t, c, Do("create", w, UserOf(c), Admin))

(* delete_workspace: 400 for a personal one. *)
DeleteWorkspace(t) ==
  \E c \in Credentials, w \in Shared :
    RoleIn(c, w) >= Admin /\ Begin(t, c, Do("delete", w, UserOf(c), 0))
-----------------------------------------------------------------------------
(* Requests: the commit *)

Finish(t) == op' = [op EXCEPT ![t] = {}]

(* Mutant: the database checks no reference. *)
RefersAnywhere(w) == TRUE

(* A row may refer to w: the foreign keys, where they are enforced. *)
RefersTo(w) == Cascades => w \in exists

CommitToken(t) ==
  \E o \in op[t], k \in Tokens :
    /\ o.kind \in {"token", "scoped token"} /\ token[k].state = "none"
    /\ token' = IF o.kind = "token" \/ RefersTo(o.ws)
                  THEN [token EXCEPT ![k] = [state |-> "live", user |-> o.user, ceiling |-> o.role,
                                             scope |-> IF o.kind = "token" THEN {} ELSE {o.ws}]]
                  ELSE token
    /\ Finish(t) /\ UNCHANGED <<active, exists, role, visibility>>

(* An UPDATE of a row that is gone raises; a token that a cascade deleted  *)
(* stays as good as revoked.                                               *)
CommitRevoke(t) ==
  \E o \in op[t] :
    /\ o.kind = "revoke"
    /\ token' = [k \in Tokens |-> IF k \in o.token THEN [token[k] EXCEPT !.state = "revoked"]
                                  ELSE token[k]]
    /\ Finish(t) /\ UNCHANGED <<active, exists, role, visibility>>

(* The unique index refuses a second row; an UPDATE of a row that is gone  *)
(* raises, and a DELETE of it does nothing.                                *)
CommitMember(t) ==
  \E o \in op[t] :
    /\ o.kind \in {"add", "change"}
    /\ role' = IF RefersTo(o.ws) /\ (o.kind = "add" <=> role[o.ws][o.user] = 0)
                 THEN [role EXCEPT ![o.ws][o.user] = o.role] ELSE role
    /\ Finish(t) /\ UNCHANGED <<active, exists, visibility, token>>

CommitVisibility(t) ==
  \E o \in op[t] :
    /\ o.kind \in {"all", "own"}
    /\ visibility' = IF o.ws \in exists THEN [visibility EXCEPT ![o.ws] = o.kind] ELSE visibility
    /\ Finish(t) /\ UNCHANGED <<active, exists, role, token>>

(* The database chooses the id: where nothing cascades it may be that of a *)
(* deleted workspace, whose rows are still there; one of the creator makes *)
(* the commit fail.                                                        *)
CommitCreate(t) ==
  \E o \in op[t] :
    /\ o.kind = "create"
    /\ IF o.ws \in exists \/ role[o.ws][o.user] # 0
         THEN UNCHANGED <<exists, role, visibility>>
         ELSE /\ exists' = exists \cup {o.ws}
              /\ role' = [role EXCEPT ![o.ws][o.user] = Admin]
              /\ visibility' = [visibility EXCEPT ![o.ws] = "all"]
    /\ Finish(t) /\ UNCHANGED <<active, token>>

CommitDelete(t) ==
  \E o \in op[t] :
    /\ o.kind = "delete"
    /\ exists' = exists \ {o.ws}
    /\ role' = IF Cascades THEN [role EXCEPT ![o.ws] = [u \in Users |-> 0]] ELSE role
    /\ token' = IF Cascades THEN [k \in Tokens |-> IF token[k].scope = {o.ws}
                                                    THEN [token[k] EXCEPT !.state = "revoked"]
                                                    ELSE token[k]]
                ELSE token
    /\ Finish(t) /\ UNCHANGED <<active, visibility>>

(* set_user_active: 400 for the own account; ends no session and revokes   *)
(* no token.  That its check and its commit are apart matters to Accounts. *)
SetUserActive ==
  \E c \in Credentials, u \in Users, on \in BOOLEAN :
    /\ Authenticated(c) /\ IsGlobalAdmin(c) /\ (on \/ u # UserOf(c))
    /\ active' = IF on THEN active \cup {u} ELSE active \ {u}
    /\ UNCHANGED <<exists, role, visibility, token, op>>

AccessNext ==
  \/ SetUserActive
  \/ \E t \in AccessTasks :
       \/ CreateToken(t) \/ RevokeToken(t) \/ ChangeMember(t)
       \/ SetVisibility(t) \/ CreateWorkspace(t) \/ DeleteWorkspace(t)
       \/ CommitToken(t) \/ CommitRevoke(t) \/ CommitMember(t) \/ CommitVisibility(t)
       \/ CommitCreate(t) \/ CommitDelete(t)

AccessSpec == AccessInit /\ [][AccessNext]_accessVars
-----------------------------------------------------------------------------
(* Properties *)

Token == [state : {"none", "live", "revoked"}, user : Users,
          scope : {{}} \cup {{w} : w \in Workspaces}, ceiling : Viewer..Admin]

RequestKinds == {"token", "scoped token", "revoke", "add", "change", "all", "own", "create", "delete"}

AccessRequest ==
  [kind : RequestKinds, ws : Workspaces, user : Users, role : 0..Admin, token : SUBSET Tokens]

AccessTypeOK ==
  /\ active \subseteq Users /\ exists \subseteq Workspaces
  /\ role \in [Workspaces -> [Users -> 0..Admin]]
  /\ visibility \in [Workspaces -> {"all", "own"}]
  /\ token \in [Tokens -> Token]
  /\ DOMAIN op = AccessTasks
  /\ \A t \in AccessTasks : \A o \in op[t] :
       o \in AccessRequest /\ (o.kind \in {"token", "scoped token"} => o.role >= Viewer)

(* A run that can be streamed can be read and the other way round, with    *)
(* every credential (the streams have an authorization of their own), and  *)
(* a run that is listed can be read.                                       *)
ViewsAgree ==
  \A c \in Credentials, run \in Runs :
    /\ Streams(c, run) <=> Reads(c, run)
    /\ Lists(c, run) => Reads(c, run)

(* A token is never good for more than its owner is, nor for more than its *)
(* ceiling, nor for anything outside its scope, also when a request names  *)
(* no workspace.                                                           *)
TokenConfined ==
  \A k \in Tokens : Authenticated(k) =>
    /\ \A w \in Workspaces :
         /\ RoleIn(k, w) <= token[k].ceiling
         /\ RoleIn(k, w) <= RoleIn(token[k].user, w)
         /\ RoleIn(k, w) # 0 /\ token[k].scope # {} => token[k].scope = {w}
    /\ LET ctx == ActiveWorkspace(k, {}) IN
         /\ ctx.role <= token[k].ceiling
         /\ token[k].scope # {} => token[k].scope = {ctx.ws}

(* Where the database enforces its foreign keys, nobody has a role in a    *)
(* workspace that was deleted and no live token is scoped to one: the next *)
(* workspace with its id starts with its creator alone, whatever requests  *)
(* were on their way at the deletion.                                      *)
NothingOutlivesWorkspace ==
  Cascades => \A w \in Workspaces \ exists :
    /\ \A u \in Users : role[w][u] = 0
    /\ \A k \in Tokens : token[k].state = "live" => token[k].scope # {w}
=============================================================================
