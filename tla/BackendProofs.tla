--------------------------- MODULE BackendProofs ----------------------------
(***************************************************************************)
(* Theorems of the request handlers of the API, each about the             *)
(* specification of its own module: Access, Accounts, GuardedFetch,        *)
(* Library and LoginLimiter, in this order.  They hold for any users,      *)
(* tokens, workspaces, hosts, limits and number of overlapping requests.   *)
(***************************************************************************)
EXTENDS Access, Accounts, LoginLimiter, Library, GuardedFetch, FiniteSetTheorems, TLAPS
-----------------------------------------------------------------------------
(* Access *)

Typed(o) == o \in AccessRequest /\ (o.kind \in {"token", "scoped token"} => o.role >= Viewer)

(* A request on its way is what a handler has put there. *)
LEMMA DoTyped ==
  ASSUME NEW kind \in RequestKinds, NEW w \in Workspaces, NEW u \in Users, NEW r \in 0..Admin,
         kind \in {"token", "scoped token"} => r >= Viewer
  PROVE  Typed(Do(kind, w, u, r))
BY DEF Do, AccessRequest, Typed

(* The read of a request keeps the types.                                   *)
LEMMA BeginTyped ==
  ASSUME AccessTypeOK, NEW t \in AccessTasks, NEW c, NEW o, Typed(o), Begin(t, c, o)
  PROVE  AccessTypeOK'
<1>1. \A x \in AccessTasks : op'[x] = op[x] \/ op'[x] = {o}
  BY DEF AccessTypeOK, Begin
<1>2. DOMAIN op' = AccessTasks
  BY DEF AccessTypeOK, Begin
<1> QED
  BY <1>1, <1>2 DEF AccessTypeOK, Begin, Typed

(* The bounds of the requests are workspaces.                              *)
LEMMA ManagedTyped == Managed \subseteq Workspaces /\ Shared \subseteq Workspaces
BY AccessAssumption DEF Workspaces

(* The owner of a token is a user. *)
LEMMA UserOfTyped ==
  ASSUME AccessTypeOK, NEW c \in Credentials
  PROVE  UserOf(c) \in Users
BY DEF AccessTypeOK, Token, UserOf, Credentials

(* Every reachable state of Access is typed: requests commit what their    *)
(* checks let through, and nothing else.                                   *)
THEOREM AccessTyped == AccessSpec => []AccessTypeOK
<1>1. AccessInit => AccessTypeOK
  <2>1. Users # {}
    BY AccessAssumption
  <2>2. (CHOOSE u \in Users : TRUE) \in Users
    BY <2>1
  <2> QED
    BY <2>2, AccessAssumption DEF AccessInit, AccessTypeOK, NoToken, Token, Workspaces, Admin, Viewer
<1>2. AccessTypeOK /\ [AccessNext]_accessVars => AccessTypeOK'
  <2> SUFFICES ASSUME AccessTypeOK, [AccessNext]_accessVars
               PROVE  AccessTypeOK'
    OBVIOUS
  <2>0. CASE UNCHANGED accessVars
    BY <2>0 DEF AccessTypeOK, accessVars
  <2>1. CASE SetUserActive
    BY <2>1 DEF SetUserActive, AccessTypeOK
  <2>2. ASSUME NEW t \in AccessTasks, CreateToken(t)
        PROVE  AccessTypeOK'
    <3>1. PICK u \in Users, w \in Managed, scoped \in BOOLEAN, r \in Viewer..Admin :
            Begin(t, u, Do(IF scoped THEN "scoped token" ELSE "token", w, u, r))
      BY <2>2 DEF CreateToken
    <3>2. /\ w \in Workspaces /\ r \in 0..Admin /\ r >= Viewer
          /\ (IF scoped THEN "scoped token" ELSE "token") \in RequestKinds
      BY ManagedTyped DEF RequestKinds, Viewer, Admin
    <3>3. Typed(Do(IF scoped THEN "scoped token" ELSE "token", w, u, r))
      BY <3>2, DoTyped
    <3> QED
      BY <3>1, <3>3, BeginTyped
  <2>3. ASSUME NEW t \in AccessTasks, RevokeToken(t)
        PROVE  AccessTypeOK'
    <3>1. PICK c \in Credentials, k \in Tokens :
            Begin(t, c, [Do("revoke", Personal[UserOf(c)], UserOf(c), 0) EXCEPT !.token = {k}])
      BY <2>3 DEF RevokeToken
    <3>2. UserOf(c) \in Users /\ Personal[UserOf(c)] \in Workspaces
      BY UserOfTyped DEF Workspaces
    <3> DEFINE o == [kind |-> "revoke", ws |-> Personal[UserOf(c)], user |-> UserOf(c),
                     role |-> 0, token |-> {k}]
    <3>3. [Do("revoke", Personal[UserOf(c)], UserOf(c), 0) EXCEPT !.token = {k}] = o
      BY DEF Do
    <3>4. Typed(o)
      BY <3>2 DEF AccessRequest, RequestKinds, Admin, Typed
    <3>5. Typed([Do("revoke", Personal[UserOf(c)], UserOf(c), 0) EXCEPT !.token = {k}])
      BY <3>3, <3>4
    <3> QED
      BY <3>1, <3>5, BeginTyped
  <2>4. ASSUME NEW t \in AccessTasks, ChangeMember(t)
        PROVE  AccessTypeOK'
    <3>1. PICK c \in Credentials, w \in Managed, u \in Users, r \in 0..Admin :
            Begin(t, c, Do("add", w, u, r)) \/ Begin(t, c, Do("change", w, u, r))
      BY <2>4 DEF ChangeMember
    <3>2. Typed(Do("add", w, u, r)) /\ Typed(Do("change", w, u, r))
      BY ManagedTyped DEF Do, AccessRequest, RequestKinds, Typed
    <3> QED
      BY <3>1, <3>2, BeginTyped
  <2>5. ASSUME NEW t \in AccessTasks, SetVisibility(t)
        PROVE  AccessTypeOK'
    <3>1. PICK c \in Credentials, w \in Managed, v \in {"all", "own"} :
            Begin(t, c, Do(v, w, UserOf(c), 0))
      BY <2>5 DEF SetVisibility
    <3>2. UserOf(c) \in Users /\ w \in Workspaces
      BY UserOfTyped, ManagedTyped
    <3>3. Typed(Do("all", w, UserOf(c), 0)) /\ Typed(Do("own", w, UserOf(c), 0))
      BY <3>2 DEF Do, AccessRequest, RequestKinds, Admin, Typed
    <3>4. Typed(Do(v, w, UserOf(c), 0))
      BY <3>3
    <3> QED
      BY <3>1, <3>4, BeginTyped
  <2>6. ASSUME NEW t \in AccessTasks, CreateWorkspace(t)
        PROVE  AccessTypeOK'
    <3>1. PICK c \in Credentials, w \in Shared : Begin(t, c, Do("create", w, UserOf(c), Admin))
      BY <2>6 DEF CreateWorkspace
    <3>2. UserOf(c) \in Users /\ w \in Workspaces
      BY UserOfTyped, ManagedTyped
    <3>3. Typed(Do("create", w, UserOf(c), Admin))
      BY <3>2 DEF Do, AccessRequest, RequestKinds, Admin, Typed
    <3> QED
      BY <3>1, <3>3, BeginTyped
  <2>7. ASSUME NEW t \in AccessTasks, DeleteWorkspace(t)
        PROVE  AccessTypeOK'
    <3>1. PICK c \in Credentials, w \in Shared : Begin(t, c, Do("delete", w, UserOf(c), 0))
      BY <2>7 DEF DeleteWorkspace
    <3>2. UserOf(c) \in Users /\ w \in Workspaces
      BY UserOfTyped, ManagedTyped
    <3>3. Typed(Do("delete", w, UserOf(c), 0))
      BY <3>2 DEF Do, AccessRequest, RequestKinds, Admin, Typed
    <3> QED
      BY <3>1, <3>3, BeginTyped
  <2>8. ASSUME NEW t \in AccessTasks, CommitToken(t)
        PROVE  AccessTypeOK'
    <3>1. PICK o \in op[t], k \in Tokens :
            /\ o.kind \in {"token", "scoped token"}
            /\ token' = IF o.kind = "token" \/ RefersTo(o.ws)
                  THEN [token EXCEPT ![k] = [state |-> "live", user |-> o.user, ceiling |-> o.role,
                                             scope |-> IF o.kind = "token" THEN {} ELSE {o.ws}]]
                  ELSE token
            /\ Finish(t) /\ UNCHANGED <<active, exists, role, visibility>>
      BY <2>8 DEF CommitToken
    <3>2. o \in AccessRequest /\ o.role >= Viewer
      BY <3>1 DEF AccessTypeOK
    <3> DEFINE new == [state |-> "live", user |-> o.user, ceiling |-> o.role,
                       scope |-> IF o.kind = "token" THEN {} ELSE {o.ws}]
    <3>3. o.user \in Users /\ o.ws \in Workspaces /\ o.role \in Viewer..Admin
      BY <3>2 DEF AccessRequest, Viewer, Admin
    <3>4. new \in Token
      BY <3>3 DEF Token
    <3>5. token' = token \/ token' = [token EXCEPT ![k] = new]
      BY <3>1
    <3>6. token' \in [Tokens -> Token]
      <4> HIDE DEF new
      <4> QED BY <3>4, <3>5 DEF AccessTypeOK
    <3> QED
      BY <3>1, <3>6 DEF AccessTypeOK, Finish
  <2>9. ASSUME NEW t \in AccessTasks, CommitRevoke(t)
        PROVE  AccessTypeOK'
    <3>1. ASSUME NEW k \in Tokens
          PROVE  [token[k] EXCEPT !.state = "revoked"] \in Token
      BY DEF AccessTypeOK, Token
    <3> QED
      BY <2>9, <3>1 DEF CommitRevoke, AccessTypeOK, Finish
  <2>10. ASSUME NEW t \in AccessTasks, CommitMember(t)
         PROVE  AccessTypeOK'
    <3>1. PICK o \in op[t] :
            /\ role' = IF RefersTo(o.ws) /\ (o.kind = "add" <=> role[o.ws][o.user] = 0)
                         THEN [role EXCEPT ![o.ws][o.user] = o.role] ELSE role
            /\ Finish(t) /\ UNCHANGED <<active, exists, visibility, token>>
      BY <2>10 DEF CommitMember
    <3>2. o \in AccessRequest
      BY DEF AccessTypeOK
    <3> QED
      BY <3>1, <3>2 DEF AccessTypeOK, Finish, AccessRequest
  <2>11. ASSUME NEW t \in AccessTasks, CommitVisibility(t)
         PROVE  AccessTypeOK'
    BY <2>11 DEF CommitVisibility, AccessTypeOK, Finish, AccessRequest
  <2>12. ASSUME NEW t \in AccessTasks, CommitCreate(t)
         PROVE  AccessTypeOK'
    <3>1. PICK o \in op[t] :
            /\ IF o.ws \in exists \/ role[o.ws][o.user] # 0
                 THEN UNCHANGED <<exists, role, visibility>>
                 ELSE /\ exists' = exists \cup {o.ws}
                      /\ role' = [role EXCEPT ![o.ws][o.user] = Admin]
                      /\ visibility' = [visibility EXCEPT ![o.ws] = "all"]
            /\ Finish(t) /\ UNCHANGED <<active, token>>
      BY <2>12 DEF CommitCreate
    <3>2. o.ws \in Workspaces /\ o.user \in Users
      BY DEF AccessTypeOK, AccessRequest
    <3>3. role' \in [Workspaces -> [Users -> 0..Admin]]
      <4>1. Admin \in 0..Admin
        BY DEF Admin
      <4>2. role' = role \/ role' = [role EXCEPT ![o.ws][o.user] = Admin]
        BY <3>1
      <4>3. [role[o.ws] EXCEPT ![o.user] = Admin] \in [Users -> 0..Admin]
        BY <3>2, <4>1 DEF AccessTypeOK
      <4> QED BY <3>2, <4>2, <4>3 DEF AccessTypeOK
    <3>4. visibility' \in [Workspaces -> {"all", "own"}] /\ exists' \subseteq Workspaces
      BY <3>1, <3>2 DEF AccessTypeOK
    <3> QED
      BY <3>1, <3>3, <3>4 DEF AccessTypeOK, Finish
  <2>13. ASSUME NEW t \in AccessTasks, CommitDelete(t)
         PROVE  AccessTypeOK'
    <3>1. ASSUME NEW k \in Tokens
          PROVE  [token[k] EXCEPT !.state = "revoked"] \in Token
      BY DEF AccessTypeOK, Token
    <3>2. token' \in [Tokens -> Token]
      <4>1. PICK o \in op[t] :
              token' = IF Cascades THEN [k \in Tokens |-> IF token[k].scope = {o.ws}
                                                    THEN [token[k] EXCEPT !.state = "revoked"]
                                                    ELSE token[k]]
                       ELSE token
        BY <2>13 DEF CommitDelete
      <4>2. token \in [Tokens -> Token]
        BY DEF AccessTypeOK
      <4> QED BY <3>1, <4>1, <4>2
    <3>3. role' \in [Workspaces -> [Users -> 0..Admin]]
      <4>1. [u \in Users |-> 0] \in [Users -> 0..Admin]
        BY DEF Admin
      <4> QED BY <2>13, <4>1 DEF CommitDelete, AccessTypeOK
    <3>4. exists' \subseteq Workspaces /\ UNCHANGED <<active, visibility>> /\ Finish(t)
      BY <2>13 DEF CommitDelete, AccessTypeOK
    <3> QED
      BY <3>2, <3>3, <3>4 DEF AccessTypeOK, Finish
  <2> QED
    BY <2>0, <2>1, <2>2, <2>3, <2>4, <2>5, <2>6, <2>7, <2>8, <2>9, <2>10, <2>11, <2>12, <2>13
    DEF AccessNext
<1> QED
  BY <1>1, <1>2, PTL DEF AccessSpec
-----------------------------------------------------------------------------
(* The effective role and its cap, in a typed state *)

(* The ceiling of a credential is a role.                                  *)
LEMMA CeilingTyped ==
  ASSUME AccessTypeOK, NEW c \in Credentials
  PROVE  Ceiling(c) \in 1..3
<1>1. CASE c \in Tokens
  BY <1>1 DEF AccessTypeOK, Token, Ceiling, Viewer, Admin
<1>2. CASE c \notin Tokens
  BY <1>2 DEF Ceiling, Admin
<1> QED BY <1>1, <1>2

(* A role in a workspace is a number from 0 to 3.                          *)
LEMMA RoleTyped ==
  ASSUME AccessTypeOK, NEW w \in Workspaces, NEW c \in Credentials
  PROVE  role[w][UserOf(c)] \in 0..3
BY UserOfTyped DEF AccessTypeOK, Admin

(* A request that names a workspace is authorized in that one. *)
LEMMA ActiveIsNamed ==
  ASSUME NEW c, NEW w
  PROVE  ActiveWorkspace(c, {w}) = [ws |-> w, role |-> RoleIn(c, w)]
<1>1. {w} # {} /\ (CHOOSE x \in {w} : TRUE) = w
  OBVIOUS
<1> QED BY <1>1 DEF ActiveWorkspace

(* REST and the streams decide alike in every typed state.                 *)
LEMMA ViewsAgreeWhenTyped == AccessTypeOK => ViewsAgree
<1> SUFFICES ASSUME AccessTypeOK, NEW c \in Credentials, NEW run \in Runs
             PROVE  /\ Streams(c, run) <=> Reads(c, run)
                    /\ Lists(c, run) => Reads(c, run)
  BY DEF ViewsAgree
<1>1. run.ws \in Workspaces
  BY AccessAssumption
<1> DEFINE r == role[run.ws][UserOf(c)]
           k == Ceiling(c)
<1>2. r \in 0..3 /\ k \in 1..3
  BY <1>1, RoleTyped, CeilingTyped
<1>3. ActiveWorkspace(c, {run.ws}).role = RoleIn(c, run.ws)
  <2>1. ActiveWorkspace(c, {run.ws}) = [ws |-> run.ws, role |-> RoleIn(c, run.ws)]
    BY ActiveIsNamed
  <2> QED BY <2>1
<1>4. RoleIn(c, run.ws) =
        IF run.ws \notin exists \/ OutOfScope(c, run.ws) THEN 0
        ELSE IF IsGlobalAdmin(c) THEN k ELSE IF r > k THEN k ELSE r
  <2> HIDE DEF r, k
  <2>1. RoleIn(c, run.ws) = IF run.ws \notin exists \/ OutOfScope(c, run.ws) THEN 0
          ELSE Capped(IF IsGlobalAdmin(c) THEN Admin ELSE r, c)
    BY DEF RoleIn, r
  <2>2. \A x : Capped(x, c) = IF x > k THEN k ELSE x
    BY DEF Capped, k
  <2>3. Capped(Admin, c) = k
    BY <1>2, <2>2 DEF Admin
  <2> QED BY <2>1, <2>2, <2>3
<1>5. Capped(r, c) = IF r > k THEN k ELSE r
  BY DEF Capped
<1>6. Streams(c, run) <=>
        /\ Authenticated(c) /\ run.ws \in exists /\ ~OutOfScope(c, run.ws)
        /\ \/ IsGlobalAdmin(c)
           \/ /\ r # 0
              /\ ~(visibility[run.ws] = "own" /\ (IF r > k THEN k ELSE r) < 3 /\ OthersRun(c, run))
  BY <1>5 DEF Streams, Admin
<1>7. Reads(c, run) <=>
        /\ Authenticated(c) /\ RoleIn(c, run.ws) >= 1
        /\ ~(/\ visibility[run.ws] = "own" /\ RoleIn(c, run.ws) < 3 /\ ~IsGlobalAdmin(c)
             /\ OthersRun(c, run))
  BY <1>3 DEF Reads, Viewer, Admin
<1>8. Lists(c, run) <=>
        /\ Authenticated(c) /\ RoleIn(c, run.ws) >= 1
        /\ (visibility[run.ws] = "own" /\ RoleIn(c, run.ws) < 3 /\ ~IsGlobalAdmin(c)) =>
             UserOf(c) \in run.by
  BY <1>3 DEF Lists, Viewer, Admin
<1>9. Streams(c, run) <=> Reads(c, run)
  <2> HIDE DEF r, k
  <2> QED BY <1>2, <1>4, <1>6, <1>7
<1>10. Lists(c, run) => Reads(c, run)
  BY <1>7, <1>8 DEF OthersRun
<1> QED BY <1>9, <1>10

(* The streams, the reads and the listings let the same credentials see    *)
(* the same runs, whatever roles, scopes and ceilings there are.           *)
THEOREM SpecViewsAgree == AccessSpec => []ViewsAgree
BY AccessTyped, ViewsAgreeWhenTyped, PTL

(* Tokens are confined in every typed state.                               *)
LEMMA TokenConfinedWhenTyped == AccessTypeOK => TokenConfined
<1> SUFFICES ASSUME AccessTypeOK, NEW k \in Tokens
             PROVE  /\ \A w \in Workspaces :
                         /\ RoleIn(k, w) <= token[k].ceiling
                         /\ RoleIn(k, w) <= RoleIn(token[k].user, w)
                         /\ RoleIn(k, w) # 0 /\ token[k].scope # {} => token[k].scope = {w}
                    /\ LET ctx == ActiveWorkspace(k, {}) IN
                         /\ ctx.role <= token[k].ceiling
                         /\ token[k].scope # {} => token[k].scope = {ctx.ws}
  BY DEF TokenConfined
<1> DEFINE u == token[k].user
           s == token[k].scope
           cap == token[k].ceiling
<1>1. u \in Users /\ cap \in 1..3 /\ (s = {} \/ \E w \in Workspaces : s = {w})
  <2>1. token[k] \in Token
    BY DEF AccessTypeOK
  <2>2. s \in {{}} \cup {{w} : w \in Workspaces} /\ cap \in Viewer..Admin /\ u \in Users
    BY <2>1 DEF Token
  <2>3. cap \in 1..3
    BY <2>2 DEF Viewer, Admin
  <2>4. s = {} \/ \E w \in Workspaces : s = {w}
    <3> HIDE DEF s
    <3> QED BY <2>2
  <2> QED BY <2>2, <2>3, <2>4
<1>2. k \in Credentials /\ u \in Credentials /\ u \notin Tokens
  BY <1>1, AccessAssumption DEF Credentials
<1>3. UserOf(k) = u /\ UserOf(u) = u /\ Ceiling(k) = cap /\ Ceiling(u) = 3 /\ Scope(k) = s /\ Scope(u) = {}
  BY <1>2 DEF UserOf, Ceiling, Scope, Admin
<1>4. IsGlobalAdmin(k) <=> IsGlobalAdmin(u)
  BY <1>3 DEF IsGlobalAdmin
<1> HIDE DEF u, s, cap
<1>5. ASSUME NEW w \in Workspaces
      PROVE  /\ RoleIn(k, w) \in 0..cap /\ RoleIn(k, w) <= RoleIn(u, w)
             /\ RoleIn(k, w) # 0 /\ s # {} => s = {w}
  <2> DEFINE r == IF IsGlobalAdmin(u) THEN 3 ELSE role[w][u]
  <2>1. r \in 0..3
    <3>1. role[w][u] \in 0..3
      BY <1>1 DEF AccessTypeOK, Admin
    <3> QED BY <3>1
  <2>2. RoleIn(k, w) = IF w \notin exists \/ (s # {} /\ w \notin s) THEN 0
                       ELSE IF r > cap THEN cap ELSE r
    BY <1>3, <1>4 DEF RoleIn, OutOfScope, Capped, Admin
  <2>3. RoleIn(u, w) = IF w \notin exists THEN 0 ELSE r
    <3>1. Capped(r, u) = r
      <4> HIDE DEF r
      <4> QED BY <1>3, <2>1 DEF Capped
    <3>2. RoleIn(u, w) = IF w \notin exists THEN 0 ELSE Capped(r, u)
      BY <1>3 DEF RoleIn, OutOfScope, Admin
    <3> QED BY <3>1, <3>2
  <2> HIDE DEF r
  <2>4. RoleIn(k, w) \in 0..cap /\ RoleIn(k, w) <= RoleIn(u, w)
    BY <1>1, <2>1, <2>2, <2>3
  <2>5. RoleIn(k, w) # 0 /\ s # {} => w \in s
    BY <2>2
  <2> QED BY <1>1, <2>4, <2>5
<1>6. ASSUME NEW ctx, ctx = ActiveWorkspace(k, {})
      PROVE  ctx.role <= cap /\ (s # {} => s = {ctx.ws})
  <2>1. CASE s = {}
    <3>1. ctx.role = Capped(Admin, k)
      BY <1>3, <1>6, <2>1 DEF ActiveWorkspace
    <3> QED BY <1>1, <1>3, <2>1, <3>1 DEF Capped, Admin
  <2>2. ASSUME NEW w \in Workspaces, s = {w}
        PROVE  ctx.role <= cap /\ s = {ctx.ws}
    <3>1. (CHOOSE x \in s : TRUE) = w /\ s # {}
      BY <2>2
    <3>2. ctx = [ws |-> w, role |-> RoleIn(k, w)]
      BY <1>3, <1>6, <3>1 DEF ActiveWorkspace
    <3>3. RoleIn(k, w) <= cap
      BY <1>1, <1>5
    <3> QED BY <2>2, <3>2, <3>3
  <2> QED BY <1>1, <2>1, <2>2
<1>7. \A w \in Workspaces : RoleIn(k, w) <= cap
  BY <1>1, <1>5
<1> QED BY <1>5, <1>6, <1>7 DEF u, s, cap

(* No sequence of requests makes a token good for more than its owner, its *)
(* ceiling and its scope allow, for any number of tokens and workspaces.   *)
THEOREM SpecTokenConfined == AccessSpec => []TokenConfined
BY AccessTyped, TokenConfinedWhenTyped, PTL
-----------------------------------------------------------------------------
(* No row names a workspace that is gone.                                  *)
Clean == \A w \in Workspaces \ exists :
  /\ \A u \in Users : role[w][u] = 0
  /\ \A k \in Tokens : token[k].state = "live" => token[k].scope # {w}

(* Workspaces that are added leave the others clean.                       *)
LEMMA CleanUnchanged ==
  ASSUME Clean, exists \subseteq exists', UNCHANGED <<role, token>>
  PROVE  Clean'
BY DEF Clean

(* With foreign keys enforced, no interleaving of requests leaves a role   *)
(* or a live token for a workspace that is gone: it is inductive, since a  *)
(* commit that inserts a row finds the workspace or fails.                 *)
THEOREM SpecNothingOutlives == AccessSpec => []NothingOutlivesWorkspace
<1>1. AccessInit /\ Cascades => Clean
  BY DEF AccessInit, Clean, NoToken, Workspaces
<1>2. ASSUME AccessTypeOK, Cascades, Clean, [AccessNext]_accessVars
      PROVE  Clean'
  <2>0. CASE UNCHANGED accessVars
    BY <1>2, <2>0, CleanUnchanged DEF accessVars
  <2>1. CASE SetUserActive
    BY <1>2, <2>1, CleanUnchanged DEF SetUserActive
  <2>2. ASSUME NEW t \in AccessTasks, NEW c, NEW o, Begin(t, c, o)
        PROVE  Clean'
    BY <1>2, <2>2, CleanUnchanged DEF Begin
  <2>3. ASSUME NEW t \in AccessTasks,
               \/ CreateToken(t) \/ RevokeToken(t) \/ ChangeMember(t)
               \/ SetVisibility(t) \/ CreateWorkspace(t) \/ DeleteWorkspace(t)
        PROVE  Clean'
    <3>1. \E c, o : Begin(t, c, o)
      BY <2>3 DEF CreateToken, RevokeToken, ChangeMember, SetVisibility, CreateWorkspace, DeleteWorkspace
    <3> QED BY <2>2, <3>1
  <2>4. ASSUME NEW t \in AccessTasks, CommitToken(t)
        PROVE  Clean'
    <3>1. PICK o \in op[t], k \in Tokens :
            /\ token' = IF o.kind = "token" \/ RefersTo(o.ws)
                  THEN [token EXCEPT ![k] = [state |-> "live", user |-> o.user, ceiling |-> o.role,
                                             scope |-> IF o.kind = "token" THEN {} ELSE {o.ws}]]
                  ELSE token
            /\ UNCHANGED <<exists, role>>
      BY <2>4 DEF CommitToken
    <3>2. CASE o.kind = "token" \/ o.ws \in exists
      <4>1. ASSUME NEW w \in Workspaces \ exists, NEW x \in Tokens, token'[x].state = "live"
            PROVE  token'[x].scope # {w}
        <5>1. CASE x # k
          BY <1>2, <3>1, <4>1, <5>1 DEF Clean, AccessTypeOK
        <5>2. CASE x = k
          <6>1. token' # token => token'[k].scope = IF o.kind = "token" THEN {} ELSE {o.ws}
            BY <1>2, <3>1 DEF AccessTypeOK
          <6> QED BY <1>2, <3>2, <4>1, <5>2, <6>1 DEF Clean
        <5> QED BY <5>1, <5>2
      <4> QED BY <1>2, <3>1, <4>1 DEF Clean
    <3>3. CASE ~(o.kind = "token" \/ o.ws \in exists)
      BY <1>2, <3>1, <3>3, CleanUnchanged DEF RefersTo
    <3> QED BY <3>2, <3>3
  <2>5. ASSUME NEW t \in AccessTasks, CommitRevoke(t)
        PROVE  Clean'
    <3>1. \A k \in Tokens : token'[k].state = "live" => token'[k] = token[k]
      BY <1>2, <2>5 DEF CommitRevoke, AccessTypeOK, Token
    <3> QED BY <1>2, <2>5, <3>1 DEF Clean, CommitRevoke
  <2>6. ASSUME NEW t \in AccessTasks, CommitMember(t)
        PROVE  Clean'
    <3>1. PICK o \in op[t] :
            /\ role' = IF RefersTo(o.ws) /\ (o.kind = "add" <=> role[o.ws][o.user] = 0)
                         THEN [role EXCEPT ![o.ws][o.user] = o.role] ELSE role
            /\ UNCHANGED <<exists, token>>
      BY <2>6 DEF CommitMember
    <3>2. ASSUME NEW w \in Workspaces \ exists
          PROVE  role'[w] = role[w]
      BY <1>2, <3>1 DEF RefersTo, AccessTypeOK
    <3> QED BY <1>2, <3>1, <3>2 DEF Clean
  <2>7. ASSUME NEW t \in AccessTasks, CommitVisibility(t)
        PROVE  Clean'
    BY <1>2, <2>7, CleanUnchanged DEF CommitVisibility
  <2>8. ASSUME NEW t \in AccessTasks, CommitCreate(t)
        PROVE  Clean'
    <3>1. PICK o \in op[t] :
            /\ \/ UNCHANGED <<exists, role>>
               \/ exists' = exists \cup {o.ws} /\ role' = [role EXCEPT ![o.ws][o.user] = Admin]
            /\ UNCHANGED token
      BY <2>8 DEF CommitCreate
    <3>2. ASSUME NEW w \in Workspaces \ exists'
          PROVE  role'[w] = role[w] /\ w \in Workspaces \ exists
      BY <1>2, <3>1 DEF AccessTypeOK
    <3> QED BY <1>2, <3>1, <3>2 DEF Clean
  <2>9. ASSUME NEW t \in AccessTasks, CommitDelete(t)
        PROVE  Clean'
    <3>1. PICK o \in op[t] :
            /\ exists' = exists \ {o.ws}
            /\ role' = [role EXCEPT ![o.ws] = [u \in Users |-> 0]]
            /\ token' = [k \in Tokens |-> IF token[k].scope = {o.ws}
                                            THEN [token[k] EXCEPT !.state = "revoked"]
                                            ELSE token[k]]
      BY <1>2, <2>9 DEF CommitDelete
    <3>2. ASSUME NEW w \in Workspaces \ exists', NEW u \in Users
          PROVE  role'[w][u] = 0
      BY <1>2, <3>1 DEF AccessTypeOK, Clean
    <3>3. ASSUME NEW w \in Workspaces \ exists', NEW k \in Tokens, token'[k].state = "live"
          PROVE  token'[k].scope # {w}
      <4>1. token[k].scope # {o.ws} /\ token'[k] = token[k]
        BY <1>2, <3>1, <3>3 DEF AccessTypeOK, Token
      <4> QED BY <1>2, <3>1, <3>3, <4>1 DEF Clean
    <3> QED BY <3>2, <3>3 DEF Clean
  <2> QED
    BY <1>2, <2>0, <2>1, <2>3, <2>4, <2>5, <2>6, <2>7, <2>8, <2>9 DEF AccessNext
<1>3. (Cascades => Clean) => NothingOutlivesWorkspace
  BY DEF Clean, NothingOutlivesWorkspace
<1>4. AccessSpec => [](Cascades => Clean)
  <2>1. AccessInit => (Cascades => Clean)
    BY <1>1
  <2>2. AccessTypeOK /\ (Cascades => Clean) /\ [AccessNext]_accessVars => (Cascades => Clean)'
    BY <1>2
  <2> QED BY <2>1, <2>2, AccessTyped, PTL DEF AccessSpec
<1> QED BY <1>3, <1>4, PTL
-----------------------------------------------------------------------------
(* Accounts *)

(* A request that is about to deactivate somebody else was made by an      *)
(* admin, who still is one unless the request was overtaken.               *)
ActorStands(r) ==
  (r.kind = "deactivate" /\ ~r.overtaken) => MayAdminister(r.actor) /\ r.actor # r.subject

ActorsStand == \A t \in AccountTasks : \A r \in request[t] : ActorStands(r)

(* An OIDC state that is not used up has no request and no session; one    *)
(* that a request carries has no session, and no other request has it.     *)
Carries(t, x) == \E r \in request[t] : x \in r.state

StatesSpent ==
  /\ \A t \in AccountTasks : \A q, r \in request[t] : q = r
  /\ \A x \in OidcStates : sessions[x] <= 1
  /\ \A x \in OidcStates, t \in AccountTasks :
       Carries(t, x) => sessions[x] = 0 /\ oidc[x] = "used"
  /\ \A x \in OidcStates : oidc[x] \in {"none", "issued"} => sessions[x] = 0
  /\ \A x \in OidcStates : \A t, u \in AccountTasks : Carries(t, x) /\ Carries(u, x) => t = u

(* The account of ensure_bootstrap_admin is never removed.                 *)
BootstrapStays == account[BootstrapName].row

AccountsInv ==
  AccountsTypeOK /\ OneHome /\ AdminRemains /\ ActorsStand /\ StatesSpent /\ BootstrapStays

(* The bootstrap admin is there from the start.                            *)
LEMMA AccountsInitInv == AccountsInit => AccountsInv
<1> SUFFICES ASSUME AccountsInit PROVE AccountsInv
  OBVIOUS
<1> USE AccountsAssumption
<1>1. BootstrapName \in Subjects
  BY DEF Subjects
<1>2. AccountsTypeOK
  BY DEF AccountsInit, AccountsTypeOK, Provisioned, NoAccount
<1>3. OneHome
  BY DEF AccountsInit, OneHome, Provisioned, NoAccount
<1>4. MayAdminister(BootstrapName)
  BY <1>1 DEF AccountsInit, MayAdminister, Provisioned
<1>5. AdminRemains
  BY <1>1, <1>4 DEF AdminRemains
<1>6. ActorsStand
  BY DEF AccountsInit, ActorsStand
<1>7. StatesSpent
  BY DEF AccountsInit, StatesSpent, Carries
<1>8. BootstrapStays
  BY <1>1 DEF AccountsInit, BootstrapStays, Provisioned
<1> QED BY <1>2, <1>3, <1>5, <1>6, <1>7, <1>8 DEF AccountsInv
-----------------------------------------------------------------------------
(* What the read of a request leaves true.                                 *)
LEMMA EnterKeeps ==
  ASSUME AccountsInv, NEW t \in AccountTasks, NEW r \in AccountRequest, Enter(t, r),
         ActorStands(r), UNCHANGED <<account, oidc, sessions, raced>>, r.state = {}
  PROVE  AccountsInv'
<1>1. /\ request[t] = {}
      /\ DOMAIN request = AccountTasks /\ DOMAIN request' = AccountTasks
      /\ request'[t] = {r} /\ \A u \in AccountTasks \ {t} : request'[u] = request[u]
  BY DEF Enter, AccountsInv, AccountsTypeOK
<1>2. AccountsTypeOK'
  <2>1. \A u \in AccountTasks : request'[u] \subseteq AccountRequest
    BY <1>1 DEF AccountsInv, AccountsTypeOK
  <2> QED BY <1>1, <2>1 DEF AccountsInv, AccountsTypeOK
<1>3. OneHome' /\ AdminRemains' /\ BootstrapStays'
  BY DEF AccountsInv, OneHome, AdminRemains, MayAdminister, BootstrapStays
<1>4. ActorsStand'
  BY <1>1 DEF AccountsInv, ActorsStand, ActorStands, MayAdminister
<1>5. StatesSpent'
  BY <1>1 DEF AccountsInv, StatesSpent, Carries
<1> QED BY <1>2, <1>3, <1>4, <1>5 DEF AccountsInv

(* A task that ends a request leaves those of the others.                  *)
LEMMA LeaveRequests ==
  ASSUME AccountsTypeOK, NEW t \in AccountTasks, Leave(t)
  PROVE  /\ DOMAIN request = AccountTasks /\ DOMAIN request' = AccountTasks
         /\ request'[t] = {} /\ \A u \in AccountTasks \ {t} : request'[u] = request[u]
BY DEF Leave, AccountsTypeOK

(* A transaction that creates an account, if it is not there by then.      *)
LEMMA CreateKeeps ==
  ASSUME AccountsInv, NEW t \in AccountTasks, NEW r \in request[t], Leave(t), UNCHANGED raced,
         account' = IF Creates(r) THEN [account EXCEPT ![r.subject] = Created(r)] ELSE account
  PROVE  /\ account' \in [Subjects -> [row : BOOLEAN, admin : BOOLEAN, active : BOOLEAN, homes : Nat]]
         /\ OneHome' /\ AdminRemains' /\ ActorsStand' /\ BootstrapStays'
         /\ DOMAIN request' = AccountTasks
         /\ \A u \in AccountTasks : request'[u] \subseteq AccountRequest
<1>1. /\ DOMAIN request = AccountTasks /\ DOMAIN request' = AccountTasks
      /\ request'[t] = {} /\ \A u \in AccountTasks \ {t} : request'[u] = request[u]
  BY LeaveRequests DEF AccountsInv
<1>2. r \in AccountRequest
  BY DEF AccountsInv, AccountsTypeOK
<1>3. r.subject \in Subjects /\ r.admin \in BOOLEAN
  BY <1>2 DEF AccountRequest
<1>4. \A u \in AccountTasks : request'[u] \subseteq AccountRequest /\ request'[u] \subseteq request[u]
  BY <1>1 DEF AccountsInv, AccountsTypeOK
<1>5. CASE ~Creates(r)
  <2>1. account' = account
    BY <1>5
  <2>2. OneHome' /\ AdminRemains' /\ BootstrapStays'
    BY <2>1 DEF AccountsInv, OneHome, AdminRemains, MayAdminister, BootstrapStays
  <2>3. ActorsStand'
    BY <2>1, <1>4 DEF AccountsInv, ActorsStand, ActorStands, MayAdminister
  <2> QED BY <1>1, <1>4, <2>1, <2>2, <2>3 DEF AccountsInv, AccountsTypeOK
<1>6. CASE Creates(r)
  <2> DEFINE s == r.subject
             new == Created(r)
  <2>1. account[s] \in [row : BOOLEAN, admin : BOOLEAN, active : BOOLEAN, homes : Nat]
    BY <1>3 DEF AccountsInv, AccountsTypeOK
  <2>2. ~account[s].row /\ account[s].homes = 0
    BY <1>3, <1>6 DEF Creates, AccountsInv, OneHome
  <2>3. /\ new \in [row : BOOLEAN, admin : BOOLEAN, active : BOOLEAN, homes : Nat]
        /\ new.row /\ new.homes = 1
    BY <1>3, <2>1, <2>2 DEF Created
  <2>4. account' = [account EXCEPT ![s] = new]
    BY <1>6
  <2>5. s \in Subjects /\ DOMAIN account = Subjects
    BY <1>3 DEF AccountsInv, AccountsTypeOK
  <2> HIDE DEF s, new
  <2>6. account'[s] = new /\ \A u \in Subjects \ {s} : account'[u] = account[u]
    BY <2>4, <2>5
  <2>7. account' \in [Subjects -> [row : BOOLEAN, admin : BOOLEAN, active : BOOLEAN, homes : Nat]]
    BY <2>3, <2>4, <2>5 DEF AccountsInv, AccountsTypeOK
  <2>8. OneHome'
    BY <2>3, <2>6, <2>5 DEF AccountsInv, OneHome
  <2>9. \A u \in Subjects : MayAdminister(u) => MayAdminister(u)'
    BY <2>2, <2>6, <2>5 DEF MayAdminister
  <2>10. AdminRemains'
    BY <2>9 DEF AccountsInv, AdminRemains
  <2>11. ActorsStand'
    <3>1. \A u \in AccountTasks : \A q \in request[u] : q.actor \in Subjects
      BY DEF AccountsInv, AccountsTypeOK, AccountRequest
    <3> QED BY <3>1, <1>4, <2>9 DEF AccountsInv, ActorsStand, ActorStands
  <2>12. BootstrapStays'
    BY <2>3, <2>4, <2>5, <2>6, AccountsAssumption DEF AccountsInv, BootstrapStays, Subjects
  <2> QED BY <1>1, <1>4, <2>7, <2>8, <2>10, <2>11, <2>12
<1> QED BY <1>5, <1>6

(* Requests that end keep the accounting of the states, if the session of  *)
(* a state is the one that its request was carrying.                       *)
LEMMA LeaveKeepsStates ==
  ASSUME AccountsInv, NEW t \in AccountTasks, Leave(t), UNCHANGED <<oidc, sessions>>
  PROVE  StatesSpent'
<1>1. /\ DOMAIN request = AccountTasks /\ DOMAIN request' = AccountTasks
      /\ request'[t] = {} /\ \A u \in AccountTasks \ {t} : request'[u] = request[u]
  BY LeaveRequests DEF AccountsInv
<1> QED BY <1>1 DEF AccountsInv, StatesSpent, Carries
-----------------------------------------------------------------------------
(* The OIDC code flow.                                                     *)
LEMMA FlowKeeps ==
  ASSUME AccountsInv, OidcLogin \/ ExpireState
  PROVE  AccountsInv'
<1>1. PICK x \in OidcStates :
        /\ UNCHANGED <<account, sessions, request, raced>>
        /\ \/ oidc[x] = "none" /\ sessions[x] = 0 /\ oidc' = [oidc EXCEPT ![x] = "issued"]
           \/ oidc[x] = "issued" /\ oidc' = [oidc EXCEPT ![x] = "used"]
  BY DEF OidcLogin, ExpireState
<1>2. AccountsTypeOK'
  BY <1>1 DEF AccountsInv, AccountsTypeOK
<1>3. OneHome' /\ AdminRemains' /\ ActorsStand' /\ BootstrapStays'
  BY <1>1 DEF AccountsInv, OneHome, AdminRemains, ActorsStand, ActorStands, MayAdminister, BootstrapStays
<1>4. StatesSpent'
  BY <1>1 DEF AccountsInv, AccountsTypeOK, StatesSpent, Carries
<1> QED BY <1>2, <1>3, <1>4 DEF AccountsInv

(* The callback spends the state before it awaits anything.                *)
LEMMA CallbackKeeps == ASSUME AccountsInv, NEW t \in AccountTasks, Callback(t) PROVE AccountsInv'
<1>1. PICK x \in OidcStates, s \in Sso :
        /\ oidc[x] = "issued" /\ Enter(t, [Ask("exchange", s) EXCEPT !.state = {x}])
        /\ oidc' = [oidc EXCEPT ![x] = "used"] /\ UNCHANGED <<account, sessions, raced>>
  BY DEF Callback
<1> DEFINE r == [Ask("exchange", s) EXCEPT !.state = {x}]
<1>2. s \in Subjects /\ account[s].row \in BOOLEAN
  BY <1>1 DEF Subjects, AccountsInv, AccountsTypeOK
<1>3. r \in AccountRequest /\ r.kind = "exchange" /\ r.state = {x}
  BY <1>1, <1>2 DEF Ask, AccountRequest
<1> HIDE DEF r
<1>4. /\ request[t] = {}
      /\ DOMAIN request = AccountTasks /\ DOMAIN request' = AccountTasks
      /\ request'[t] = {r} /\ \A u \in AccountTasks \ {t} : request'[u] = request[u]
  BY <1>1 DEF Enter, AccountsInv, AccountsTypeOK, r
<1>5. AccountsTypeOK'
  <2>1. \A u \in AccountTasks : request'[u] \subseteq AccountRequest
    BY <1>3, <1>4 DEF AccountsInv, AccountsTypeOK
  <2> QED BY <1>1, <1>4, <2>1 DEF AccountsInv, AccountsTypeOK
<1>6. OneHome' /\ AdminRemains' /\ BootstrapStays'
  BY <1>1 DEF AccountsInv, OneHome, AdminRemains, MayAdminister, BootstrapStays
<1>7. ActorsStand'
  BY <1>1, <1>3, <1>4 DEF AccountsInv, ActorsStand, ActorStands, MayAdminister
<1>8. StatesSpent'
  <2>1. \A y \in OidcStates : oidc'[y] = IF y = x THEN "used" ELSE oidc[y]
    BY <1>1 DEF AccountsInv, AccountsTypeOK
  <2>2. sessions[x] = 0 /\ \A u \in AccountTasks : ~Carries(u, x)
    BY <1>1 DEF AccountsInv, StatesSpent
  <2>3. \A u \in AccountTasks, y \in OidcStates : Carries(u, y)' <=> (Carries(u, y) \/ (u = t /\ y = x))
    BY <1>3, <1>4, <2>2 DEF Carries
  <2>4. \A u \in AccountTasks : \A q, v \in request'[u] : q = v
    BY <1>4 DEF AccountsInv, StatesSpent
  <2> QED BY <1>1, <2>1, <2>2, <2>3, <2>4 DEF AccountsInv, StatesSpent
<1> QED BY <1>5, <1>6, <1>7, <1>8 DEF AccountsInv

(* The request carries its state on, or drops it.                          *)
LEMMA ExchangeKeeps == ASSUME AccountsInv, NEW t \in AccountTasks, Exchange(t) PROVE AccountsInv'
<1>1. PICK r \in request[t] :
        /\ r.kind = "exchange"
        /\ \/ Leave(t)
           \/ request' = [request EXCEPT ![t] =
                {[r EXCEPT !.kind = "provision", !.found = account[r.subject].row]}]
        /\ UNCHANGED <<account, oidc, sessions, raced>>
  BY DEF Exchange
<1>2. OneHome' /\ AdminRemains' /\ BootstrapStays'
  BY <1>1 DEF AccountsInv, OneHome, AdminRemains, MayAdminister, BootstrapStays
<1>3. CASE Leave(t)
  <2>1. /\ DOMAIN request = AccountTasks /\ DOMAIN request' = AccountTasks
        /\ request'[t] = {} /\ \A u \in AccountTasks \ {t} : request'[u] = request[u]
    BY <1>3, LeaveRequests DEF AccountsInv
  <2>2. AccountsTypeOK'
    <3>1. \A u \in AccountTasks : request'[u] \subseteq AccountRequest
      BY <2>1 DEF AccountsInv, AccountsTypeOK
    <3> QED BY <1>1, <2>1, <3>1 DEF AccountsInv, AccountsTypeOK
  <2>3. ActorsStand'
    BY <1>1, <2>1 DEF AccountsInv, ActorsStand, ActorStands, MayAdminister
  <2>4. StatesSpent'
    BY <1>1, <1>3, LeaveKeepsStates
  <2> QED BY <1>2, <2>2, <2>3, <2>4 DEF AccountsInv
<1>4. CASE ~Leave(t)
  <2> DEFINE n == [r EXCEPT !.kind = "provision", !.found = account[r.subject].row]
  <2>1. r \in AccountRequest
    BY <1>1 DEF AccountsInv, AccountsTypeOK
  <2>2. r.subject \in Subjects /\ account[r.subject].row \in BOOLEAN
    BY <2>1 DEF AccountRequest, AccountsInv, AccountsTypeOK
  <2>3. n \in AccountRequest /\ n.kind = "provision" /\ n.state = r.state
    BY <2>1, <2>2 DEF AccountRequest
  <2>4. /\ DOMAIN request = AccountTasks /\ DOMAIN request' = AccountTasks
        /\ request'[t] = {n} /\ \A u \in AccountTasks \ {t} : request'[u] = request[u]
    BY <1>1, <1>4 DEF AccountsInv, AccountsTypeOK
  <2> HIDE DEF n
  <2>5. AccountsTypeOK'
    <3>1. \A u \in AccountTasks : request'[u] \subseteq AccountRequest
      BY <2>3, <2>4 DEF AccountsInv, AccountsTypeOK
    <3> QED BY <1>1, <2>4, <3>1 DEF AccountsInv, AccountsTypeOK
  <2>6. ActorsStand'
    BY <1>1, <2>3, <2>4 DEF AccountsInv, ActorsStand, ActorStands, MayAdminister
  <2>7. StatesSpent'
    <3>1. \A u \in AccountTasks, x \in OidcStates : Carries(u, x)' => Carries(u, x)
      BY <1>1, <2>3, <2>4 DEF Carries
    <3>2. \A u \in AccountTasks : \A q, v \in request'[u] : q = v
      BY <2>4 DEF AccountsInv, StatesSpent
    <3> QED BY <1>1, <3>1, <3>2 DEF AccountsInv, StatesSpent
  <2> QED BY <1>2, <2>5, <2>6, <2>7 DEF AccountsInv
<1> QED BY <1>3, <1>4

(* The session uses up the state that the request carried.                 *)
LEMMA ProvisionKeeps == ASSUME AccountsInv, NEW t \in AccountTasks, Provision(t) PROVE AccountsInv'
<1>1. PICK r \in request[t] :
        /\ account' = IF Creates(r) THEN [account EXCEPT ![r.subject] = Created(r)] ELSE account
        /\ sessions' = [x \in OidcStates |-> IF x \in r.state /\ (r.found \/ Creates(r))
                                               THEN sessions[x] + 1 ELSE sessions[x]]
        /\ Leave(t) /\ UNCHANGED <<oidc, raced>>
  BY DEF Provision
<1>2. /\ account' \in [Subjects -> [row : BOOLEAN, admin : BOOLEAN, active : BOOLEAN, homes : Nat]]
      /\ OneHome' /\ AdminRemains' /\ ActorsStand' /\ BootstrapStays'
      /\ DOMAIN request' = AccountTasks
      /\ \A u \in AccountTasks : request'[u] \subseteq AccountRequest
  BY <1>1, CreateKeeps
<1>3. /\ DOMAIN request = AccountTasks
      /\ request'[t] = {} /\ \A u \in AccountTasks \ {t} : request'[u] = request[u]
  BY <1>1, LeaveRequests DEF AccountsInv
<1>4. sessions \in [OidcStates -> Nat] /\ sessions' \in [OidcStates -> Nat]
  BY <1>1 DEF AccountsInv, AccountsTypeOK
<1>5. AccountsTypeOK'
  BY <1>1, <1>2, <1>4 DEF AccountsInv, AccountsTypeOK
<1>6. \A x \in OidcStates : \/ sessions'[x] = sessions[x]
                            \/ Carries(t, x) /\ sessions'[x] = sessions[x] + 1
  BY <1>1 DEF Carries
<1>7. \A u \in AccountTasks, x \in OidcStates : Carries(u, x)' <=> (u # t /\ Carries(u, x))
  BY <1>3 DEF Carries
<1>8. StatesSpent'
  <2>1. \A u \in AccountTasks : \A q, v \in request'[u] : q = v
    BY <1>3 DEF AccountsInv, StatesSpent
  <2>2. \A x \in OidcStates : sessions'[x] <= 1
    BY <1>4, <1>6 DEF AccountsInv, StatesSpent
  <2>3. \A x \in OidcStates, u \in AccountTasks :
          Carries(u, x)' => sessions'[x] = 0 /\ oidc'[x] = "used"
    BY <1>1, <1>6, <1>7 DEF AccountsInv, StatesSpent
  <2>4. \A x \in OidcStates : oidc'[x] \in {"none", "issued"} => sessions'[x] = 0
    BY <1>1, <1>6 DEF AccountsInv, StatesSpent
  <2>5. \A x \in OidcStates : \A u, v \in AccountTasks : Carries(u, x)' /\ Carries(v, x)' => u = v
    BY <1>7 DEF AccountsInv, StatesSpent
  <2> QED BY <2>1, <2>2, <2>3, <2>4, <2>5 DEF StatesSpent
<1> QED BY <1>2, <1>5, <1>8 DEF AccountsInv
-----------------------------------------------------------------------------
(* Administration: the requests as they are read.                          *)
LEMMA AskKeeps ==
  ASSUME AccountsInv, NEW t \in AccountTasks, CreateLocalUser(t) \/ SetActive(t)
  PROVE  AccountsInv'
<1>1. CASE CreateLocalUser(t)
  <2>1. PICK a \in Subjects, s \in Subjects, admin \in BOOLEAN :
          /\ Enter(t, [Ask("create", s) EXCEPT !.actor = a, !.admin = admin])
          /\ UNCHANGED <<account, oidc, sessions, raced>>
    BY <1>1 DEF CreateLocalUser
  <2> DEFINE r == [Ask("create", s) EXCEPT !.actor = a, !.admin = admin]
  <2>2. account[s].row \in BOOLEAN
    BY DEF AccountsInv, AccountsTypeOK
  <2>3. r \in AccountRequest /\ r.kind = "create" /\ r.state = {}
    BY <2>2 DEF Ask, AccountRequest
  <2>4. ActorStands(r)
    BY <2>3 DEF ActorStands
  <2> HIDE DEF r
  <2> QED BY <2>1, <2>3, <2>4, EnterKeeps DEF r
<1>2. CASE SetActive(t)
  <2>1. PICK a \in Subjects, s \in Subjects, on \in BOOLEAN :
          /\ MayAdminister(a) /\ (on \/ s # a)
          /\ Enter(t, [Ask(IF on THEN "activate" ELSE "deactivate", s) EXCEPT !.actor = a])
          /\ UNCHANGED <<account, oidc, sessions, raced>>
    BY <1>2 DEF SetActive
  <2> DEFINE r == [Ask(IF on THEN "activate" ELSE "deactivate", s) EXCEPT !.actor = a]
  <2>2. account[s].row \in BOOLEAN
    BY DEF AccountsInv, AccountsTypeOK
  <2>3. /\ r \in AccountRequest /\ r.state = {} /\ r.actor = a /\ r.subject = s
        /\ r.kind = IF on THEN "activate" ELSE "deactivate"
    BY <2>2 DEF Ask, AccountRequest
  <2>4. ActorStands(r)
    BY <2>1, <2>3 DEF ActorStands
  <2> HIDE DEF r
  <2> QED BY <2>1, <2>3, <2>4, EnterKeeps DEF r
<1> QED BY <1>1, <1>2

(* The commit of a new local user.                                         *)
LEMMA CommitLocalKeeps ==
  ASSUME AccountsInv, NEW t \in AccountTasks, CommitLocalUser(t)
  PROVE  AccountsInv'
<1>1. PICK r \in request[t] :
        /\ account' = IF Creates(r) THEN [account EXCEPT ![r.subject] = Created(r)] ELSE account
        /\ Leave(t) /\ UNCHANGED <<oidc, sessions, raced>>
  BY DEF CommitLocalUser
<1>2. /\ account' \in [Subjects -> [row : BOOLEAN, admin : BOOLEAN, active : BOOLEAN, homes : Nat]]
      /\ OneHome' /\ AdminRemains' /\ ActorsStand' /\ BootstrapStays'
      /\ DOMAIN request' = AccountTasks
      /\ \A u \in AccountTasks : request'[u] \subseteq AccountRequest
  BY <1>1, CreateKeeps
<1>3. AccountsTypeOK'
  BY <1>1, <1>2 DEF AccountsInv, AccountsTypeOK
<1>4. StatesSpent'
  BY <1>1, LeaveKeepsStates
<1> QED BY <1>2, <1>3, <1>4 DEF AccountsInv

(* Activation takes nobody's rights.                                       *)
LEMMA ActivateKeeps ==
  ASSUME AccountsInv, NEW t \in AccountTasks, NEW r \in request[t],
         account' = [account EXCEPT ![r.subject].active = TRUE], Leave(t),
         UNCHANGED <<oidc, sessions, raced>>
  PROVE  AccountsInv'
<1>1. r.subject \in Subjects
  BY DEF AccountsInv, AccountsTypeOK, AccountRequest
<1>2. /\ DOMAIN request = AccountTasks /\ DOMAIN request' = AccountTasks
      /\ request'[t] = {} /\ \A u \in AccountTasks \ {t} : request'[u] = request[u]
  BY LeaveRequests DEF AccountsInv
<1>3. /\ account' \in [Subjects -> [row : BOOLEAN, admin : BOOLEAN, active : BOOLEAN, homes : Nat]]
      /\ \A u \in Subjects : /\ account'[u].row = account[u].row /\ account'[u].admin = account[u].admin
                             /\ account'[u].homes = account[u].homes
                             /\ account[u].active => account'[u].active
  BY <1>1 DEF AccountsInv, AccountsTypeOK
<1>4. AccountsTypeOK'
  <2>1. \A u \in AccountTasks : request'[u] \subseteq AccountRequest
    BY <1>2 DEF AccountsInv, AccountsTypeOK
  <2> QED BY <1>2, <1>3, <2>1 DEF AccountsInv, AccountsTypeOK
<1>5. OneHome' /\ BootstrapStays'
  BY <1>3, AccountsAssumption DEF AccountsInv, OneHome, BootstrapStays, Subjects
<1>6. \A u \in Subjects : MayAdminister(u) => MayAdminister(u)'
  BY <1>3 DEF MayAdminister
<1>7. AdminRemains'
  BY <1>6 DEF AccountsInv, AdminRemains
<1>8. ActorsStand'
  <2>1. \A u \in AccountTasks : \A q \in request[u] : q.actor \in Subjects
    BY DEF AccountsInv, AccountsTypeOK, AccountRequest
  <2> QED BY <1>2, <1>6, <2>1 DEF AccountsInv, ActorsStand, ActorStands
<1>9. StatesSpent'
  BY LeaveKeepsStates
<1> QED BY <1>4, <1>5, <1>7, <1>8, <1>9 DEF AccountsInv

(* A deactivation that was not overtaken leaves the admin who asked for    *)
(* it; one that was is a race.  The requests of the one who is deactivated *)
(* are overtaken from now on.                                              *)
LEMMA DeactivateKeeps ==
  ASSUME AccountsInv, NEW t \in AccountTasks, NEW r \in request[t], r.kind = "deactivate",
         account' = [account EXCEPT ![r.subject].active = FALSE],
         request' = [Overtaken(r.subject) EXCEPT ![t] = {}], raced' = (raced \/ r.overtaken),
         UNCHANGED <<oidc, sessions>>
  PROVE  AccountsInv'
<1> DEFINE s == r.subject
           Mark(q) == IF q.actor = s THEN [q EXCEPT !.overtaken = TRUE] ELSE q
<1>1. s \in Subjects /\ r.actor \in Subjects /\ r.overtaken \in BOOLEAN
  BY DEF AccountsInv, AccountsTypeOK, AccountRequest
<1>2. /\ DOMAIN request' = AccountTasks /\ request'[t] = {}
      /\ \A u \in AccountTasks \ {t} : request'[u] = {Mark(q) : q \in request[u]}
  BY DEF Overtaken
<1>3. \A q \in AccountRequest :
        /\ Mark(q) \in AccountRequest /\ Mark(q).kind = q.kind /\ Mark(q).subject = q.subject
        /\ Mark(q).actor = q.actor /\ Mark(q).state = q.state
        /\ Mark(q).overtaken = (q.overtaken \/ q.actor = s)
  BY DEF AccountRequest
<1>4. \A u \in AccountTasks : request[u] \subseteq AccountRequest
  BY DEF AccountsInv, AccountsTypeOK
<1>5. /\ account' \in [Subjects -> [row : BOOLEAN, admin : BOOLEAN, active : BOOLEAN, homes : Nat]]
      /\ \A u \in Subjects : account'[u].row = account[u].row /\ account'[u].homes = account[u].homes
      /\ \A u \in Subjects \ {s} : account'[u] = account[u]
  BY <1>1 DEF AccountsInv, AccountsTypeOK
<1> HIDE DEF s, Mark
<1>6. AccountsTypeOK'
  <2>1. \A u \in AccountTasks : request'[u] \subseteq AccountRequest
    BY <1>2, <1>3, <1>4
  <2>2. raced' \in BOOLEAN
    BY <1>1 DEF AccountsInv, AccountsTypeOK
  <2> QED BY <1>2, <1>5, <2>1, <2>2 DEF AccountsInv, AccountsTypeOK
<1>7. OneHome' /\ BootstrapStays'
  BY <1>5, AccountsAssumption DEF AccountsInv, OneHome, BootstrapStays, Subjects
<1>8. \A u \in Subjects \ {s} : MayAdminister(u) => MayAdminister(u)'
  BY <1>5 DEF MayAdminister
<1>9. AdminRemains'
  <2>1. CASE r.overtaken
    BY <2>1 DEF AdminRemains
  <2>2. CASE ~r.overtaken
    <3>1. MayAdminister(r.actor) /\ r.actor # s
      BY <2>2 DEF AccountsInv, ActorsStand, ActorStands, s
    <3>2. MayAdminister(r.actor)'
      BY <1>1, <1>8, <3>1
    <3>3. \E u \in Subjects : MayAdminister(u)'
      BY <1>1, <3>2
    <3> QED BY <3>3 DEF AdminRemains
  <2> QED BY <2>1, <2>2
<1>10. ActorsStand'
  <2> SUFFICES ASSUME NEW u \in AccountTasks, NEW q \in request'[u],
                      q.kind = "deactivate", ~q.overtaken
               PROVE  MayAdminister(q.actor)' /\ q.actor # q.subject
    BY DEF ActorsStand, ActorStands
  <2>1. u # t
    BY <1>2
  <2>2. PICK p \in request[u] : q = Mark(p)
    BY <1>2, <2>1
  <2>3. p \in AccountRequest /\ p.actor \in Subjects
    BY <1>4 DEF AccountRequest
  <2>4. p.kind = "deactivate" /\ ~p.overtaken /\ p.actor # s /\ q.actor = p.actor /\ q.subject = p.subject
    BY <1>3, <2>2, <2>3
  <2>5. MayAdminister(p.actor) /\ p.actor # p.subject
    BY <2>4 DEF AccountsInv, ActorsStand, ActorStands
  <2>6. MayAdminister(p.actor)'
    BY <1>8, <2>3, <2>4, <2>5
  <2> QED BY <2>4, <2>5, <2>6
<1>11. StatesSpent'
  <2>1. \A u \in AccountTasks, x \in OidcStates : Carries(u, x)' => Carries(u, x)
    <3> SUFFICES ASSUME NEW u \in AccountTasks, NEW x \in OidcStates, NEW q \in request'[u], x \in q.state
                 PROVE  Carries(u, x)
      BY DEF Carries
    <3>1. u # t
      BY <1>2
    <3>2. PICK p \in request[u] : q = Mark(p)
      BY <1>2, <3>1
    <3>3. p.state = q.state
      BY <1>3, <1>4, <3>2
    <3> QED BY <3>2, <3>3 DEF Carries
  <2>2. \A u \in AccountTasks : \A q, v \in request'[u] : q = v
    <3>1. \A u \in AccountTasks : \A q, v \in request[u] : q = v
      BY DEF AccountsInv, StatesSpent
    <3> QED BY <1>2, <3>1
  <2> QED BY <2>1, <2>2 DEF AccountsInv, StatesSpent
<1> QED BY <1>6, <1>7, <1>9, <1>10, <1>11 DEF AccountsInv

(* A restart drops what is under way and brings the break-glass account    *)
(* back.                                                                   *)
LEMMA RestartKeeps == ASSUME AccountsInv, Restart PROVE AccountsInv'
<1> USE AccountsAssumption
<1>1. BootstrapName \in Subjects
  BY DEF Subjects
<1>2. /\ account' \in [Subjects -> [row : BOOLEAN, admin : BOOLEAN, active : BOOLEAN, homes : Nat]]
      /\ \A u \in Subjects : account'[u].row = account[u].row /\ account'[u].homes = account[u].homes
      /\ account'[BootstrapName].admin /\ account'[BootstrapName].active
  BY <1>1 DEF Restart, AccountsInv, AccountsTypeOK
<1>3. oidc' \in [OidcStates -> {"none", "issued", "used"}]
  BY DEF Restart, AccountsInv, AccountsTypeOK
<1>4. AccountsTypeOK'
  BY <1>2, <1>3 DEF Restart, AccountsInv, AccountsTypeOK
<1>5. OneHome'
  BY <1>2 DEF AccountsInv, OneHome
<1>6. MayAdminister(BootstrapName)'
  BY <1>1, <1>2 DEF AccountsInv, BootstrapStays, MayAdminister
<1>7. AdminRemains'
  BY <1>1, <1>6 DEF AdminRemains
<1>8. ActorsStand'
  BY DEF Restart, ActorsStand
<1>9. StatesSpent'
  <2>1. \A u \in AccountTasks, x \in OidcStates : ~Carries(u, x)'
    BY DEF Restart, Carries
  <2>2. \A u \in AccountTasks : request'[u] = {}
    BY DEF Restart
  <2>3. \A x \in OidcStates : oidc'[x] \in {"none", "issued"} => oidc[x] = "none"
    BY DEF Restart, AccountsInv, AccountsTypeOK
  <2> QED BY <2>1, <2>2, <2>3 DEF Restart, AccountsInv, StatesSpent
<1>10. BootstrapStays'
  BY <1>1, <1>2 DEF AccountsInv, BootstrapStays
<1> QED BY <1>4, <1>5, <1>7, <1>8, <1>9, <1>10 DEF AccountsInv

(* Each step of the code flow and of the administration keeps the          *)
(* invariant.                                                              *)
LEMMA AccountsStep == ASSUME AccountsInv, [AccountsNext]_accountVars PROVE AccountsInv'
<1>1. CASE OidcLogin \/ ExpireState
  BY <1>1, FlowKeeps
<1>2. CASE Restart
  BY <1>2, RestartKeeps
<1>3. ASSUME NEW t \in AccountTasks, Callback(t) \/ Exchange(t) \/ Provision(t)
      PROVE  AccountsInv'
  BY <1>3, CallbackKeeps, ExchangeKeeps, ProvisionKeeps
<1>4. ASSUME NEW t \in AccountTasks, CreateLocalUser(t) \/ SetActive(t) \/ CommitLocalUser(t)
      PROVE  AccountsInv'
  BY <1>4, AskKeeps, CommitLocalKeeps
<1>5. ASSUME NEW t \in AccountTasks, CommitActive(t) PROVE AccountsInv'
  <2>1. PICK r \in request[t] :
          /\ \/ /\ r.kind = "activate"
                /\ account' = [account EXCEPT ![r.subject].active = TRUE]
                /\ Leave(t) /\ UNCHANGED raced
             \/ /\ r.kind = "deactivate"
                /\ account' = [account EXCEPT ![r.subject].active = FALSE]
                /\ request' = [Overtaken(r.subject) EXCEPT ![t] = {}]
                /\ raced' = (raced \/ r.overtaken)
          /\ UNCHANGED <<oidc, sessions>>
    BY <1>5 DEF CommitActive
  <2> QED BY <2>1, ActivateKeeps, DeactivateKeeps
<1>6. CASE UNCHANGED accountVars
  <2>1. AccountsTypeOK' /\ BootstrapStays'
    BY <1>6 DEF AccountsInv, AccountsTypeOK, BootstrapStays, accountVars
  <2>2. OneHome' /\ AdminRemains' /\ ActorsStand'
    BY <1>6 DEF AccountsInv, OneHome, AdminRemains, ActorsStand, ActorStands, MayAdminister, accountVars
  <2>3. StatesSpent'
    BY <1>6 DEF AccountsInv, StatesSpent, Carries, accountVars
  <2> QED BY <2>1, <2>2, <2>3 DEF AccountsInv
<1> QED BY <1>1, <1>2, <1>3, <1>4, <1>5, <1>6 DEF AccountsNext

(* The inductive invariant of Accounts.                                    *)
THEOREM AccountsInvariance == AccountsSpec => []AccountsInv
BY AccountsInitInv, AccountsStep, PTL DEF AccountsSpec

(* First logins and creations of one user may overlap in any number: the   *)
(* account and its personal workspace are created together, once           *)
(* (provisioning.py, ensure_personal_workspace).                           *)
THEOREM SpecOneHome == AccountsSpec => []OneHome
<1>1. AccountsInv => OneHome
  BY DEF AccountsInv
<1> QED BY <1>1, AccountsInvariance, PTL

(* However often and whenever the callback of an OIDC state is delivered,  *)
(* it is good for one session (api/auth.py, oidc_callback).                *)
THEOREM SpecStateUsedOnce == AccountsSpec => []StateUsedOnce
<1>1. AccountsInv => StateUsedOnce
  BY DEF AccountsInv, StatesSpent, StateUsedOnce
<1> QED BY <1>1, AccountsInvariance, PTL

(* There is an active global admin whatever requests overlap, unless one   *)
(* was deactivated between its check and its commit (api/admin.py,         *)
(* set_user_active).                                                       *)
THEOREM SpecAdminRemains == AccountsSpec => []AdminRemains
<1>1. AccountsInv => AdminRemains
  BY DEF AccountsInv
<1> QED BY <1>1, AccountsInvariance, PTL
-----------------------------------------------------------------------------
(* GuardedFetch *)

(* The limit of the caller, as FetchBounded counts it.                     *)
Limit == IF caller = "api" THEN MaxRedirects
         ELSE IF policy.redirects THEN SessionRedirects ELSE 0

(* What the validation established is still true when the connection is    *)
(* made, though the name is resolved again.                                *)
Validated ==
  pc = "connect" =>
    /\ url.host \in LocalHosts => policy.private
    /\ \A a \in pin : Allowed(a)
    /\ pin = {} => caller = "worker" \/ url.scheme = "https" \/ url.host \in LocalHosts

(* A peer that is not known to be allowed still has to prove its name.     *)
PeerChecked == pc = "answer" => url.scheme = "https" \/ \A a \in peer : Allowed(a)

Counted ==
  /\ hops <= Limit + 1
  /\ pc \in {"validate", "connect"} => hops <= Limit
  /\ pc \in {"read", "done"} => read <= MaxChunks

FetchInv == FetchTypeOK /\ Validated /\ PeerChecked /\ HeardFromAllowed /\ Counted

(* The first request of a fetch has been neither validated nor counted.    *)
LEMMA FetchInitInv == FetchInit => FetchInv
<1> SUFFICES ASSUME FetchInit PROVE FetchInv
  OBVIOUS
<1>1. FetchTypeOK
  BY DEF FetchInit, FetchTypeOK
<1>2. Validated /\ PeerChecked /\ HeardFromAllowed
  BY DEF FetchInit, Validated, PeerChecked, HeardFromAllowed
<1>3. Limit \in Nat
  BY FetchAssumption DEF FetchInit, Limit
<1>4. Counted
  BY <1>3 DEF FetchInit, Counted
<1> QED BY <1>1, <1>2, <1>4 DEF FetchInv

(* Giving up keeps what was heard and counted.                             *)
LEMMA GiveUpKeeps == ASSUME FetchInv, GiveUp PROVE FetchInv'
<1>1. FetchTypeOK'
  BY DEF FetchInv, FetchTypeOK, GiveUp
<1>2. Validated' /\ PeerChecked' /\ HeardFromAllowed'
  BY DEF FetchInv, GiveUp, Validated, PeerChecked, HeardFromAllowed, Allowed
<1>3. Counted'
  BY DEF FetchInv, GiveUp, Counted, Limit
<1> QED BY <1>1, <1>2, <1>3 DEF FetchInv

(* A connection is made only after every address found passed, and over    *)
(* plain http only to one of those.                                        *)
LEMMA ValidateKeeps == ASSUME FetchInv, Validate PROVE FetchInv'
<1>1. PICK found \in Resolves(url.host) :
        IF Permitted(found)
          THEN /\ pin' = Pinned(found) /\ pc' = "connect"
               /\ UNCHANGED <<policy, caller, url, peer, hops, read, heard>>
          ELSE GiveUp
  BY DEF Validate
<1>2. CASE ~Permitted(found)
  BY <1>1, <1>2, GiveUpKeeps
<1>3. CASE Permitted(found)
  <2>1. /\ pin' = Pinned(found) /\ pc' = "connect" /\ pc = "validate"
        /\ UNCHANGED <<policy, caller, url, peer, hops, read, heard>>
    BY <1>1, <1>3 DEF Validate
  <2>2. found \subseteq Addresses
    BY <1>1 DEF Resolves, Addresses
  <2>3. /\ url.host \in LocalHosts => policy.private
        /\ url.host \notin LocalHosts => found # {} /\ \A a \in found : Allowed(a)
        /\ url.scheme # "other"
    BY <1>3 DEF Permitted
  <2>4. Pinned(found) \subseteq found /\ \A a \in Pinned(found) : Allowed(a)
    <3>1. CASE caller = "api" /\ url.scheme = "http" /\ url.host \notin LocalHosts
      <4>1. Pinned(found) = {CHOOSE a \in found : TRUE}
        BY <3>1 DEF Pinned
      <4>2. (CHOOSE a \in found : TRUE) \in found
        BY <2>3, <3>1
      <4> QED BY <4>1, <4>2, <2>3, <3>1
    <3>2. CASE ~(caller = "api" /\ url.scheme = "http" /\ url.host \notin LocalHosts)
      <4>1. Pinned(found) = {}
        BY <3>2 DEF Pinned
      <4> QED BY <4>1
    <3> QED BY <3>1, <3>2
  <2>5. Pinned(found) = {} => caller = "worker" \/ url.scheme = "https" \/ url.host \in LocalHosts
    <3>1. caller \in {"api", "worker"} /\ url.scheme \in {"http", "https", "other"}
      BY DEF FetchInv, FetchTypeOK, Urls
    <3> QED BY <3>1, <2>3 DEF Pinned
  <2>6. FetchTypeOK'
    BY <2>1, <2>2, <2>4 DEF FetchInv, FetchTypeOK
  <2>7. Validated'
    BY <2>1, <2>3, <2>4, <2>5 DEF Validated, Allowed
  <2>8. PeerChecked' /\ HeardFromAllowed'
    BY <2>1 DEF FetchInv, PeerChecked, HeardFromAllowed, Allowed
  <2>9. Counted'
    BY <2>1 DEF FetchInv, Counted, Limit
  <2> QED BY <2>6, <2>7, <2>8, <2>9 DEF FetchInv
<1> QED BY <1>2, <1>3

(* The second resolution: the pin, the worker's resolver and localhost     *)
(* yield allowed addresses only; what is left is https.                    *)
LEMMA ConnectKeeps == ASSUME FetchInv, Connect PROVE FetchInv'
<1>1. PICK found \in Resolves(url.host) :
        LET targets == IF pin # {} THEN pin ELSE Reachable(found) IN
          IF targets = {} THEN GiveUp
          ELSE \E a \in targets :
                 /\ peer' = {a} /\ hops' = hops + 1 /\ pc' = "answer"
                 /\ UNCHANGED <<policy, caller, url, pin, read, heard>>
  BY DEF Connect
<1> DEFINE targets == IF pin # {} THEN pin ELSE Reachable(found)
<1>2. CASE targets = {}
  BY <1>1, <1>2, GiveUpKeeps
<1>3. CASE targets # {}
  <2>1. PICK a \in targets :
          /\ peer' = {a} /\ hops' = hops + 1 /\ pc' = "answer"
          /\ UNCHANGED <<policy, caller, url, pin, read, heard>>
    BY <1>1, <1>3
  <2>2. found \subseteq Addresses /\ (url.host \in LocalHosts => found \subseteq Private)
    BY <1>1 DEF Resolves, Addresses
  <2>3. pc = "connect"
    BY DEF Connect
  <2>4. a \in Addresses
    BY <2>1, <2>2 DEF FetchInv, FetchTypeOK, Reachable
  <2>5. url.scheme = "https" \/ Allowed(a)
    <3>1. CASE pin # {}
      BY <3>1, <2>1, <2>3 DEF FetchInv, Validated
    <3>2. CASE pin = {} /\ caller = "worker"
      BY <3>2, <2>1 DEF Reachable
    <3>3. CASE pin = {} /\ caller # "worker"
      <4>1. a \in found
        BY <3>3, <2>1 DEF Reachable
      <4>2. url.scheme = "https" \/ url.host \in LocalHosts
        BY <3>3, <2>3 DEF FetchInv, Validated
      <4>3. url.host \in LocalHosts => policy.private
        BY <2>3 DEF FetchInv, Validated
      <4> QED BY <4>1, <4>2, <4>3, <2>2 DEF Allowed
    <3> QED BY <3>1, <3>2, <3>3
  <2> HIDE DEF targets
  <2>6. FetchTypeOK'
    BY <2>1, <2>4 DEF FetchInv, FetchTypeOK
  <2>7. Validated' /\ HeardFromAllowed'
    BY <2>1 DEF FetchInv, Validated, HeardFromAllowed, Allowed
  <2>8. PeerChecked'
    BY <2>1, <2>5 DEF PeerChecked, Allowed
  <2>9. Counted'
    <3>1. hops \in Nat /\ hops <= Limit
      BY <2>3 DEF FetchInv, FetchTypeOK, Counted
    <3>2. Limit' = Limit /\ Limit \in Nat
      BY <2>1, FetchAssumption DEF Limit
    <3> QED BY <3>1, <3>2, <2>1 DEF Counted
  <2> QED BY <2>6, <2>7, <2>8, <2>9 DEF FetchInv
<1> QED BY <1>2, <1>3

(* An answer that is used, a redirect among them, comes after the TLS      *)
(* handshake, if there is one.                                             *)
LEMMA HeardAllowed ==
  ASSUME FetchInv, pc = "answer", Handshake
  PROVE  \A a \in heard \cup peer : Allowed(a)
<1>1. \A a \in heard : Allowed(a)
  BY DEF FetchInv, HeardFromAllowed
<1>2. \A a \in peer : Allowed(a)
  BY DEF FetchInv, PeerChecked, Handshake
<1> QED BY <1>1, <1>2

(* A redirect is followed only within the limit.                           *)
LEMMA RedirectedKeeps == ASSUME FetchInv, Redirected PROVE FetchInv'
<1>1. FetchTypeOK'
  BY DEF FetchInv, FetchTypeOK, Redirected
<1>2. Validated' /\ PeerChecked'
  BY DEF Redirected, Validated, PeerChecked
<1>3. HeardFromAllowed'
  BY HeardAllowed DEF Redirected, HeardFromAllowed, Allowed
<1>4. Counted'
  <2>1. hops \in Nat /\ hops <= Limit
    BY DEF FetchInv, FetchTypeOK, Redirected, MayFollow, Limit
  <2>2. Limit' = Limit /\ Limit \in Nat
    BY FetchAssumption DEF Redirected, Limit
  <2> QED BY <2>1, <2>2 DEF Counted, Redirected
<1> QED BY <1>1, <1>2, <1>3, <1>4 DEF FetchInv

(* A body starts with nothing read.                                        *)
LEMMA AnsweredKeeps == ASSUME FetchInv, Answered PROVE FetchInv'
<1>1. FetchTypeOK'
  BY DEF FetchInv, FetchTypeOK, Answered
<1>2. Validated' /\ PeerChecked'
  BY DEF Answered, Validated, PeerChecked
<1>3. HeardFromAllowed'
  BY HeardAllowed DEF Answered, HeardFromAllowed, Allowed
<1>4. Counted'
  BY FetchAssumption DEF FetchInv, Counted, Answered, Limit
<1> QED BY <1>1, <1>2, <1>3, <1>4 DEF FetchInv

(* A chunk beyond the limit ends the fetch.                                *)
LEMMA ChunkKeeps == ASSUME FetchInv, Chunk PROVE FetchInv'
<1>1. FetchTypeOK'
  BY DEF FetchInv, FetchTypeOK, Chunk
<1>2. Validated' /\ PeerChecked' /\ HeardFromAllowed'
  BY DEF FetchInv, Chunk, Validated, PeerChecked, HeardFromAllowed, Allowed
<1>3. Counted'
  <2>1. hops' = hops /\ Limit' = Limit /\ hops <= Limit + 1
    BY DEF FetchInv, Counted, Chunk, Limit
  <2>2. read' \in Nat /\ (pc' = "failed" \/ (pc' = "read" /\ read' <= MaxChunks))
    BY <1>1, FetchAssumption DEF Chunk, FetchTypeOK
  <2> QED BY <2>1, <2>2 DEF Counted
<1> QED BY <1>1, <1>2, <1>3 DEF FetchInv

(* The end of the body changes neither peer nor counts.                    *)
LEMMA EndOfBodyKeeps == ASSUME FetchInv, EndOfBody PROVE FetchInv'
<1>1. FetchTypeOK'
  BY DEF FetchInv, FetchTypeOK, EndOfBody
<1>2. Validated' /\ PeerChecked' /\ HeardFromAllowed'
  BY DEF FetchInv, EndOfBody, Validated, PeerChecked, HeardFromAllowed, Allowed
<1>3. Counted'
  BY DEF FetchInv, EndOfBody, Counted, Limit
<1> QED BY <1>1, <1>2, <1>3 DEF FetchInv

(* Nothing happens.                                                        *)
LEMMA StutterKeeps == ASSUME FetchInv, UNCHANGED fetchVars PROVE FetchInv'
<1>1. FetchTypeOK'
  BY DEF FetchInv, FetchTypeOK, fetchVars
<1>2. Validated' /\ PeerChecked' /\ HeardFromAllowed'
  BY DEF FetchInv, fetchVars, Validated, PeerChecked, HeardFromAllowed, Allowed
<1>3. Counted'
  BY DEF FetchInv, fetchVars, Counted, Limit
<1> QED BY <1>1, <1>2, <1>3 DEF FetchInv

(* Each step of a fetch keeps the invariant.                               *)
LEMMA FetchStep == ASSUME FetchInv, [FetchNext]_fetchVars PROVE FetchInv'
<1>1. CASE Validate
  BY <1>1, ValidateKeeps
<1>2. CASE Connect
  BY <1>2, ConnectKeeps
<1>3. CASE Redirected
  BY <1>3, RedirectedKeeps
<1>4. CASE AnswerFails \/ ReadFails
  BY <1>4, GiveUpKeeps DEF AnswerFails, ReadFails
<1>5. CASE Answered
  BY <1>5, AnsweredKeeps
<1>6. CASE Chunk
  BY <1>6, ChunkKeeps
<1>7. CASE EndOfBody
  BY <1>7, EndOfBodyKeeps
<1>8. CASE UNCHANGED fetchVars
  BY <1>8, StutterKeeps
<1> QED BY <1>1, <1>2, <1>3, <1>4, <1>5, <1>6, <1>7, <1>8 DEF FetchNext

(* Every state of a fetch is typed.                                        *)
THEOREM FetchTyped == FetchSpec => []FetchTypeOK
<1>1. FetchInv => FetchTypeOK
  BY DEF FetchInv
<1> QED BY <1>1, FetchInitInv, FetchStep, PTL DEF FetchSpec

(* Whatever names resolve to at the two resolutions of a request, and      *)
(* wherever redirects lead, guarded_fetch and the worker's patched         *)
(* requests use no answer from an address that the policy forbids, send at *)
(* most one request more than the limit of redirects, and hand on no body  *)
(* beyond max_bytes, whatever the limits are.                              *)
THEOREM SpecFetchGuarded == FetchSpec => []FetchGuarded
<1>1. FetchInv => FetchBounded
  BY FetchAssumption DEF FetchInv, Counted, Limit, FetchBounded, FetchTypeOK
<1>2. FetchInv => FetchGuarded
  BY <1>1 DEF FetchInv, FetchGuarded
<1> QED BY <1>2, FetchInitInv, FetchStep, PTL DEF FetchSpec
-----------------------------------------------------------------------------
(* Library *)

(* A transaction, by the request that opened it. *)
Stored == [id : Nat, ws : Spaces, key : Fingerprints \cup Names]

Transaction ==
  [kind : {"import", "add", "update", "delete"}, ws : Spaces, bundle : Seq(Fingerprints), done : Nat,
   adds : SUBSET Stored, target : SUBSET Nat, name : SUBSET Names,
   lost : SUBSET (Fingerprints \cup Names), overtaken : BOOLEAN]

WellFormed(j) ==
  /\ j.kind # "import" => j.bundle = <<>>
  /\ j.kind \in {"import", "add"} => j.target = {}
  /\ j.kind \in {"update", "delete"} => j.adds = {}
  /\ j.kind = "update" => j.name # {}

LibraryType ==
  /\ rows \in SUBSET Stored /\ nextId \in Nat
  /\ DOMAIN job = LibraryTasks
  /\ job \in [LibraryTasks -> SUBSET Transaction]
  /\ \A t \in LibraryTasks : \A j \in job[t] : WellFormed(j)

(* An id names one row, committed or not, and what a transaction is to     *)
(* change or remove is no row that is still to be committed.               *)
IdsInv ==
  /\ \A a, b \in rows : a.id = b.id => a = b
  /\ \A r \in rows : r.id < nextId
  /\ \A t \in LibraryTasks : \A j \in job[t] : \A a \in j.adds :
       a.id < nextId /\ \A r \in rows : r.id # a.id
  /\ \A t, u \in LibraryTasks : \A j \in job[t], k \in job[u] : \A a \in j.adds, b \in k.adds :
       a.id = b.id => t = u /\ a = b
  /\ \A t, u \in LibraryTasks : \A j \in job[t], k \in job[u] : \A x \in j.target :
       x < nextId /\ \A a \in k.adds : a.id # x

(* The keys of the committed rows are unique; a transaction that no commit *)
(* has overtaken keeps them so; one that renames has a profile to rename.  *)
KeysInv ==
  /\ \A a, b \in rows : SameKey(a, b) => a.id = b.id
  /\ \A t \in LibraryTasks : \A j \in job[t] : j.overtaken = FALSE => ~Raises(j)
  /\ \A t \in LibraryTasks : \A j \in job[t] :
       j.kind = "update" => \A r \in rows : r.id \in j.target => r.key \in Names

(* What an import is through with. *)
Through(j) ==
  \A i \in 1..Len(j.bundle) : i <= j.done =>
    \/ \E r \in rows \cup j.adds : r.ws = j.ws /\ r.key = j.bundle[i]
    \/ j.bundle[i] \in j.lost

BundleInv == \A t \in LibraryTasks : \A j \in job[t] : Through(j)

LibraryInv == LibraryType /\ IdsInv /\ KeysInv /\ BundleInv

(* What a commit leaves, kind by kind. *)
LEMMA OutcomeFacts ==
  ASSUME NEW j \in Transaction
  PROVE  /\ j.kind \in {"import", "add"} => Outcome(j) = rows \cup j.adds
         /\ j.kind = "delete" => Outcome(j) = rows \ Targets(j)
         /\ j.kind = "update" => Outcome(j) = (rows \ Targets(j)) \cup Renamed(j)
         /\ j.kind \in {"import", "add", "update", "delete"}
<1>1. j.kind \in {"import", "add", "update", "delete"}
  BY DEF Transaction
<1>2. QED
  BY <1>1 DEF Outcome

(* While the tables stand still, so does what a commit would do. *)
LEMMA StillOutcome ==
  ASSUME UNCHANGED rows, NEW j
  PROVE  Outcome(j)' = Outcome(j) /\ Raises(j)' = Raises(j) /\ Through(j)' = Through(j)
BY DEF Outcome, Targets, Renamed, Raises, Through, SameKey

(* A request opens its transaction or goes on with it.                      *)
LEMMA OwnStep ==
  ASSUME LibraryInv, NEW t \in LibraryTasks, NEW k \in Transaction, WellFormed(k),
         job' = [job EXCEPT ![t] = {k}], UNCHANGED rows, nextId' \in {nextId, nextId + 1},
         \A a \in k.adds : (a.id = nextId /\ nextId' = nextId + 1) \/ \E j \in job[t] : a \in j.adds,
         \A a, b \in k.adds : a.id = nextId /\ b.id = nextId => a = b,
         \A x \in k.target : \E r \in rows : r.id = x,
         k.overtaken = FALSE => ~Raises(k),
         k.kind = "update" => \A r \in rows : r.id \in k.target => r.key \in Names,
         Through(k)
  PROVE  LibraryInv'
<1>T. LibraryType /\ IdsInv /\ KeysInv /\ BundleInv
  BY DEF LibraryInv
<1>1. \A u \in LibraryTasks : job'[u] = IF u = t THEN {k} ELSE job[u]
  BY <1>T DEF LibraryType
<1>2. nextId \in Nat /\ nextId' \in Nat /\ nextId <= nextId'
  BY <1>T DEF LibraryType
<1>3. LibraryType'
  <2>1. job' \in [LibraryTasks -> SUBSET Transaction] /\ DOMAIN job' = LibraryTasks
    BY <1>T DEF LibraryType
  <2>2. \A u \in LibraryTasks : \A j \in job'[u] : WellFormed(j)
    BY <1>T, <1>1 DEF LibraryType
  <2>3. QED
    BY <1>T, <1>2, <2>1, <2>2 DEF LibraryType
<1>4. \A r \in rows : r.id \in Nat /\ r.id < nextId
  BY <1>T DEF LibraryType, IdsInv, Stored
<1>5. \A a \in k.adds : a.id \in Nat
  BY DEF Transaction, Stored
<1>6. \A u \in LibraryTasks : \A j \in job[u] : \A a \in j.adds : a.id \in Nat /\ a.id < nextId
  <2> SUFFICES ASSUME NEW u \in LibraryTasks, NEW j \in job[u], NEW a \in j.adds
               PROVE  a.id \in Nat /\ a.id < nextId
    OBVIOUS
  <2>1. j \in Transaction
    BY <1>T DEF LibraryType
  <2>2. QED
    BY <1>T, <2>1 DEF Transaction, Stored, IdsInv
<1>7. IdsInv'
  <2>1. \A r \in rows : r.id < nextId'
    BY <1>2, <1>4
  <2>2. ASSUME NEW u \in LibraryTasks, NEW j \in job'[u], NEW a \in j.adds
        PROVE  a.id < nextId' /\ \A r \in rows : r.id # a.id
    <3>1. CASE \E m \in job[u] : a \in m.adds
      BY <1>T, <1>2, <1>6, <3>1 DEF IdsInv
    <3>2. CASE a.id = nextId /\ nextId' = nextId + 1
      BY <1>2, <1>4, <3>2
    <3>3. QED
      BY <1>1, <2>2, <3>1, <3>2
  <2>3. ASSUME NEW u \in LibraryTasks, NEW v \in LibraryTasks, NEW j \in job'[u], NEW m \in job'[v],
               NEW a \in j.adds, NEW b \in m.adds, a.id = b.id
        PROVE  u = v /\ a = b
    <3>1. (a.id = nextId /\ u = t /\ a \in k.adds) \/ \E p \in job[u] : a \in p.adds
      BY <1>1, <2>3
    <3>2. (b.id = nextId /\ v = t /\ b \in k.adds) \/ \E p \in job[v] : b \in p.adds
      BY <1>1, <2>3
    <3>3. CASE a.id = nextId
      <4>1. \A x \in LibraryTasks : \A p \in job[x] : \A c \in p.adds : c.id # nextId
        BY <1>2, <1>6
      <4>2. u = t /\ a \in k.adds /\ v = t /\ b \in k.adds /\ b.id = nextId
        BY <2>3, <3>1, <3>2, <3>3, <4>1
      <4>3. QED
        BY <3>3, <4>2
    <3>4. CASE a.id # nextId
      <4>1. PICK p \in job[u] : a \in p.adds
        BY <3>1, <3>4
      <4>2. PICK q \in job[v] : b \in q.adds
        BY <2>3, <3>2, <3>4
      <4>3. QED
        BY <1>T, <2>3, <4>1, <4>2 DEF IdsInv
    <3>5. QED
      BY <3>3, <3>4
  <2>4. ASSUME NEW u \in LibraryTasks, NEW v \in LibraryTasks, NEW j \in job'[u], NEW m \in job'[v],
               NEW x \in j.target
        PROVE  x < nextId' /\ \A a \in m.adds : a.id # x
    <3>1. (\E p \in job[u] : x \in p.target) \/ \E r \in rows : r.id = x
      BY <1>1
    <3>2. CASE \E r \in rows : r.id = x
      BY <1>2, <1>4, <2>2, <3>2
    <3>3. CASE \E p \in job[u] : x \in p.target
      <4>1. PICK p \in job[u] : x \in p.target
        BY <3>3
      <4>2. p \in Transaction
        BY <1>T DEF LibraryType
      <4>3. x \in Nat
        BY <4>1, <4>2 DEF Transaction
      <4>4. x < nextId
        BY <1>T, <4>1 DEF IdsInv
      <4>5. ASSUME NEW a \in m.adds PROVE a.id # x
        <5>1. a.id = nextId \/ \E q \in job[v] : a \in q.adds
          BY <1>1
        <5>2. CASE a.id = nextId
          BY <1>2, <4>3, <4>4, <5>2
        <5>3. CASE \E q \in job[v] : a \in q.adds
          BY <1>T, <4>1, <5>3 DEF IdsInv
        <5>4. QED
          BY <5>1, <5>2, <5>3
      <4>6. QED
        BY <1>2, <4>3, <4>4, <4>5
    <3>4. QED
      BY <3>1, <3>2, <3>3
  <2>5. \A a, b \in rows : a.id = b.id => a = b
    BY <1>T DEF IdsInv
  <2>6. QED
    BY <2>1, <2>2, <2>3, <2>4, <2>5 DEF IdsInv
<1>8. KeysInv'
  <2>1. \A u \in LibraryTasks : \A j \in job'[u] : j.overtaken = FALSE => ~Raises(j)
    BY <1>T, <1>1 DEF KeysInv
  <2>2. \A u \in LibraryTasks : \A j \in job'[u] : j.overtaken = FALSE => ~Raises(j)'
    BY <2>1, StillOutcome
  <2>3. \A u \in LibraryTasks : \A j \in job'[u] :
          j.kind = "update" => \A r \in rows : r.id \in j.target => r.key \in Names
    BY <1>T, <1>1 DEF KeysInv
  <2>4. \A a, b \in rows : SameKey(a, b) => a.id = b.id
    BY <1>T DEF KeysInv
  <2>5. QED
    BY <2>2, <2>3, <2>4 DEF KeysInv, SameKey
<1>9. BundleInv'
  <2>1. \A u \in LibraryTasks : \A j \in job'[u] : Through(j)
    BY <1>T, <1>1 DEF BundleInv
  <2>2. QED
    BY <2>1, StillOutcome DEF BundleInv
<1>10. QED
  BY <1>3, <1>7, <1>8, <1>9 DEF LibraryInv

(* A transaction as it is opened. *)
LEMMA JobFacts ==
  ASSUME NEW kind \in {"import", "add", "update", "delete"}, NEW w \in Spaces
  PROVE  /\ Job(kind, w) \in Transaction /\ Job(kind, w).kind = kind /\ Job(kind, w).ws = w
         /\ Job(kind, w).bundle = <<>> /\ Job(kind, w).done = 0 /\ Job(kind, w).adds = {}
         /\ Job(kind, w).target = {} /\ Job(kind, w).name = {} /\ Job(kind, w).overtaken = FALSE
<1>1. Job(kind, w) \in Transaction
  BY DEF Job, Transaction
<1>2. QED
  BY <1>1 DEF Job

(* upload_ca_cert and fetch_ca_cert open a transaction without rows. *)
LEMMA ImportStep ==
  ASSUME LibraryInv, NEW t \in LibraryTasks, Import(t)
  PROVE  LibraryInv'
<1>1. PICK w \in Spaces, b \in Bundles : Open(t, [Job("import", w) EXCEPT !.bundle = b])
  BY DEF Import
<1> DEFINE k == [Job("import", w) EXCEPT !.bundle = b]
<1>2. b \in Seq(Fingerprints) /\ Len(b) \in Nat
  BY LibraryAssumption
<1>3. /\ Job("import", w) \in Transaction /\ Job("import", w).kind = "import"
      /\ Job("import", w).done = 0 /\ Job("import", w).adds = {} /\ Job("import", w).target = {}
  BY JobFacts
<1>4. k \in Transaction
  BY <1>2, <1>3 DEF Transaction
<1>5. k.adds = {} /\ k.target = {} /\ k.kind = "import" /\ k.done = 0 /\ k.bundle = b
  BY <1>3 DEF Transaction
<1> HIDE DEF k
<1>6. WellFormed(k) /\ Through(k)
  BY <1>2, <1>5 DEF WellFormed, Through
<1>7. job' = [job EXCEPT ![t] = {k}] /\ UNCHANGED <<rows, nextId>>
  BY <1>1 DEF Open, k
<1>8. ~Raises(k)
  <2>1. Outcome(k) = rows
    BY <1>4, <1>5, OutcomeFacts
  <2>2. QED
    BY <1>5, <2>1 DEF Raises, LibraryInv, KeysInv
<1>9. QED
  BY <1>4, <1>6, <1>5, <1>7, <1>8, OwnStep

(* One certificate of the bundle: there already, or added. *)
LEMMA ImportCertificateStep ==
  ASSUME LibraryInv, NEW t \in LibraryTasks, ImportCertificate(t)
  PROVE  LibraryInv'
<1>T. LibraryType /\ IdsInv /\ KeysInv /\ BundleInv
  BY DEF LibraryInv
<1>1. PICK j \in job[t] :
        /\ j.kind = "import" /\ j.done < Len(j.bundle)
        /\ LET fp == j.bundle[j.done + 1] IN
             IF Present(j, fp)
               THEN job' = [job EXCEPT ![t] = {Skipped(j)}] /\ UNCHANGED nextId
               ELSE /\ nextId <= LastId /\ nextId' = nextId + 1
                    /\ job' = [job EXCEPT ![t] = {Added(j, fp)}]
        /\ UNCHANGED rows
  BY DEF ImportCertificate
<1> DEFINE fp == j.bundle[j.done + 1]
           row == [id |-> nextId, ws |-> j.ws, key |-> fp]
<1>2. j \in Transaction /\ WellFormed(j) /\ Through(j) /\ nextId \in Nat
  BY <1>T DEF LibraryType, BundleInv
<1>3. /\ j.done \in Nat /\ j.bundle \in Seq(Fingerprints) /\ Len(j.bundle) \in Nat
      /\ j.done + 1 \in 1..Len(j.bundle) /\ fp \in Fingerprints /\ j.adds \in SUBSET Stored
      /\ j.ws \in Spaces /\ j.target = {}
  <2>1. j.done \in Nat /\ j.bundle \in Seq(Fingerprints) /\ j.adds \in SUBSET Stored /\ j.ws \in Spaces
    BY <1>2 DEF Transaction
  <2>2. Len(j.bundle) \in Nat /\ j.done + 1 \in 1..Len(j.bundle)
    BY <1>1, <2>1
  <2>3. QED
    BY <1>1, <1>2, <2>1, <2>2 DEF WellFormed
<1>4. row \in Stored /\ row.id = nextId /\ row.ws = j.ws /\ row.key = fp
  BY <1>2, <1>3 DEF Stored
<1>5. Outcome(j) = rows \cup j.adds
  BY <1>1, <1>2, OutcomeFacts
<1>6. ASSUME NEW k \in Transaction, NEW A \in SUBSET {row}, k.kind = "import", k.ws = j.ws,
             k.bundle = j.bundle, k.done = j.done + 1, k.adds = j.adds \cup A, k.target = {},
             k.lost = j.lost, k.overtaken = j.overtaken,
             (A = {} /\ UNCHANGED nextId /\ Present(j, fp)) \/ (A = {row} /\ ~Present(j, fp)
                                                             /\ nextId' = nextId + 1),
             job' = [job EXCEPT ![t] = {k}]
      PROVE  LibraryInv'
  <2>1. WellFormed(k)
    BY <1>6 DEF WellFormed
  <2>2. Through(k)
    <3> SUFFICES ASSUME NEW i \in 1..Len(j.bundle), i <= j.done + 1
                 PROVE  \/ \E r \in rows \cup k.adds : r.ws = j.ws /\ r.key = j.bundle[i]
                        \/ j.bundle[i] \in j.lost
      BY <1>6 DEF Through
    <3>1. CASE i <= j.done
      BY <1>2, <1>6, <3>1 DEF Through
    <3>2. CASE i = j.done + 1
      <4>1. \E r \in rows \cup k.adds : r.ws = j.ws /\ r.key = fp
        BY <1>4, <1>6 DEF Present
      <4>2. QED
        BY <3>2, <4>1
    <3>3. QED
      BY <1>3, <3>1, <3>2
  <2>3. Outcome(k) = rows \cup j.adds \cup A
    BY <1>6, OutcomeFacts
  <2>4. ASSUME k.overtaken = FALSE PROVE ~Raises(k)
    <3>1. ~Raises(j)
      BY <1>T, <1>6, <2>4 DEF KeysInv
    <3>2. \A a, b \in rows \cup j.adds : SameKey(a, b) => a.id = b.id
      BY <1>5, <3>1 DEF Raises
    <3>3. A = {row} => \A a \in rows \cup j.adds : ~SameKey(a, row) /\ ~SameKey(row, a)
      BY <1>4, <1>6 DEF SameKey, Present
    <3>4. \A a, b \in rows \cup j.adds \cup A : SameKey(a, b) => a.id = b.id
      <4> HIDE DEF row
      <4>1. QED
        BY <1>6, <3>2, <3>3
    <3>5. QED
      BY <1>6, <2>3, <3>4 DEF Raises
  <2>5. \A a \in k.adds : (a.id = nextId /\ nextId' = nextId + 1) \/ \E m \in job[t] : a \in m.adds
    BY <1>4, <1>6
  <2>6. \A a, b \in k.adds : a.id = nextId /\ b.id = nextId => a = b
    <3>1. \A a \in j.adds : a.id # nextId
      <4> TAKE a \in j.adds
      <4>1. a.id \in Nat /\ a.id < nextId
        BY <1>T, <1>3 DEF IdsInv, Stored
      <4>2. QED
        BY <1>2, <4>1
    <3>2. QED
      BY <1>6, <3>1
  <2>7. nextId' \in {nextId, nextId + 1}
    BY <1>6
  <2>8. QED
    BY <1>1, <1>6, <2>1, <2>2, <2>4, <2>5, <2>6, <2>7, OwnStep
<1>7. CASE Present(j, fp)
  <2>1. job' = [job EXCEPT ![t] = {Skipped(j)}] /\ UNCHANGED nextId
    BY <1>1, <1>7
  <2>2. /\ Skipped(j) \in Transaction /\ Skipped(j).kind = "import" /\ Skipped(j).ws = j.ws
        /\ Skipped(j).bundle = j.bundle /\ Skipped(j).done = j.done + 1 /\ Skipped(j).adds = j.adds
        /\ Skipped(j).target = {} /\ Skipped(j).lost = j.lost /\ Skipped(j).overtaken = j.overtaken
    BY <1>1, <1>2, <1>3 DEF Skipped, Transaction
  <2>3. QED
    BY <1>6, <1>7, <2>1, <2>2
<1>8. CASE ~Present(j, fp)
  <2>1. job' = [job EXCEPT ![t] = {Added(j, fp)}] /\ nextId' = nextId + 1
    BY <1>1, <1>8
  <2> DEFINE m == [j EXCEPT !.done = j.done + 1]
  <2>2. Added(j, fp) = [m EXCEPT !.adds = j.adds \cup {row}]
    BY <1>2 DEF Added, Transaction
  <2>3. j.adds \cup {row} \in SUBSET Stored
    BY <1>3, <1>4
  <2>4. m \in Transaction
    BY <1>2, <1>3 DEF Transaction
  <2> HIDE DEF row, fp
  <2>5. /\ Added(j, fp) \in Transaction /\ Added(j, fp).kind = "import" /\ Added(j, fp).ws = j.ws
        /\ Added(j, fp).bundle = j.bundle /\ Added(j, fp).done = j.done + 1
        /\ Added(j, fp).adds = j.adds \cup {row}
        /\ Added(j, fp).target = {} /\ Added(j, fp).lost = j.lost /\ Added(j, fp).overtaken = j.overtaken
    BY <1>1, <1>2, <1>3, <2>2, <2>3, <2>4 DEF Transaction
  <2>6. QED
    BY <1>6, <1>8, <2>1, <2>5
<1>9. QED
  BY <1>7, <1>8

(* create_profile, share_profile and share_ca_cert add a row whose key is   *)
(* free.                                                                   *)
LEMMA AddOneStep ==
  ASSUME LibraryInv, NEW t \in LibraryTasks, NEW row \in Stored, row.id = nextId, AddOne(t, row)
  PROVE  LibraryInv'
<1>1. /\ job[t] = {} /\ nextId' = nextId + 1 /\ UNCHANGED rows
      /\ ~\E r \in rows : SameKey(r, row)
      /\ job' = [job EXCEPT ![t] = {[Job("add", row.ws) EXCEPT !.adds = {row}]}]
  BY DEF AddOne
<1>2. /\ Job("add", row.ws) \in Transaction /\ Job("add", row.ws).kind = "add"
      /\ Job("add", row.ws).bundle = <<>> /\ Job("add", row.ws).target = {}
  BY JobFacts DEF Stored
<1> DEFINE k == [Job("add", row.ws) EXCEPT !.adds = {row}]
<1>3. /\ k \in Transaction /\ k.adds = {row} /\ k.target = {} /\ k.kind = "add" /\ k.bundle = <<>>
  BY <1>2 DEF Transaction
<1>4. job' = [job EXCEPT ![t] = {k}]
  BY <1>1
<1> HIDE DEF k
<1>5. WellFormed(k) /\ Through(k)
  BY <1>3 DEF WellFormed, Through
<1>6. ~Raises(k)
  <2>1. Outcome(k) = rows \cup {row}
    BY <1>3, OutcomeFacts
  <2>2. \A a, b \in rows : SameKey(a, b) => a.id = b.id
    BY DEF LibraryInv, KeysInv
  <2>3. \A a \in rows : ~SameKey(a, row) /\ ~SameKey(row, a)
    BY <1>1 DEF SameKey
  <2>4. QED
    BY <1>3, <2>1, <2>2, <2>3 DEF Raises
<1>7. QED
  BY <1>1, <1>3, <1>4, <1>5, <1>6, OwnStep

(* The requests that add one row. *)
LEMMA AddStep ==
  ASSUME LibraryInv, NEW t \in LibraryTasks, CreateProfile(t) \/ Share(t)
  PROVE  LibraryInv'
<1>1. nextId \in Nat /\ rows \in SUBSET Stored
  BY DEF LibraryInv, LibraryType
<1>2. CASE CreateProfile(t)
  <2>1. PICK w \in Spaces, n \in Names : AddOne(t, [id |-> nextId, ws |-> w, key |-> n])
    BY <1>2 DEF CreateProfile
  <2>2. [id |-> nextId, ws |-> w, key |-> n] \in Stored
    BY <1>1 DEF Stored
  <2>3. QED
    BY <2>1, <2>2, AddOneStep
<1>3. CASE Share(t)
  <2>1. PICK r \in rows, w \in Spaces : AddOne(t, [r EXCEPT !.id = nextId, !.ws = w])
    BY <1>3 DEF Share
  <2> DEFINE c == [r EXCEPT !.id = nextId, !.ws = w]
  <2>2. c = [[r EXCEPT !.id = nextId] EXCEPT !.ws = w]
    BY <1>1 DEF Stored
  <2>3. c \in Stored /\ c.id = nextId
    BY <1>1, <2>2 DEF Stored
  <2> HIDE DEF c
  <2>4. QED
    BY <2>1, <2>3, AddOneStep DEF c
<1>4. QED
  BY <1>2, <1>3

(* update_profile: no other profile has the name. *)
LEMMA UpdateStep ==
  ASSUME LibraryInv, NEW t \in LibraryTasks, UpdateProfile(t)
  PROVE  LibraryInv'
<1>T. LibraryType /\ IdsInv /\ KeysInv
  BY DEF LibraryInv
<1>1. PICK r \in rows, n \in Names :
        /\ r.key \in Names /\ ~\E x \in rows : x.id # r.id /\ SameKey(x, [r EXCEPT !.key = n])
        /\ Open(t, [Job("update", r.ws) EXCEPT !.target = {r.id}, !.name = {n}])
  BY DEF UpdateProfile
<1>2. r \in Stored /\ r.ws \in Spaces /\ r.id \in Nat
  BY <1>T DEF LibraryType, Stored
<1> DEFINE j == Job("update", r.ws)
           i == [j EXCEPT !.target = {r.id}]
           k == [j EXCEPT !.target = {r.id}, !.name = {n}]
<1>3. j \in Transaction /\ j.kind = "update" /\ j.bundle = <<>> /\ j.adds = {} /\ j.overtaken = FALSE
  BY <1>2, JobFacts
<1>4. job' = [job EXCEPT ![t] = {k}] /\ UNCHANGED <<rows, nextId>>
  BY <1>1 DEF Open
<1> HIDE DEF j
<1>5. k = [i EXCEPT !.name = {n}]
  BY <1>3 DEF Transaction
<1>6. i \in Transaction /\ i.kind = "update" /\ i.bundle = <<>> /\ i.adds = {} /\ i.target = {r.id}
  BY <1>2, <1>3 DEF Transaction
<1> HIDE DEF i, k
<1>7. /\ k \in Transaction /\ k.kind = "update" /\ k.bundle = <<>> /\ k.adds = {}
      /\ k.target = {r.id} /\ k.name = {n}
  BY <1>5, <1>6 DEF Transaction
<1>8. WellFormed(k) /\ Through(k)
  BY <1>7 DEF WellFormed, Through
<1>9. Targets(k) = {r}
  BY <1>T, <1>7 DEF Targets, IdsInv
<1>10. ~Raises(k)
  <2> DEFINE s == [r EXCEPT !.key = n]
  <2>1. (CHOOSE x \in k.name : TRUE) = n
    BY <1>7
  <2>2. Renamed(k) = {s}
    BY <1>9, <2>1 DEF Renamed
  <2>3. s.id = r.id
    BY <1>2 DEF Stored
  <2>4. \A x \in rows : x.id # r.id => ~SameKey(x, s) /\ ~SameKey(s, x)
    BY <1>1 DEF SameKey
  <2> HIDE DEF s
  <2>5. Outcome(k) = (rows \ {r}) \cup {s}
    BY <1>7, <1>9, <2>2, OutcomeFacts
  <2>6. \A a, b \in rows : SameKey(a, b) => a.id = b.id
    BY <1>T DEF KeysInv
  <2>7. \A a, b \in Outcome(k) : SameKey(a, b) => a.id = b.id
    BY <2>3, <2>4, <2>5, <2>6
  <2>8. QED
    BY <1>9, <2>7 DEF Raises
<1>11. \A x \in k.target : \E q \in rows : q.id = x
  BY <1>7
<1>12. \A q \in rows : q.id \in k.target => q.key \in Names
  BY <1>T, <1>1, <1>7 DEF IdsInv
<1>13. QED
  BY <1>4, <1>7, <1>8, <1>10, <1>11, <1>12, OwnStep

(* delete_ca_cert and delete_profile *)
LEMMA DeleteStep ==
  ASSUME LibraryInv, NEW t \in LibraryTasks, Delete(t)
  PROVE  LibraryInv'
<1>T. LibraryType /\ IdsInv /\ KeysInv
  BY DEF LibraryInv
<1>1. PICK r \in rows : Open(t, [Job("delete", r.ws) EXCEPT !.target = {r.id}])
  BY DEF Delete
<1>2. r.ws \in Spaces /\ r.id \in Nat
  BY <1>T DEF LibraryType, Stored
<1>3. /\ Job("delete", r.ws) \in Transaction /\ Job("delete", r.ws).kind = "delete"
      /\ Job("delete", r.ws).bundle = <<>> /\ Job("delete", r.ws).adds = {}
  BY <1>2, JobFacts
<1> DEFINE k == [Job("delete", r.ws) EXCEPT !.target = {r.id}]
<1>4. job' = [job EXCEPT ![t] = {k}] /\ UNCHANGED <<rows, nextId>>
  BY <1>1 DEF Open
<1>5. k \in Transaction /\ k.kind = "delete" /\ k.bundle = <<>> /\ k.adds = {} /\ k.target = {r.id}
  BY <1>2, <1>3 DEF Transaction
<1> HIDE DEF k
<1>6. WellFormed(k) /\ Through(k)
  BY <1>5 DEF WellFormed, Through
<1>7. ~Raises(k)
  <2>1. Outcome(k) \subseteq rows
    BY <1>5, OutcomeFacts
  <2>2. QED
    BY <1>T, <1>5, <2>1 DEF Raises, KeysInv
<1>8. \A x \in k.target : \E q \in rows : q.id = x
  BY <1>5
<1>9. QED
  BY <1>4, <1>5, <1>6, <1>7, <1>8, OwnStep

(* A commit that raises is rolled back. *)
LEMMA RollbackStep ==
  ASSUME LibraryInv, NEW t \in LibraryTasks, job' = [job EXCEPT ![t] = {}], UNCHANGED <<rows, nextId>>
  PROVE  LibraryInv'
<1>T. LibraryType /\ IdsInv /\ KeysInv /\ BundleInv
  BY DEF LibraryInv
<1>1. \A u \in LibraryTasks : \A j \in job'[u] : j \in job[u]
  BY <1>T DEF LibraryType
<1>2. LibraryType'
  <2>1. job' \in [LibraryTasks -> SUBSET Transaction] /\ DOMAIN job' = LibraryTasks
    BY <1>T DEF LibraryType
  <2>2. QED
    BY <1>T, <1>1, <2>1 DEF LibraryType
<1>3. IdsInv'
  BY <1>T, <1>1 DEF IdsInv
<1>4. KeysInv'
  <2>1. \A u \in LibraryTasks : \A j \in job'[u] : j.overtaken = FALSE => ~Raises(j)'
    BY <1>T, <1>1, StillOutcome DEF KeysInv
  <2>2. QED
    BY <1>T, <1>1, <2>1 DEF KeysInv, SameKey
<1>5. BundleInv'
  BY <1>T, <1>1, StillOutcome DEF BundleInv
<1>6. QED
  BY <1>2, <1>3, <1>4, <1>5 DEF LibraryInv

(* What the tables hold after a commit. *)
LEMMA CommittedRows ==
  ASSUME LibraryInv, NEW t \in LibraryTasks, NEW j \in job[t], ~Raises(j)
  PROVE  /\ Outcome(j) \in SUBSET Stored
         /\ \A a, b \in Outcome(j) : a.id = b.id => a = b
         /\ \A a, b \in Outcome(j) : SameKey(a, b) => a.id = b.id
         /\ \A r \in Outcome(j) : \/ r \in rows \/ r \in j.adds
                                  \/ r.key \in Names /\ \E q \in rows : q.id = r.id
         /\ \A r \in rows \ Outcome(j) :
              r \in Targets(j) /\ (j.kind = "delete" \/ (j.kind = "update" /\ r.key \in Names))
<1>T. LibraryType /\ IdsInv /\ KeysInv
  BY DEF LibraryInv
<1>1. j \in Transaction /\ WellFormed(j) /\ rows \in SUBSET Stored /\ j.adds \in SUBSET Stored
  BY <1>T DEF LibraryType, Transaction
<1>2. \A a, b \in Outcome(j) : SameKey(a, b) => a.id = b.id
  BY DEF Raises
<1>3. \A a, b \in rows : a.id = b.id => a = b
  BY <1>T DEF IdsInv
<1>4. CASE j.kind \in {"import", "add"}
  <2>1. Outcome(j) = rows \cup j.adds
    BY <1>1, <1>4, OutcomeFacts
  <2>2. \A a, b \in j.adds : a.id = b.id => a = b
    BY <1>T DEF IdsInv
  <2>3. \A a \in j.adds, r \in rows : a.id # r.id
    BY <1>T DEF IdsInv
  <2>4. \A a, b \in rows \cup j.adds : a.id = b.id => a = b
    BY <1>3, <2>2, <2>3
  <2>5. QED
    BY <1>1, <1>2, <2>1, <2>4
<1>5. CASE j.kind = "delete"
  <2>1. Outcome(j) = rows \ Targets(j)
    BY <1>1, <1>5, OutcomeFacts
  <2>2. QED
    BY <1>1, <1>2, <1>3, <1>5, <2>1
<1>6. CASE j.kind = "update"
  <2> DEFINE n == CHOOSE x \in j.name : TRUE
             ren(r) == [r EXCEPT !.key = n]
  <2>1. n \in Names
    <3>1. j.name # {} /\ j.name \in SUBSET Names
      BY <1>1, <1>6 DEF WellFormed, Transaction
    <3>2. QED
      BY <3>1
  <2>2. Renamed(j) = {ren(r) : r \in Targets(j)}
    BY DEF Renamed
  <2> HIDE DEF n
  <2>3. \A r \in Targets(j) : ren(r) \in Stored /\ ren(r).id = r.id /\ ren(r).key \in Names
    BY <1>1, <2>1 DEF Targets, Stored
  <2> HIDE DEF ren
  <2>4. Outcome(j) = (rows \ Targets(j)) \cup Renamed(j)
    BY <1>1, <1>6, OutcomeFacts
  <2>5. \A r \in rows : r \in Targets(j) <=> r.id \in j.target
    BY DEF Targets
  <2>6. \A a \in Renamed(j) : \E q \in Targets(j) : a = ren(q) /\ a.id = q.id
    BY <2>2, <2>3
  <2>7. Targets(j) \subseteq rows
    BY DEF Targets
  <2>8. ASSUME NEW a \in Outcome(j), NEW b \in Outcome(j), a.id = b.id PROVE a = b
    <3>1. CASE a \in Renamed(j) /\ b \in Renamed(j)
      BY <1>3, <2>6, <2>7, <2>8, <3>1
    <3>2. CASE a \in rows \ Targets(j) /\ b \in rows \ Targets(j)
      BY <1>3, <2>8, <3>2
    <3>3. CASE a \in Renamed(j) /\ b \in rows \ Targets(j)
      BY <2>5, <2>6, <2>7, <2>8, <3>3
    <3>4. CASE b \in Renamed(j) /\ a \in rows \ Targets(j)
      BY <2>5, <2>6, <2>7, <2>8, <3>4
    <3>5. QED
      BY <2>4, <2>8, <3>1, <3>2, <3>3, <3>4
  <2>9. \A r \in Targets(j) : r.key \in Names
    BY <1>T, <1>6, <2>5, <2>7 DEF KeysInv
  <2>10. \A r \in Outcome(j) : r \in rows \/ (r.key \in Names /\ \E q \in rows : q.id = r.id)
    BY <2>3, <2>4, <2>6, <2>7
  <2>11. Outcome(j) \in SUBSET Stored
    BY <1>1, <2>2, <2>3, <2>4
  <2>12. \A r \in rows \ Outcome(j) : r \in Targets(j)
    BY <2>4
  <2>13. QED
    BY <1>2, <1>6, <2>8, <2>9, <2>10, <2>11, <2>12
<1>7. QED
  BY <1>1, <1>4, <1>5, <1>6, OutcomeFacts

(* A request that another one's commit overtook. *)
Late(j, k) == [k EXCEPT !.overtaken = TRUE, !.lost = @ \cup DeletedFrom(j, k.ws)]

(* It is marked, and what was deleted from its workspace noted. *)
LEMMA LateFacts ==
  ASSUME LibraryType, NEW j, NEW k \in Transaction
  PROVE  /\ Late(j, k) \in Transaction /\ Late(j, k).kind = k.kind /\ Late(j, k).ws = k.ws
         /\ Late(j, k).bundle = k.bundle /\ Late(j, k).done = k.done /\ Late(j, k).adds = k.adds
         /\ Late(j, k).target = k.target /\ Late(j, k).name = k.name
         /\ Late(j, k).overtaken = TRUE /\ Late(j, k).lost = k.lost \cup DeletedFrom(j, k.ws)
<1> DEFINE D == DeletedFrom(j, k.ws)
           i == [k EXCEPT !.overtaken = TRUE]
<1>1. D \in SUBSET (Fingerprints \cup Names)
  BY DEF LibraryType, DeletedFrom, Targets, Stored
<1>2. k.lost \cup D \in SUBSET (Fingerprints \cup Names)
  BY <1>1 DEF Transaction
<1> HIDE DEF D
<1>3. Late(j, k) = [i EXCEPT !.lost = k.lost \cup D]
  BY DEF Late, Transaction, D
<1>4. /\ i \in Transaction /\ i.kind = k.kind /\ i.ws = k.ws /\ i.bundle = k.bundle /\ i.done = k.done
      /\ i.adds = k.adds /\ i.target = k.target /\ i.name = k.name
  BY DEF Transaction
<1>5. i.overtaken = TRUE
  BY DEF Transaction
<1> HIDE DEF i
<1>6. /\ Late(j, k) \in Transaction /\ Late(j, k).kind = i.kind /\ Late(j, k).ws = i.ws
      /\ Late(j, k).bundle = i.bundle /\ Late(j, k).done = i.done /\ Late(j, k).adds = i.adds
      /\ Late(j, k).target = i.target /\ Late(j, k).name = i.name
      /\ Late(j, k).lost = k.lost \cup D
  BY <1>2, <1>3, <1>4 DEF Transaction
<1>7. Late(j, k).overtaken = i.overtaken
  BY <1>2, <1>3, <1>4 DEF Transaction
<1>8. QED
  BY <1>4, <1>5, <1>6, <1>7 DEF D

(* The commit of one request, seen by the others. *)
LEMMA CommitStep ==
  ASSUME LibraryInv, NEW t \in LibraryTasks, Commit(t)
  PROVE  LibraryInv'
<1>T. LibraryType /\ IdsInv /\ KeysInv /\ BundleInv
  BY DEF LibraryInv
<1>1. PICK j \in job[t] :
        /\ IF Raises(j) THEN job' = [job EXCEPT ![t] = {}] /\ UNCHANGED rows
           ELSE rows' = Outcome(j) /\ job' = Overtakes(j, t)
        /\ UNCHANGED nextId
  BY DEF Commit
<1>2. CASE Raises(j)
  BY <1>1, <1>2, RollbackStep
<1>3. CASE ~Raises(j)
  <2>1. rows' = Outcome(j) /\ job' = Overtakes(j, t) /\ nextId' = nextId
    BY <1>1, <1>3
  <2>2. /\ rows' \in SUBSET Stored
        /\ \A a, b \in rows' : a.id = b.id => a = b
        /\ \A a, b \in rows' : SameKey(a, b) => a.id = b.id
        /\ \A r \in rows' : \/ r \in rows \/ r \in j.adds
                            \/ r.key \in Names /\ \E q \in rows : q.id = r.id
        /\ \A r \in rows \ rows' :
             r \in Targets(j) /\ (j.kind = "delete" \/ (j.kind = "update" /\ r.key \in Names))
    BY <1>3, <2>1, CommittedRows
  <2>3. \A u \in LibraryTasks : job'[u] = IF u = t THEN {} ELSE {Late(j, k) : k \in job[u]}
    BY <2>1 DEF Overtakes, Late
  <2>4. \A u \in LibraryTasks : \A k \in job[u] : k \in Transaction /\ WellFormed(k)
    BY <1>T DEF LibraryType
  <2>5. \A u \in LibraryTasks : \A m \in job'[u] : u # t /\ \E k \in job[u] : m = Late(j, k)
    BY <2>3
  <2>6. ASSUME NEW u \in LibraryTasks, NEW m \in job'[u]
        PROVE  \E k \in job[u] :
                 /\ u # t /\ k \in Transaction /\ WellFormed(k)
                 /\ m \in Transaction /\ m.kind = k.kind /\ m.ws = k.ws /\ m.bundle = k.bundle
                 /\ m.done = k.done /\ m.adds = k.adds /\ m.target = k.target /\ m.name = k.name
                 /\ m.lost = k.lost \cup DeletedFrom(j, k.ws)
    <3>1. PICK k \in job[u] : u # t /\ m = Late(j, k)
      BY <2>5
    <3>2. k \in Transaction /\ WellFormed(k)
      BY <2>4
    <3> DEFINE z == Late(j, k)
    <3>3. /\ z \in Transaction /\ z.kind = k.kind /\ z.ws = k.ws /\ z.bundle = k.bundle
          /\ z.done = k.done /\ z.adds = k.adds /\ z.target = k.target /\ z.name = k.name
          /\ z.lost = k.lost \cup DeletedFrom(j, k.ws)
      BY <1>T, <3>2, LateFacts
    <3> HIDE DEF z
    <3>4. m = z
      BY <3>1 DEF z
    <3>5. QED
      BY <3>1, <3>2, <3>3, <3>4
  <2>O. ASSUME NEW u \in LibraryTasks, NEW m \in job'[u] PROVE m.overtaken # FALSE
    <3>1. PICK k \in job[u] : m = Late(j, k)
      BY <2>5
    <3>2. Late(j, k).overtaken = TRUE
      BY <1>T, <2>4, LateFacts
    <3>3. QED
      BY <3>1, <3>2
  <2>P. \A u \in LibraryTasks : \A m \in job'[u] : \E k \in job[u] :
          u # t /\ m.adds = k.adds /\ m.target = k.target /\ m.kind = k.kind
    BY <2>6
  <2>Q. \A u \in LibraryTasks : \A m \in job'[u] : \E k \in job[u] :
          /\ k \in Transaction /\ m.ws = k.ws /\ m.bundle = k.bundle /\ m.done = k.done
          /\ m.adds = k.adds /\ m.lost = k.lost \cup DeletedFrom(j, k.ws)
    BY <2>6
  <2>7. LibraryType'
    <3>1. DOMAIN job' = LibraryTasks
      BY <2>1 DEF Overtakes
    <3>2. \A u \in LibraryTasks : job'[u] \in SUBSET Transaction
      BY <2>6
    <3>3. job' = [u \in LibraryTasks |-> job'[u]]
      BY <2>1 DEF Overtakes
    <3>4. job' \in [LibraryTasks -> SUBSET Transaction]
      BY <3>2, <3>3
    <3>5. ASSUME NEW u \in LibraryTasks, NEW m \in job'[u] PROVE WellFormed(m)
      <4>1. PICK k \in job[u] : /\ WellFormed(k) /\ m.kind = k.kind /\ m.bundle = k.bundle
                               /\ m.adds = k.adds /\ m.target = k.target /\ m.name = k.name
        BY <2>6
      <4>2. QED
        BY <4>1 DEF WellFormed
    <3>6. QED
      BY <1>T, <2>1, <2>2, <3>1, <3>4, <3>5 DEF LibraryType
  <2>8. \A u \in LibraryTasks : \A k \in job[u] : \A a \in k.adds :
          a.id < nextId /\ (u # t => \A b \in j.adds : b.id # a.id)
    BY <1>T DEF IdsInv
  <2>9. IdsInv'
    <3>1. \A r \in rows' : r.id < nextId
      <4> TAKE r \in rows'
      <4>1. CASE r \in rows \/ r \in j.adds
        BY <1>T, <2>8, <4>1 DEF IdsInv
      <4>2. CASE \E q \in rows : q.id = r.id
        BY <1>T, <4>2 DEF IdsInv
      <4>3. QED
        BY <2>2, <4>1, <4>2
    <3>2. ASSUME NEW u \in LibraryTasks, NEW m \in job'[u], NEW a \in m.adds
          PROVE  a.id < nextId /\ \A r \in rows' : r.id # a.id
      <4>1. PICK k \in job[u] : u # t /\ a \in k.adds
        BY <2>P
      <4>2. \A r \in rows : r.id # a.id
        BY <1>T, <4>1 DEF IdsInv
      <4>3. \A r \in j.adds : r.id # a.id
        BY <2>8, <4>1
      <4>4. \A r \in rows' : r.id # a.id
        BY <2>2, <4>2, <4>3
      <4>5. QED
        BY <2>8, <4>1, <4>4
    <3>3. ASSUME NEW u \in LibraryTasks, NEW v \in LibraryTasks, NEW m \in job'[u], NEW n \in job'[v],
                 NEW a \in m.adds, NEW b \in n.adds, a.id = b.id
          PROVE  u = v /\ a = b
      <4>1. PICK k \in job[u] : a \in k.adds
        BY <2>P
      <4>2. PICK l \in job[v] : b \in l.adds
        BY <2>P
      <4>3. QED
        BY <1>T, <3>3, <4>1, <4>2 DEF IdsInv
    <3>4. ASSUME NEW u \in LibraryTasks, NEW v \in LibraryTasks, NEW m \in job'[u], NEW n \in job'[v],
                 NEW x \in m.target
          PROVE  x < nextId /\ \A a \in n.adds : a.id # x
      <4>1. PICK k \in job[u] : x \in k.target
        BY <2>P
      <4>2. PICK l \in job[v] : n.adds = l.adds
        BY <2>P
      <4>3. QED
        BY <1>T, <4>1, <4>2 DEF IdsInv
    <3>5. QED
      BY <2>1, <2>2, <3>1, <3>2, <3>3, <3>4 DEF IdsInv
  <2>10. KeysInv'
    <3>1. \A u \in LibraryTasks : \A m \in job'[u] : m.overtaken # FALSE
      BY <2>O
    <3>2. ASSUME NEW u \in LibraryTasks, NEW m \in job'[u], m.kind = "update",
                 NEW r \in rows', r.id \in m.target
          PROVE  r.key \in Names
      <4>1. PICK k \in job[u] : k.kind = "update" /\ k.target = m.target
        BY <2>P, <3>2
      <4>2. CASE r \in rows
        BY <1>T, <3>2, <4>1, <4>2 DEF KeysInv
      <4>3. CASE r \in j.adds
        BY <1>T, <3>2, <4>1, <4>3 DEF IdsInv
      <4>4. QED
        BY <2>2, <4>2, <4>3
    <3>3. QED
      BY <2>2, <3>1, <3>2 DEF KeysInv, SameKey
  <2>11. BundleInv'
    <3> SUFFICES ASSUME NEW u \in LibraryTasks, NEW m \in job'[u], NEW i \in 1..Len(m.bundle), i <= m.done
                 PROVE  \/ \E r \in rows' \cup m.adds : r.ws = m.ws /\ r.key = m.bundle[i]
                        \/ m.bundle[i] \in m.lost
      BY DEF BundleInv, Through
    <3>1. PICK k \in job[u] :
            /\ k \in Transaction
            /\ m.ws = k.ws /\ m.bundle = k.bundle /\ m.done = k.done /\ m.adds = k.adds
            /\ m.lost = k.lost \cup DeletedFrom(j, k.ws)
      BY <2>Q
    <3>2. \/ \E r \in rows \cup k.adds : r.ws = k.ws /\ r.key = k.bundle[i]
          \/ k.bundle[i] \in k.lost
      BY <1>T, <3>1 DEF BundleInv, Through
    <3>3. CASE k.bundle[i] \in k.lost
      BY <3>1, <3>3
    <3>4. ASSUME NEW r \in rows \cup k.adds, r.ws = k.ws, r.key = k.bundle[i]
          PROVE  \/ r \in rows' \cup m.adds
                 \/ r.key \in DeletedFrom(j, k.ws)
      <4>1. k.bundle[i] \in Fingerprints
        <5>1. k.bundle \in Seq(Fingerprints)
          BY <3>1 DEF Transaction
        <5>2. QED
          BY <3>1, <5>1
      <4>2. CASE r \in rows \ rows'
        <5>1. r \in Targets(j) /\ j.kind = "delete"
          BY <2>2, <3>4, <4>1, <4>2, LibraryAssumption
        <5>2. QED
          BY <3>4, <5>1 DEF DeletedFrom
      <4>3. QED
        BY <3>1, <3>4, <4>2
    <3>5. QED
      BY <3>1, <3>2, <3>3, <3>4
  <2>12. QED
    BY <2>7, <2>9, <2>10, <2>11 DEF LibraryInv
<1>4. QED
  BY <1>2, <1>3

(* Every step of every request keeps the invariant. *)
LEMMA LibraryStep == LibraryInv /\ [LibraryNext]_libraryVars => LibraryInv'
<1> SUFFICES ASSUME LibraryInv, [LibraryNext]_libraryVars PROVE LibraryInv'
  OBVIOUS
<1>1. CASE LibraryNext
  <2>1. PICK t \in LibraryTasks :
          \/ Import(t) \/ ImportCertificate(t) \/ CreateProfile(t) \/ Share(t)
          \/ UpdateProfile(t) \/ Delete(t) \/ Commit(t)
    BY <1>1 DEF LibraryNext
  <2>2. QED
    BY <2>1, ImportStep, ImportCertificateStep, AddStep, UpdateStep, DeleteStep, CommitStep
<1>2. CASE UNCHANGED libraryVars
  <2>1. rows' = rows /\ nextId' = nextId /\ job' = job
    BY <1>2 DEF libraryVars
  <2>2. LibraryType' /\ IdsInv'
    BY <2>1 DEF LibraryInv, LibraryType, IdsInv
  <2>3. KeysInv' /\ BundleInv'
    BY <2>1, StillOutcome DEF LibraryInv, KeysInv, BundleInv, SameKey
  <2>4. QED
    BY <2>2, <2>3 DEF LibraryInv
<1>3. QED
  BY <1>1, <1>2

(* The inductive invariant of the library, for any number of requests,     *)
(* workspaces and certificates.                                            *)
THEOREM LibraryInvariance == LibrarySpec => []LibraryInv
<1>1. LibraryInit => LibraryInv
  BY DEF LibraryInit, LibraryInv, LibraryType, IdsInv, KeysInv, BundleInv
<1>2. QED
  BY <1>1, LibraryStep, PTL DEF LibrarySpec

(* A request of the library fails at its commit only when another one has  *)
(* committed since it began, and an import that commits accounts for every *)
(* certificate of its bundle (_import_certificates).                       *)
THEOREM CommitsAccount == LibrarySpec => []CommitAccounts
<1>1. LibraryInv => CommitAccounts
  <2> SUFFICES ASSUME LibraryInv, NEW t \in LibraryTasks, NEW j \in job[t], j.done = Len(j.bundle)
               PROVE  IF Raises(j) THEN j.overtaken ELSE Accounted(j)
    BY DEF CommitAccounts
  <2>1. j \in Transaction /\ WellFormed(j) /\ Through(j)
    BY DEF LibraryInv, LibraryType, BundleInv
  <2>2. CASE Raises(j)
    <3>1. j.overtaken # FALSE /\ j.overtaken \in BOOLEAN
      BY <2>1, <2>2 DEF LibraryInv, KeysInv, Transaction
    <3>2. j.overtaken
      BY <3>1
    <3>3. QED
      BY <2>2, <3>2
  <2>3. CASE ~Raises(j)
    <3>1. j.bundle \in Seq(Fingerprints) /\ Len(j.bundle) \in Nat /\ DOMAIN j.bundle = 1..Len(j.bundle)
      BY <2>1 DEF Transaction
    <3>2. CASE j.kind = "import"
      <4>1. Outcome(j) = rows \cup j.adds
        BY <2>1, <3>2, OutcomeFacts
      <4>2. Accounted(j)
        BY <2>1, <3>1, <4>1 DEF Accounted, Through
      <4>3. QED
        BY <2>3, <4>2
    <3>3. CASE j.kind # "import"
      <4>1. DOMAIN j.bundle = {}
        BY <2>1, <3>3 DEF WellFormed
      <4>2. Accounted(j)
        BY <4>1 DEF Accounted
      <4>3. QED
        BY <2>3, <4>2
    <3>4. QED
      BY <3>2, <3>3
  <2>4. QED
    BY <2>2, <2>3
<1>2. QED
  BY <1>1, LibraryInvariance, PTL
-----------------------------------------------------------------------------
(* LoginLimiter *)

(* What an entry may count: failures up to the limit, and those of the     *)
(* attempts that were let in before.                                       *)
Most == MaxFailures + Cardinality(Attempts) - 1

(* The failures before the entry that are within a window of its first.    *)
Earlier(e) == {i \in 1..(Len(failed) - e.count) : e.first - failed[i] < Window}

(* The entry counts the latest failures, from its first; while it is in    *)
(* force, the attempts on their way still fit; and those of the window     *)
(* before it are bounded too.                                              *)
EntryInv(e) ==
  /\ e.count \in 1..Len(failed) /\ e.first <= now
  /\ failed[Len(failed) - e.count + 1] = e.first
  /\ \A i \in 1..(Len(failed) - e.count) : failed[i] <= e.first
  /\ \A i \in (Len(failed) - e.count + 1)..Len(failed) : e.first <= failed[i]
  /\ e.count <= Most
  /\ now - e.first < Window => e.count + Cardinality(checking) <= Most
  /\ Cardinality(Earlier(e)) <= Most - 1

LimiterInv ==
  /\ now \in Nat /\ checking \in SUBSET Attempts /\ failed \in Seq(Nat)
  /\ entry \in SUBSET [count : Nat, first : Nat]
  /\ \A i \in 1..Len(failed) : failed[i] <= now
  /\ entry = {} => failed = <<>>
  /\ \A d, e \in entry : d = e
  /\ \A e \in entry : EntryInv(e)

(* The requests on their way are at most Attempts. *)
LEMMA AttemptFacts ==
  /\ Cardinality(Attempts) \in Nat \ {0} /\ Most \in Nat /\ Most >= Cardinality(Attempts) /\ Most >= 1
  /\ MaxFailures <= Most
  /\ \A S \in SUBSET Attempts :
       IsFiniteSet(S) /\ Cardinality(S) \in Nat /\ Cardinality(S) <= Cardinality(Attempts)
<1>1. IsFiniteSet(Attempts) /\ Cardinality(Attempts) \in Nat
  BY LimiterAssumption, FS_CardinalityType
<1>2. Cardinality(Attempts) # 0
  BY <1>1, LimiterAssumption, FS_EmptySet
<1>3. \A S \in SUBSET Attempts :
        IsFiniteSet(S) /\ Cardinality(S) \in Nat /\ Cardinality(S) <= Cardinality(Attempts)
  BY <1>1, FS_Subset, FS_CardinalityType
<1>4. QED
  BY <1>1, <1>2, <1>3, LimiterAssumption DEF Most

(* Counting indices. *)
LEMMA IndexCount ==
  ASSUME NEW a \in Nat, NEW n \in Nat, a >= 1, a <= n + 1, NEW S \in SUBSET (a..n)
  PROVE  /\ IsFiniteSet(S) /\ Cardinality(S) \in Nat /\ Cardinality(S) <= n + 1 - a
         /\ IsFiniteSet(a..n) /\ Cardinality(a..n) = n + 1 - a
<1>1. a \in Int /\ n \in Int
  OBVIOUS
<1>2. IsFiniteSet(a..n) /\ Cardinality(a..n) = IF a > n THEN 0 ELSE n - a + 1
  BY ONLY <1>1, FS_Interval
<1>3. Cardinality(a..n) = n + 1 - a
  BY <1>2
<1>4. IsFiniteSet(S) /\ Cardinality(S) <= Cardinality(a..n) /\ Cardinality(S) \in Nat
  BY <1>2, FS_Subset, FS_CardinalityType
<1>5. QED
  BY <1>2, <1>3, <1>4

(* The entry, if there is one. *)
LEMMA TheEntry ==
  ASSUME LimiterInv
  PROVE  \/ entry = {} /\ failed = <<>>
         \/ \E e \in [count : Nat, first : Nat] : entry = {e} /\ EntryInv(e)
<1>1. CASE entry = {}
  BY <1>1 DEF LimiterInv
<1>2. CASE entry # {}
  <2>1. PICK e \in entry : TRUE
    BY <1>2
  <2>2. entry = {e} /\ EntryInv(e) /\ e \in [count : Nat, first : Nat]
    BY <2>1 DEF LimiterInv
  <2>3. QED
    BY <2>2
<1>3. QED
  BY <1>1, <1>2

(* _rate_limited: one more attempt is let in, or the clock moves. *)
LEMMA OtherLimiterStep ==
  ASSUME LimiterInv, Attempt \/ TimePasses
  PROVE  LimiterInv'
<1>T. now \in Nat /\ checking \in SUBSET Attempts /\ failed \in Seq(Nat) /\ Len(failed) \in Nat
      /\ (\A i \in 1..Len(failed) : failed[i] \in Nat /\ failed[i] <= now)
  BY DEF LimiterInv
<1>1. entry' = entry /\ failed' = failed /\ now' \in Nat /\ now <= now' /\ checking' \in SUBSET Attempts
  BY <1>T DEF Attempt, TimePasses
<1>2. \A i \in 1..Len(failed) : failed[i] <= now'
  BY <1>T, <1>1
<1>3. ASSUME NEW e \in entry PROVE EntryInv(e)'
  <2>1. EntryInv(e) /\ e.count \in Nat /\ e.first \in Nat
    BY DEF LimiterInv
  <2>2. e.first <= now'
    BY <1>T, <1>1, <2>1 DEF EntryInv
  <2>3. now' - e.first < Window => e.count + Cardinality(checking') <= Most
    <3>1. CASE Attempt
      <4>1. PICK a \in Attempts \ checking :
              ~RateLimited /\ checking' = checking \cup {a} /\ now' = now
        BY <3>1 DEF Attempt
      <4>2. e.count < MaxFailures \/ ~(now - e.first < Window)
        BY <4>1, <1>3, <2>1, LimiterAssumption DEF RateLimited
      <4>3. Cardinality(checking') \in Nat /\ Cardinality(checking') <= Cardinality(Attempts)
        BY <1>1, AttemptFacts
      <4>4. Cardinality(Attempts) \in Nat
        BY AttemptFacts
      <4>5. QED
        BY <2>1, <4>1, <4>2, <4>3, <4>4, LimiterAssumption DEF Most
    <3>2. CASE TimePasses
      <4>1. now' = now + 1 /\ checking' = checking
        BY <3>2 DEF TimePasses
      <4>2. now' - e.first < Window => now - e.first < Window
        BY <1>T, <2>1, <4>1, LimiterAssumption
      <4>3. QED
        BY <2>1, <4>1, <4>2 DEF EntryInv
    <3>3. QED
      BY <3>1, <3>2
  <2>4. Earlier(e)' = Earlier(e)
    BY <1>1 DEF Earlier
  <2>5. QED
    BY <1>1, <2>1, <2>2, <2>3, <2>4 DEF EntryInv
<1>4. QED
  BY <1>1, <1>2, <1>3 DEF LimiterInv

(* _record_failure opens an entry: what fell out of the last one's window  *)
(* does not count, and its first failure is too old.                       *)
LEMMA OpeningBound ==
  ASSUME LimiterInv, NEW e \in entry, ~(now - e.first < Window)
  PROVE  Cardinality({i \in 1..Len(failed) : now - failed[i] < Window}) <= Most - 1
<1> DEFINE n == Len(failed)
           S == {i \in 1..n : now - failed[i] < Window}
<1>1. /\ EntryInv(e) /\ e.count \in Nat /\ e.first \in Nat /\ now \in Nat /\ n \in Nat
      /\ \A i \in 1..n : failed[i] \in Nat
  BY DEF LimiterInv
<1>2. /\ e.count \in 1..n /\ e.count <= Most
      /\ failed[n - e.count + 1] = e.first
      /\ \A i \in 1..(n - e.count) : failed[i] <= e.first
  BY <1>1 DEF EntryInv
<1> HIDE DEF n
<1>3. \A i \in 1..(n - e.count + 1) : i \in 1..n /\ failed[i] <= e.first
  <2> TAKE i \in 1..(n - e.count + 1)
  <2>1. i \in 1..(n - e.count) \/ i = n - e.count + 1
    BY <1>1, <1>2
  <2>2. QED
    BY <1>1, <1>2, <2>1
<1>4. \A i \in 1..(n - e.count + 1) : ~(now - failed[i] < Window)
  BY <1>1, <1>3, LimiterAssumption
<1>5. S \in SUBSET ((n - e.count + 2)..n)
  BY <1>1, <1>2, <1>4
<1>6. n - e.count + 2 \in Nat /\ n - e.count + 2 >= 1 /\ n - e.count + 2 <= n + 1
  BY <1>1, <1>2
<1> HIDE DEF S
<1>7. Cardinality(S) <= n + 1 - (n - e.count + 2) /\ Cardinality(S) \in Nat
  BY <1>1, <1>5, <1>6, IndexCount
<1>8. Cardinality(S) <= Most - 1
  BY <1>1, <1>2, <1>7, AttemptFacts
<1>9. QED
  BY <1>8 DEF S, n

(* A failed login is recorded. *)
LEMMA FailedStep ==
  ASSUME LimiterInv, FailedLogin
  PROVE  LimiterInv'
<1> DEFINE n == Len(failed)
<1>T. /\ now \in Nat /\ checking \in SUBSET Attempts /\ failed \in Seq(Nat) /\ n \in Nat
      /\ \A i \in 1..n : failed[i] \in Nat /\ failed[i] <= now
  BY DEF LimiterInv
<1>1. PICK a \in checking :
        /\ entry' = RecordFailure /\ checking' = checking \ {a} /\ failed' = Append(failed, now)
        /\ now' = now
  BY DEF FailedLogin
<1>2. /\ failed' \in Seq(Nat) /\ Len(failed') = n + 1 /\ failed'[n + 1] = now
      /\ \A i \in 1..n : failed'[i] = failed[i]
  BY <1>T, <1>1
<1>3. /\ checking' \in SUBSET Attempts
      /\ Cardinality(checking') = Cardinality(checking) - 1
      /\ Cardinality(checking) \in Nat /\ Cardinality(checking) <= Cardinality(Attempts)
      /\ Cardinality(checking') \in Nat
  <2>1. IsFiniteSet(checking) /\ Cardinality(checking) \in Nat /\ Cardinality(checking) <= Cardinality(Attempts)
    BY <1>T, AttemptFacts
  <2>2. Cardinality(checking') = Cardinality(checking) - 1
    BY <1>1, <2>1, FS_RemoveElement
  <2>3. checking' \in SUBSET Attempts
    BY <1>T, <1>1
  <2>4. QED
    BY <2>1, <2>2, <2>3, AttemptFacts
<1>4. \A i \in 1..(n + 1) : failed'[i] <= now'
  <2> TAKE i \in 1..(n + 1)
  <2>1. i \in 1..n \/ i = n + 1
    BY <1>T
  <2>2. QED
    BY <1>T, <1>1, <1>2, <2>1
<1>5. ASSUME NEW d \in [count : Nat, first : Nat], entry' = {d}, EntryInv(d)'
      PROVE  LimiterInv'
  <2>1. d \in [count : Nat, first : Nat]
    OBVIOUS
  <2> HIDE DEF n
  <2>2. entry' # {} /\ (\A x, y \in entry' : x = y) /\ entry' \in SUBSET [count : Nat, first : Nat]
    BY <1>5
  <2>3. \A x \in entry' : EntryInv(x)'
    BY <1>5
  <2>4. QED
    BY <1>T, <1>1, <1>2, <1>3, <1>4, <2>2, <2>3 DEF LimiterInv, n
<1>6. CASE \A e \in entry : ~(now - e.first < Window)
  <2>1. PICK d \in [count : Nat, first : Nat] : entry' = {d} /\ d.count = 1 /\ d.first = now
    <3>1. entry' = {[count |-> 1, first |-> now]}
      BY <1>1, <1>6 DEF RecordFailure
    <3>2. [count |-> 1, first |-> now] \in [count : Nat, first : Nat]
      BY <1>T
    <3> DEFINE x == [count |-> 1, first |-> now]
    <3>3. x.count = 1 /\ x.first = now
      OBVIOUS
    <3> HIDE DEF x
    <3>4. entry' = {x} /\ x \in [count : Nat, first : Nat]
      BY <3>1, <3>2 DEF x
    <3>5. QED
      BY <3>3, <3>4
  <2>2. Cardinality(Earlier(d)') <= Most - 1
    <3>1. Earlier(d)' = {i \in 1..n : now - failed[i] < Window}
      <4>1. Earlier(d)' = {i \in 1..(n + 1 - 1) : now - failed'[i] < Window}
        BY <1>2, <2>1 DEF Earlier
      <4>2. n + 1 - 1 = n
        BY <1>T
      <4>3. QED
        BY <1>2, <4>1, <4>2
    <3>2. CASE entry = {}
      <4>1. n = 0
        BY <3>2 DEF LimiterInv
      <4>2. Earlier(d)' = {}
        BY <3>1, <4>1
      <4>3. QED
        BY <4>2, FS_EmptySet, AttemptFacts
    <3>3. CASE entry # {}
      <4>1. PICK e \in entry : ~(now - e.first < Window)
        BY <1>6, <3>3
      <4>2. QED
        BY <3>1, <4>1, OpeningBound
    <3>4. QED
      BY <3>2, <3>3
  <2>3. d.count \in 1..(n + 1) /\ n + 1 - d.count = n
    BY <1>T, <2>1
  <2>4. d.count + Cardinality(checking') <= Most
    BY <1>3, <2>1, AttemptFacts
  <2>5. \A i \in (n + 1)..(n + 1) : d.first <= failed'[i]
    BY <1>T, <1>2, <2>1
  <2>6. \A i \in 1..n : failed'[i] <= d.first
    BY <1>T, <1>2, <2>1
  <2>7. d.count <= Most /\ d.first <= now' /\ failed'[n + 1] = d.first
    BY <1>T, <1>1, <1>2, <2>1, AttemptFacts
  <2>8. EntryInv(d)'
    BY <1>2, <2>2, <2>3, <2>4, <2>5, <2>6, <2>7 DEF EntryInv
  <2>9. QED
    BY <1>5, <2>1, <2>8
<1>7. CASE \E e \in entry : now - e.first < Window
  <2>1. PICK e \in [count : Nat, first : Nat] : entry = {e} /\ EntryInv(e)
    BY <1>7, TheEntry
  <2>2. now - e.first < Window /\ e.count \in Nat /\ e.first \in Nat
    BY <1>7, <2>1
  <2>3. entry' = {[e EXCEPT !.count = e.count + 1]}
    <3>1. {x \in entry : now - x.first < Window} = {e}
      BY <2>1, <2>2
    <3>2. QED
      BY <1>1, <2>1, <3>1 DEF RecordFailure
  <2>4. PICK d \in [count : Nat, first : Nat] : entry' = {d} /\ d.count = e.count + 1 /\ d.first = e.first
    <3> DEFINE x == [e EXCEPT !.count = e.count + 1]
    <3>1. x \in [count : Nat, first : Nat] /\ x.count = e.count + 1 /\ x.first = e.first
      BY <2>1, <2>2
    <3>2. entry' = {x}
      BY <2>3
    <3> HIDE DEF x
    <3>3. QED
      BY <3>1, <3>2
  <2>5. /\ e.count \in 1..n /\ e.first <= now /\ failed[n - e.count + 1] = e.first
        /\ (\A i \in 1..(n - e.count) : failed[i] <= e.first)
        /\ (\A i \in (n - e.count + 1)..n : e.first <= failed[i])
        /\ e.count + Cardinality(checking) <= Most
        /\ Cardinality(Earlier(e)) <= Most - 1
    BY <2>1, <2>2 DEF EntryInv
  <2>6. n + 1 - d.count = n - e.count /\ d.count \in 1..(n + 1)
    BY <1>T, <2>2, <2>4, <2>5
  <2>7. \A i \in 1..(n - e.count + 1) : i \in 1..n
    BY <1>T, <2>2, <2>5
  <2>8. n - e.count + 1 \in 1..n /\ \A i \in 1..(n - e.count) : i \in 1..n
    BY <1>T, <2>2, <2>5
  <2>9. Earlier(d)' = Earlier(e)
    <3>1. Earlier(d)' = {i \in 1..(n + 1 - d.count) : d.first - failed'[i] < Window}
      BY <1>2 DEF Earlier
    <3>2. QED
      BY <1>2, <2>4, <2>6, <2>8, <3>1 DEF Earlier
  <2>10. d.count + Cardinality(checking') <= Most
    BY <1>3, <2>2, <2>4, <2>5, AttemptFacts
  <2>11. d.count <= Most
    BY <1>3, <2>2, <2>4, <2>10, AttemptFacts
  <2>12. failed'[n - e.count + 1] = d.first /\ d.first <= now'
    BY <1>1, <1>2, <2>4, <2>5, <2>8
  <2>13. \A i \in 1..(n - e.count) : failed'[i] <= d.first
    BY <1>2, <2>4, <2>5, <2>8
  <2>14. \A i \in (n - e.count + 1)..(n + 1) : d.first <= failed'[i]
    <3> TAKE i \in (n - e.count + 1)..(n + 1)
    <3>1. (i \in (n - e.count + 1)..n /\ i \in 1..n) \/ i = n + 1
      BY <1>T, <2>2, <2>5
    <3>2. QED
      BY <1>2, <2>4, <2>5, <3>1
  <2>15. EntryInv(d)'
    BY <1>2, <2>5, <2>6, <2>9, <2>10, <2>11, <2>12, <2>13, <2>14 DEF EntryInv
  <2>16. QED
    BY <1>5, <2>3, <2>4, <2>15
<1>8. QED
  BY <1>6, <1>7

(* The inductive invariant of the limiter. *)
THEOREM LimiterInvariance == LimiterSpec => []LimiterInv
<1>1. LimiterInit => LimiterInv
  BY DEF LimiterInit, LimiterInv
<1>2. LimiterInv /\ [LimiterNext]_limiterVars => LimiterInv'
  <2> SUFFICES ASSUME LimiterInv, [LimiterNext]_limiterVars PROVE LimiterInv'
    OBVIOUS
  <2>1. CASE SuccessfulLogin
    BY <2>1 DEF SuccessfulLogin, LimiterInv
  <2>2. CASE UNCHANGED limiterVars
    <3>1. \A e : EntryInv(e)' <=> EntryInv(e)
      BY <2>2 DEF limiterVars, EntryInv, Earlier
    <3>2. QED
      BY <2>2, <3>1 DEF limiterVars, LimiterInv
  <2>3. QED
    BY <2>1, <2>2, OtherLimiterStep, FailedStep DEF LimiterNext
<1>3. QED
  BY <1>1, <1>2, PTL DEF LimiterSpec

(* The limiter of _rate_limited and _record_failure is fair for any limit, *)
(* any window and any number of overlapping attempts: a refusal has a full *)
(* count of failures within the last window behind it, and a window sees   *)
(* less than two full counts of failures.                                  *)
THEOREM LimiterIsFair == LimiterSpec => []LimiterFair
<1>1. LimiterInv => LimiterFair
  <2> SUFFICES ASSUME LimiterInv PROVE LimiterFair
    OBVIOUS
  <2> DEFINE n == Len(failed)
             S == {i \in 1..n : now - failed[i] < Window}
  <2>1. /\ now \in Nat /\ n \in Nat /\ DOMAIN failed = 1..n /\ Window \in Nat
        /\ \A i \in 1..n : failed[i] \in Nat /\ failed[i] <= now
    BY LimiterAssumption DEF LimiterInv
  <2>2. Recent = Cardinality(S)
    BY <2>1 DEF Recent
  <2>3. Most \in Nat /\ Most >= 1 /\ MaxFailures \in Nat /\ Cardinality(Attempts) \in Nat
    BY AttemptFacts, LimiterAssumption
  <2>4. IsFiniteSet(S) /\ Cardinality(S) \in Nat
    <3>1. S \in SUBSET (1..n) /\ 1 \in Nat /\ 1 >= 1 /\ 1 <= n + 1
      BY <2>1
    <3> HIDE DEF S
    <3>2. QED
      BY <2>1, <3>1, IndexCount
  <2>5. ASSUME NEW e \in entry, now - e.first < Window
        PROVE  e.count <= Cardinality(S) /\ Cardinality(S) <= 2 * Most - 1
    <3>1. EntryInv(e) /\ e.count \in Nat /\ e.first \in Nat
      BY DEF LimiterInv
    <3> DEFINE own == (n - e.count + 1)..n
               old == {i \in 1..(n - e.count) : e.first - failed[i] < Window}
    <3>2. /\ e.count \in 1..n /\ e.first <= now /\ e.count <= Most
          /\ (\A i \in own : e.first <= failed[i])
          /\ Cardinality(old) <= Most - 1
      BY <3>1 DEF EntryInv, Earlier
    <3>3. n - e.count + 1 \in Nat /\ n - e.count + 1 >= 1 /\ n - e.count + 1 <= n + 1
      BY <2>1, <3>1, <3>2
    <3>4. IsFiniteSet(own) /\ Cardinality(own) = e.count
      <4>1. own \in SUBSET ((n - e.count + 1)..n)
        OBVIOUS
      <4>2. IsFiniteSet(own) /\ Cardinality(own) = n + 1 - (n - e.count + 1)
        BY <2>1, <3>3, <4>1, IndexCount
      <4>3. QED
        BY <2>1, <3>1, <4>2
    <3>5. own \in SUBSET S
      <4> SUFFICES ASSUME NEW i \in own PROVE i \in 1..n /\ now - failed[i] < Window
        OBVIOUS
      <4>1. i \in 1..n
        BY <2>1, <3>1, <3>2
      <4>2. QED
        BY <2>1, <2>5, <3>1, <3>2, <4>1
    <3>6. S \in SUBSET (own \cup old)
      <4> SUFFICES ASSUME NEW i \in 1..n, now - failed[i] < Window, i \notin own
                   PROVE  i \in 1..(n - e.count) /\ e.first - failed[i] < Window
        OBVIOUS
      <4>1. i \in 1..(n - e.count)
        BY <2>1, <3>1, <3>2
      <4>2. QED
        BY <2>1, <3>1, <3>2, <4>1
    <3>7. IsFiniteSet(old) /\ Cardinality(old) \in Nat
      <4>1. old \in SUBSET (1..(n - e.count)) /\ n - e.count \in Nat /\ 1 <= n - e.count + 1
        BY <2>1, <3>1, <3>2
      <4> HIDE DEF old
      <4>2. QED
        BY <4>1, IndexCount
    <3> HIDE DEF own, old, S, n
    <3>8. e.count <= Cardinality(S)
      BY <2>4, <3>4, <3>5, FS_Subset
    <3>9. IsFiniteSet(own \cup old) /\ Cardinality(own \cup old) <= e.count + Cardinality(old)
      <4>1. /\ IsFiniteSet(own \cup old)
            /\ Cardinality(own \cup old) = Cardinality(own) + Cardinality(old) - Cardinality(own \cap old)
        BY <3>4, <3>7, FS_Union
      <4>2. Cardinality(own \cap old) \in Nat
        BY <3>7, FS_Subset, FS_CardinalityType
      <4>3. QED
        BY <3>1, <3>4, <3>7, <4>1, <4>2
    <3>10. Cardinality(S) <= Cardinality(own \cup old) /\ Cardinality(own \cup old) \in Nat
      BY <3>6, <3>9, FS_Subset, FS_CardinalityType
    <3>11. QED
      BY <2>3, <2>4, <3>1, <3>2, <3>7, <3>8, <3>9, <3>10
  <2>6. RefusalHasReason
    <3> SUFFICES ASSUME RateLimited PROVE Recent >= MaxFailures
      BY DEF RefusalHasReason
    <3>1. PICK e \in entry : e.count >= MaxFailures /\ now - e.first < Window
      BY DEF RateLimited
    <3>2. e.count <= Cardinality(S) /\ e.count \in Nat
      BY <2>5, <3>1 DEF LimiterInv
    <3> HIDE DEF S
    <3>3. QED
      BY <2>2, <2>3, <2>4, <3>1, <3>2
  <2>7. Cardinality(S) <= 2 * Most - 1
    <3>1. CASE entry = {}
      <4>1. S = {}
        BY <3>1 DEF LimiterInv
      <4>2. Cardinality(S) = 0
        BY <4>1, FS_EmptySet
      <4> HIDE DEF S
      <4>3. QED
        BY <2>3, <4>2
    <3>2. CASE \E e \in entry : now - e.first < Window
      BY <2>5, <3>2
    <3>3. CASE \E e \in entry : ~(now - e.first < Window)
      <4>1. Cardinality(S) <= Most - 1
        BY <3>3, OpeningBound
      <4> HIDE DEF S
      <4>2. QED
        BY <2>3, <2>4, <4>1
    <3>4. QED
      BY <3>1, <3>2, <3>3
  <2>8. FailuresBounded
    BY <2>2, <2>7 DEF FailuresBounded, Most
  <2>9. QED
    BY <2>6, <2>8 DEF LimiterFair
<1>2. QED
  BY <1>1, LimiterInvariance, PTL
=============================================================================
