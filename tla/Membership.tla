----------------------------- MODULE Membership -----------------------------
(***************************************************************************)
(* The members of one shared workspace: what its admins change by hand     *)
(* (backend/app/api/workspaces.py) and what the OIDC group sync of every   *)
(* login changes (sync_oidc_group_memberships in provisioning.py).         *)
(*                                                                         *)
(* Each request reads the rows it decides on and commits its change after  *)
(* further awaits, so a request is two steps: op[t] holds the change task  *)
(* t has decided on and not committed yet.  A global admin may send any of *)
(* the requests at any time.                                               *)
(*                                                                         *)
(* In a pending change, stale says that the row it names is gone; history  *)
(* is kept in overtaken, for the properties only: anything else was        *)
(* committed, or the mapping changed, since the task read its rows.        *)
(***************************************************************************)
EXTENDS Naturals, FiniteSets

CONSTANTS
  Users,
  Requests,   \* tasks that serve requests of admins
  Logins,     \* tasks that serve OIDC callbacks
  Tiers       \* the roles that may be mapped to a group (others are left blank)

ASSUME MembershipAssumption ==
  /\ Requests \cap Logins = {} /\ Users # {}
  /\ Tiers \subseteq {"viewer", "member", "admin"}

Tasks == Requests \cup Logins

VARIABLES
  member,   \* the workspace_members row of each user
  mapped,   \* the roles for which the workspace names an OIDC group
  groups,   \* the roles whose groups the IdP puts the user in
  op        \* the change a task is about to commit

vars == <<member, mapped, groups, op>>

Role  == {"viewer", "member", "admin"}
NoRow == [role |-> "none", source |-> "none"]
Row(r, s) == [role |-> r, source |-> s]
Rows  == {NoRow} \cup [role : Role, source : {"manual", "oidc"}]

Kind == {"add", "change", "remove", "grant", "update", "revoke", "nothing"}
Ops  == [kind : Kind, user : Users, role : Role \cup {"none"},
         stale : BOOLEAN, overtaken : BOOLEAN]
Idle == [kind |-> "idle"]

Op(k, u, r) == [kind |-> k, user |-> u, role |-> r, stale |-> FALSE, overtaken |-> FALSE]

(* The creator of the workspace is its first admin. *)
Init ==
  /\ \E c \in Users : member = [u \in Users |-> IF u = c THEN Row("admin", "manual") ELSE NoRow]
  /\ mapped \in SUBSET Tiers
  /\ groups \in [Users -> SUBSET Tiers]
  /\ op = [t \in Tasks |-> Idle]

IsMember(u) == member[u] # NoRow
Admins == {u \in Users : member[u].role = "admin"}

Overtaken(o) == IF o = Idle THEN o ELSE [o EXCEPT !.overtaken = TRUE]

Begin(t, o) ==
  /\ op[t] = Idle
  /\ op' = [op EXCEPT ![t] = o]
  /\ UNCHANGED <<member, mapped, groups>>
-----------------------------------------------------------------------------
(* Requests of admins *)

(* add_member: 409 if the user has a row already. *)
AddMember(q) ==
  \E u \in Users, r \in Role : ~IsMember(u) /\ Begin(q, Op("add", u, r))

(* Mutant: the guard counts members instead of admins. *)
GuardLastMember(u, newRole) ==
  newRole = "admin" \/ ~(Cardinality({v \in Users : IsMember(v)}) <= 1 /\ IsMember(u))

(* _guard_last_admin *)
GuardLastAdmin(u, newRole) ==
  newRole = "admin" \/ ~(Cardinality(Admins) <= 1 /\ u \in Admins)

ChangeMemberRole(q) ==
  \E u \in Users, r \in Role :
    IsMember(u) /\ GuardLastAdmin(u, r) /\ Begin(q, Op("change", u, r))

RemoveMember(q) ==
  \E u \in Users :
    IsMember(u) /\ GuardLastAdmin(u, "none") /\ Begin(q, Op("remove", u, "none"))

(* update_workspace: each group name may be set or cleared. *)
UpdateWorkspace ==
  /\ mapped' \in SUBSET Tiers
  /\ op' = [t \in Tasks |-> Overtaken(op[t])]
  /\ UNCHANGED <<member, groups>>
-----------------------------------------------------------------------------
(* OIDC logins *)

(* The identity provider moves a user between groups. *)
GroupsChange(u) ==
  /\ \E g \in SUBSET Tiers : groups' = [groups EXCEPT ![u] = g]
  /\ op' = [t \in Tasks |-> Overtaken(op[t])]
  /\ UNCHANGED <<member, mapped>>

(* _entitled_role: the highest role the user's groups grant. *)
Entitled(u) ==
  LET granted == mapped \cap groups[u] IN
  IF "admin" \in granted THEN "admin"
  ELSE IF "member" \in granted THEN "member"
  ELSE IF "viewer" \in granted THEN "viewer" ELSE "none"

(* The sync looks at the workspace only if it names a group, and leaves a  *)
(* row set by hand alone.                                                  *)
Synced(u) == mapped # {} /\ member[u].source # "manual"

(* Mutant: a membership is not revoked. *)
SyncNeverRevokes(u) ==
  LET r == Entitled(u) IN
  CASE Synced(u) /\ r # "none" /\ ~IsMember(u)                  -> Op("grant", u, r)
    [] Synced(u) /\ r # "none" /\ IsMember(u) /\ member[u].role # r -> Op("update", u, r)
    [] OTHER                                                     -> Op("nothing", u, "none")

(* sync_oidc_group_memberships, for this workspace. *)
Sync(u) ==
  LET r == Entitled(u) IN
  CASE Synced(u) /\ r # "none" /\ ~IsMember(u)                  -> Op("grant", u, r)
    [] Synced(u) /\ r # "none" /\ IsMember(u) /\ member[u].role # r -> Op("update", u, r)
    [] Synced(u) /\ r = "none" /\ IsMember(u)                   -> Op("revoke", u, "none")
    [] OTHER                                                     -> Op("nothing", u, "none")

Login(l) == \E u \in Users : Begin(l, Sync(u))
-----------------------------------------------------------------------------
(* The commits.  An UPDATE or DELETE names the row that was read: when it  *)
(* is gone, an UPDATE raises and a DELETE has no effect.  An INSERT for a  *)
(* user who has a row by now violates uq_ws_member.                        *)

(* The row after the commit. *)
Written(o) ==
  CASE o.kind = "add"    -> Row(o.role, "manual")
    [] o.kind = "grant"  -> Row(o.role, "oidc")
    [] o.kind = "change" -> Row(o.role, "manual")
    [] o.kind = "update" -> [member[o.user] EXCEPT !.role = o.role]
    [] o.kind \in {"remove", "revoke"} -> NoRow
    [] OTHER             -> member[o.user]

CommitSucceeds(o) ==
  IF o.kind \in {"add", "grant"} THEN ~IsMember(o.user) ELSE ~o.stale

Commit(t) ==
  /\ op[t] # Idle
  /\ LET o == op[t] IN
       /\ member' = IF CommitSucceeds(o) THEN [member EXCEPT ![o.user] = Written(o)] ELSE member
       /\ op' = [s \in Tasks |->
                   IF s = t THEN Idle
                   ELSE IF op[s] # Idle /\ op[s].user = o.user /\ member'[o.user] = NoRow
                     THEN [Overtaken(op[s]) EXCEPT !.stale = TRUE] ELSE Overtaken(op[s])]
  /\ UNCHANGED <<mapped, groups>>

Next ==
  \/ \E q \in Requests : AddMember(q) \/ ChangeMemberRole(q) \/ RemoveMember(q)
  \/ UpdateWorkspace
  \/ \E u \in Users : GroupsChange(u)
  \/ \E l \in Logins : Login(l)
  \/ \E t \in Tasks : Commit(t)

Spec == Init /\ [][Next]_vars
-----------------------------------------------------------------------------
TypeOK ==
  /\ member \in [Users -> Rows]
  /\ mapped \in SUBSET Role /\ groups \in [Users -> SUBSET Role]
  /\ op \in [Tasks -> Ops \cup {Idle}]

(* Task t commits what it has decided on. *)
Commits(t) == op[t] # Idle /\ op'[t] = Idle

(* _guard_last_admin: "Prevent removing/demoting the last admin of a       *)
(* workspace."  No request does, as long as nothing overtakes it between   *)
(* its guard and its commit.                                               *)
KeepsAdmin ==
  [][\A q \in Requests :
       (Commits(q) /\ ~op[q].overtaken /\ Admins # {}) => Admins' # {}]_vars

(* docs/AUTH.md: "A membership an admin set by hand is never touched" by   *)
(* the group sync.  Any other user has after a login exactly the highest   *)
(* role that the user's groups grant, whatever earlier logins and removals *)
(* left, while the workspace names any group.  Both as long as nothing     *)
(* overtakes the login.                                                    *)
SyncIsExact ==
  [][\A l \in Logins :
       LET u == op[l].user IN
       (Commits(l) /\ ~op[l].overtaken) =>
         IF member[u].source = "manual" THEN member' = member
         ELSE mapped # {} => member'[u].role = Entitled(u)]_vars
=============================================================================
