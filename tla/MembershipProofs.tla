-------------------------- MODULE MembershipProofs ---------------------------
(***************************************************************************)
(* Proofs about Membership, for any users, requests, logins and roles that *)
(* are mapped to groups.                                                   *)
(***************************************************************************)
EXTENDS Membership, FiniteSetTheorems, TLAPS

(* What a request has decided on is what its guard let through.            *)
Guarded(o) ==
  \/ o.kind = "add"
  \/ o.kind = "change" /\ GuardLastAdmin(o.user, o.role)
  \/ o.kind = "remove" /\ GuardLastAdmin(o.user, "none")

(* A change that nothing has overtaken is one that would be decided on     *)
(* now: the rows are those that were read.                                 *)
Fresh ==
  \A t \in Tasks : (op[t] # Idle /\ ~op[t].overtaken) =>
    /\ ~op[t].stale
    /\ t \in Requests => Guarded(op[t])
    /\ t \in Logins => op[t] = Sync(op[t].user)

(* The operations and rows are typed.                                      *)
LEMMA OpTyped ==
  ASSUME NEW k \in Kind, NEW u \in Users, NEW r \in Role \cup {"none"}
  PROVE  /\ Op(k, u, r) \in Ops /\ Op(k, u, r) # Idle
         /\ Op(k, u, r).kind = k /\ Op(k, u, r).user = u /\ Op(k, u, r).role = r
         /\ ~Op(k, u, r).stale /\ ~Op(k, u, r).overtaken
BY DEF Op, Ops, Kind, Idle

(* A pending change is told apart from none by its kind.                   *)
LEMMA PendingKind == \A o \in Ops : o # Idle /\ o.kind \in Kind
BY DEF Ops, Idle, Kind

(* What is overtaken stays pending, and is marked.                         *)
LEMMA OvertakenOp ==
  ASSUME NEW o \in Ops \cup {Idle}
  PROVE  /\ Overtaken(o) \in Ops \cup {Idle}
         /\ (o = Idle <=> Overtaken(o) = Idle)
         /\ (o # Idle => Overtaken(o).overtaken)
<1>1. CASE o = Idle
  BY <1>1 DEF Overtaken
<1>2. CASE o # Idle
  <2>1. o \in Ops /\ Overtaken(o) = [o EXCEPT !.overtaken = TRUE]
    BY <1>2 DEF Overtaken
  <2>2. Overtaken(o) \in Ops /\ Overtaken(o).overtaken
    BY <2>1 DEF Ops
  <2> QED BY <1>2, <2>2, PendingKind
<1> QED BY <1>1, <1>2

(* The role that the groups grant.                                         *)
LEMMA EntitledTyped == \A u : Entitled(u) \in Role \cup {"none"}
BY DEF Entitled, Role

(* What a login decides on is a typed operation that names its user.       *)
LEMMA SyncTyped ==
  ASSUME NEW u \in Users, member[u] \in Rows
  PROVE  /\ Sync(u) \in Ops /\ Sync(u) # Idle
         /\ Sync(u).user = u /\ ~Sync(u).stale /\ ~Sync(u).overtaken
         /\ Sync(u).kind \in {"nothing", "grant", "update", "revoke"}
<1>1. PICK k \in {"nothing", "grant", "update", "revoke"}, r \in Role \cup {"none"} :
        Sync(u) = Op(k, u, r)
  BY EntitledTyped DEF Sync
<1>2. k \in Kind
  BY DEF Kind
<1> QED BY <1>1, <1>2, OpTyped

(* A change that writes a role has one, and one that updates a row that is *)
(* not gone finds it.                                                      *)
Sensible(o, rows) ==
  /\ o.kind \in {"add", "change", "grant", "update"} => o.role \in Role
  /\ (o.kind = "update" /\ ~o.stale) => rows[o.user] # NoRow

Pending == \A t \in Tasks : op[t] # Idle => Sensible(op[t], member)

MembershipInv == TypeOK /\ Pending /\ Fresh

(* The row that a commit writes.                                           *)
LEMMA WrittenTyped ==
  ASSUME NEW o \in Ops, member[o.user] \in Rows, Sensible(o, member), CommitSucceeds(o)
  PROVE  Written(o) \in Rows
<1>1. CASE o.kind = "add" \/ o.kind = "change"
  <2>1. Written(o) = Row(o.role, "manual") /\ o.role \in Role
    BY <1>1 DEF Written, Sensible
  <2> QED BY <2>1 DEF Row, Rows
<1>2. CASE o.kind = "grant"
  <2>1. Written(o) = Row(o.role, "oidc") /\ o.role \in Role
    BY <1>2 DEF Written, Sensible
  <2> QED BY <2>1 DEF Row, Rows
<1>3. CASE o.kind = "update"
  <2>1. Written(o) = [member[o.user] EXCEPT !.role = o.role] /\ o.role \in Role
    BY <1>3 DEF Written, Sensible
  <2>2. member[o.user] \in [role : Role, source : {"manual", "oidc"}]
    BY <1>3 DEF Sensible, CommitSucceeds, IsMember, Rows
  <2> QED BY <2>1, <2>2 DEF Rows
<1>4. CASE o.kind \in {"remove", "revoke"}
  BY <1>4 DEF Written, Rows
<1>5. CASE o.kind = "nothing"
  BY <1>5 DEF Written
<1> QED BY <1>1, <1>2, <1>3, <1>4, <1>5 DEF Ops, Kind

(* The workspace starts with its creator and nothing under way.            *)
LEMMA MembershipInitInv == Init => MembershipInv
<1> SUFFICES ASSUME Init PROVE MembershipInv
  OBVIOUS
<1>1. TypeOK
  <2>1. PICK c \in Users : member = [u \in Users |-> IF u = c THEN Row("admin", "manual") ELSE NoRow]
    BY DEF Init
  <2>2. member \in [Users -> Rows]
    BY <2>1 DEF Rows, Row, Role
  <2>3. mapped \in SUBSET Role /\ groups \in [Users -> SUBSET Role]
    BY MembershipAssumption DEF Init, Role
  <2> QED BY <2>2, <2>3 DEF Init, TypeOK
<1>2. Pending /\ Fresh
  BY DEF Init, Pending, Fresh
<1> QED BY <1>1, <1>2 DEF MembershipInv

(* Decisions depend on the rows, the mapping and the groups alone.         *)
LEMMA SameDecisions ==
  ASSUME member' = member, mapped' = mapped, groups' = groups
  PROVE  /\ \A u : Sync(u)' = Sync(u)
         /\ \A o : Guarded(o)' <=> Guarded(o)
<1>1. \A u : Entitled(u)' = Entitled(u) /\ (IsMember(u)' <=> IsMember(u))
  BY DEF Entitled, IsMember
<1>2. \A u : Sync(u)' = Sync(u)
  BY <1>1 DEF Sync, Synced
<1>3. \A o : Guarded(o)' <=> Guarded(o)
  BY DEF Guarded, GuardLastAdmin, Admins
<1> QED BY <1>2, <1>3

(* The read of a request or of a login.                                    *)
LEMMA BeginKeeps ==
  ASSUME MembershipInv, NEW t \in Tasks, NEW o \in Ops, Begin(t, o), Sensible(o, member), ~o.stale,
         t \in Requests => Guarded(o), t \in Logins => o = Sync(o.user)
  PROVE  MembershipInv'
<1>1. /\ op \in [Tasks -> Ops \cup {Idle}] /\ op' = [op EXCEPT ![t] = o]
      /\ member' = member /\ mapped' = mapped /\ groups' = groups
  BY DEF Begin, MembershipInv, TypeOK
<1>2. op'[t] = o /\ \A s \in Tasks \ {t} : op'[s] = op[s]
  BY <1>1
<1>3. TypeOK'
  BY <1>1 DEF MembershipInv, TypeOK
<1>4. Pending'
  BY <1>1, <1>2, SameDecisions DEF MembershipInv, Pending
<1>5. Fresh'
  <2> SUFFICES ASSUME NEW s \in Tasks, op'[s] # Idle, ~op'[s].overtaken
               PROVE  /\ ~op'[s].stale
                      /\ s \in Requests => Guarded(op'[s])
                      /\ s \in Logins => op'[s] = Sync(op'[s].user)
    BY <1>1, SameDecisions DEF Fresh
  <2> QED BY <1>2 DEF MembershipInv, Fresh
<1> QED BY <1>3, <1>4, <1>5 DEF MembershipInv

(* The requests of admins, as they are read.                               *)
LEMMA RequestKeeps ==
  ASSUME MembershipInv, NEW q \in Requests, AddMember(q) \/ ChangeMemberRole(q) \/ RemoveMember(q)
  PROVE  MembershipInv'
<1>1. PICK u \in Users, r \in Role \cup {"none"}, k \in {"add", "change", "remove"} :
        /\ Begin(q, Op(k, u, r)) /\ (k = "remove" <=> r = "none")
        /\ k # "add" => GuardLastAdmin(u, r)
  BY DEF AddMember, ChangeMemberRole, RemoveMember, Role
<1>2. k \in Kind /\ q \in Tasks /\ q \notin Logins
  BY MembershipAssumption DEF Kind, Tasks
<1>3. /\ Op(k, u, r) \in Ops /\ Op(k, u, r).kind = k /\ Op(k, u, r).user = u
      /\ Op(k, u, r).role = r /\ ~Op(k, u, r).stale
  BY <1>2, OpTyped
<1>4. Guarded(Op(k, u, r))
  BY <1>1, <1>3 DEF Guarded
<1>5. Sensible(Op(k, u, r), member)
  BY <1>1, <1>3 DEF Sensible, Role
<1> QED BY <1>1, <1>2, <1>3, <1>4, <1>5, BeginKeeps

(* A login, as it is read.                                                 *)
LEMMA LoginKeeps == ASSUME MembershipInv, NEW l \in Logins, Login(l) PROVE MembershipInv'
<1>1. PICK u \in Users : Begin(l, Sync(u))
  BY DEF Login
<1>2. l \in Tasks /\ l \notin Requests
  BY MembershipAssumption DEF Tasks
<1>3. member[u] \in Rows
  BY DEF MembershipInv, TypeOK
<1>4. /\ Sync(u) \in Ops /\ Sync(u).user = u /\ ~Sync(u).stale
      /\ Sync(u).kind \in {"nothing", "grant", "update", "revoke"}
  BY <1>3, SyncTyped
<1>5. Sync(u).kind \in {"grant", "update"} => Sync(u).role \in Role
  BY EntitledTyped DEF Sync, Op
<1>6. Sync(u).kind = "update" => IsMember(u)
  BY DEF Sync, Op
<1>7. Sensible(Sync(u), member)
  BY <1>4, <1>5, <1>6 DEF Sensible, IsMember
<1> QED BY <1>1, <1>2, <1>4, <1>7, BeginKeeps

(* A change of the mapping or of the groups overtakes whatever is pending. *)
LEMMA MappingKeeps ==
  ASSUME MembershipInv, UpdateWorkspace \/ \E u \in Users : GroupsChange(u)
  PROVE  MembershipInv'
<1>1. op \in [Tasks -> Ops \cup {Idle}] /\ member \in [Users -> Rows]
  BY DEF MembershipInv, TypeOK
<1>2. op' = [t \in Tasks |-> Overtaken(op[t])] /\ member' = member
  BY DEF UpdateWorkspace, GroupsChange
<1>3. mapped' \in SUBSET Role /\ groups' \in [Users -> SUBSET Role]
  BY MembershipAssumption DEF UpdateWorkspace, GroupsChange, MembershipInv, TypeOK, Role
<1>4. ASSUME NEW t \in Tasks
      PROVE  /\ op'[t] = Overtaken(op[t]) /\ op'[t] \in Ops \cup {Idle}
             /\ (op[t] = Idle <=> op'[t] = Idle)
             /\ (op'[t] # Idle => op'[t].overtaken)
  <2>1. op[t] \in Ops \cup {Idle} /\ op'[t] = Overtaken(op[t])
    BY <1>1, <1>2
  <2> QED BY <2>1, OvertakenOp
<1>5. TypeOK'
  BY <1>1, <1>2, <1>3, <1>4 DEF TypeOK
<1>6. Pending'
  <2> SUFFICES ASSUME NEW t \in Tasks, op'[t] # Idle PROVE Sensible(op'[t], member')
    BY DEF Pending
  <2>1. op[t] \in Ops /\ op'[t] = [op[t] EXCEPT !.overtaken = TRUE]
    BY <1>1, <1>4 DEF Overtaken
  <2>2. op'[t].kind = op[t].kind /\ op'[t].role = op[t].role /\ op'[t].user = op[t].user
        /\ op'[t].stale = op[t].stale
    BY <2>1 DEF Ops
  <2>3. Sensible(op[t], member)
    BY <1>4 DEF MembershipInv, Pending
  <2> QED BY <1>2, <2>2, <2>3 DEF Sensible
<1>7. Fresh'
  BY <1>4 DEF Fresh
<1> QED BY <1>5, <1>6, <1>7 DEF MembershipInv

(* The other changes after a commit: overtaken, and stale if the row is    *)
(* gone.                                                                   *)
LEMMA CommitKeeps == ASSUME MembershipInv, NEW t \in Tasks, Commit(t) PROVE MembershipInv'
<1> DEFINE o == op[t]
           Gone(s) == op[s] # Idle /\ op[s].user = o.user /\ member'[o.user] = NoRow
<1>1. op \in [Tasks -> Ops \cup {Idle}] /\ member \in [Users -> Rows] /\ o \in Ops /\ o # Idle
  BY DEF MembershipInv, TypeOK, Commit
<1>2. /\ member' = IF CommitSucceeds(o) THEN [member EXCEPT ![o.user] = Written(o)] ELSE member
      /\ op' = [s \in Tasks |->
                  IF s = t THEN Idle
                  ELSE IF op[s] # Idle /\ op[s].user = o.user /\ member'[o.user] = NoRow
                    THEN [Overtaken(op[s]) EXCEPT !.stale = TRUE] ELSE Overtaken(op[s])]
      /\ mapped' = mapped /\ groups' = groups
  BY DEF Commit
<1>3. \A s \in Tasks : op'[s] = IF s = t THEN Idle
                                ELSE IF Gone(s) THEN [Overtaken(op[s]) EXCEPT !.stale = TRUE]
                                ELSE Overtaken(op[s])
  BY <1>2
<1>4. o.user \in Users /\ Sensible(o, member)
  BY <1>1 DEF Ops, MembershipInv, Pending
<1>5. member' \in [Users -> Rows] /\ \A u \in Users \ {o.user} : member'[u] = member[u]
  BY <1>1, <1>2, <1>4, WrittenTyped
<1> HIDE DEF o, Gone
<1>6. ASSUME NEW s \in Tasks, op'[s] # Idle
      PROVE  /\ s # t /\ op[s] \in Ops /\ op'[s] \in Ops /\ op'[s].overtaken
             /\ op'[s].kind = op[s].kind /\ op'[s].role = op[s].role /\ op'[s].user = op[s].user
             /\ op'[s].stale = (op[s].stale \/ Gone(s))
  <2>1. s # t
    BY <1>3, <1>6
  <2>2. CASE op[s] = Idle
    BY <1>3, <1>6, <2>1, <2>2 DEF Gone, Overtaken
  <2>3. CASE op[s] # Idle
    <3>1. op[s] \in Ops /\ Overtaken(op[s]) = [op[s] EXCEPT !.overtaken = TRUE]
      BY <1>1, <2>3 DEF Overtaken
    <3>2. /\ Overtaken(op[s]) \in Ops /\ Overtaken(op[s]).overtaken
          /\ Overtaken(op[s]).kind = op[s].kind /\ Overtaken(op[s]).role = op[s].role
          /\ Overtaken(op[s]).user = op[s].user /\ Overtaken(op[s]).stale = op[s].stale
      BY <3>1 DEF Ops
    <3>3. CASE Gone(s)
      <4>1. op'[s] = [Overtaken(op[s]) EXCEPT !.stale = TRUE]
        BY <1>3, <2>1, <3>3
      <4> QED BY <2>1, <3>1, <3>2, <3>3, <4>1 DEF Ops
    <3>4. CASE ~Gone(s)
      <4>1. op'[s] = Overtaken(op[s]) /\ op[s].stale \in BOOLEAN
        BY <1>3, <2>1, <3>1, <3>4 DEF Ops
      <4> QED BY <2>1, <3>1, <3>2, <3>4, <4>1
    <3> QED BY <3>3, <3>4
  <2> QED BY <2>2, <2>3
<1>7. TypeOK'
  <2>1. op' \in [Tasks -> Ops \cup {Idle}]
    BY <1>2, <1>6
  <2> QED BY <1>2, <1>5, <2>1 DEF MembershipInv, TypeOK
<1>8. Pending'
  <2> SUFFICES ASSUME NEW s \in Tasks, op'[s] # Idle PROVE Sensible(op'[s], member')
    BY DEF Pending
  <2>1. op[s] # Idle /\ op[s].user \in Users
    BY <1>6, PendingKind DEF Ops
  <2>2. Sensible(op[s], member)
    BY <2>1 DEF MembershipInv, Pending
  <2>3. ASSUME op'[s].kind = "update", ~op'[s].stale PROVE member'[op'[s].user] # NoRow
    <3>1. op[s].kind = "update" /\ ~op[s].stale /\ ~Gone(s) /\ op'[s].user = op[s].user
      BY <1>6, <2>3
    <3>2. member[op[s].user] # NoRow
      BY <2>2, <3>1 DEF Sensible
    <3>3. member'[op[s].user] # NoRow
      BY <1>4, <1>5, <2>1, <3>1, <3>2 DEF Gone
    <3> QED BY <3>1, <3>3
  <2> QED BY <1>6, <2>2, <2>3 DEF Sensible
<1>9. Fresh'
  BY <1>6 DEF Fresh
<1> QED BY <1>7, <1>8, <1>9 DEF MembershipInv

(* Every step keeps the invariant.                                         *)
LEMMA MembershipStep == ASSUME MembershipInv, [Next]_vars PROVE MembershipInv'
<1>1. CASE \E q \in Requests : AddMember(q) \/ ChangeMemberRole(q) \/ RemoveMember(q)
  BY <1>1, RequestKeeps
<1>2. CASE UpdateWorkspace \/ \E u \in Users : GroupsChange(u)
  BY <1>2, MappingKeeps
<1>3. CASE \E l \in Logins : Login(l)
  BY <1>3, LoginKeeps
<1>4. CASE \E t \in Tasks : Commit(t)
  BY <1>4, CommitKeeps
<1>5. CASE UNCHANGED vars
  <2>1. member' = member /\ mapped' = mapped /\ groups' = groups /\ op' = op
    BY <1>5 DEF vars
  <2>2. TypeOK'
    BY <2>1 DEF MembershipInv, TypeOK
  <2>3. Pending' /\ Fresh'
    BY <2>1, SameDecisions DEF MembershipInv, Pending, Fresh
  <2> QED BY <2>2, <2>3 DEF MembershipInv
<1> QED BY <1>1, <1>2, <1>3, <1>4, <1>5 DEF Next

(* The inductive invariant of Membership: rows and changes are typed, and  *)
(* what nothing has overtaken is up to date.                               *)
THEOREM MembershipInvariance == Spec => []MembershipInv
BY MembershipInitInv, MembershipStep, PTL DEF Spec

(* A pending change ends with the commit of its task alone.                *)
LEMMA OnlyCommitEnds ==
  ASSUME MembershipInv, [Next]_vars, NEW t \in Tasks, op[t] # Idle, op'[t] = Idle
  PROVE  Commit(t)
<1>1. op \in [Tasks -> Ops \cup {Idle}] /\ member \in [Users -> Rows]
  BY DEF MembershipInv, TypeOK
<1>2. \A s, o : Begin(s, o) => s = t \/ op'[t] = op[t]
  BY <1>1 DEF Begin
<1>3. \A s, o : Begin(s, o) => op[s] = Idle
  BY DEF Begin
<1>4. CASE \E q \in Requests : AddMember(q) \/ ChangeMemberRole(q) \/ RemoveMember(q)
  BY <1>2, <1>3, <1>4 DEF AddMember, ChangeMemberRole, RemoveMember
<1>5. CASE UpdateWorkspace \/ \E u \in Users : GroupsChange(u)
  <2>1. op'[t] = Overtaken(op[t])
    BY <1>5 DEF UpdateWorkspace, GroupsChange
  <2> QED BY <1>1, <2>1, OvertakenOp
<1>6. CASE \E l \in Logins : Login(l)
  BY <1>2, <1>3, <1>6 DEF Login
<1>7. CASE \E s \in Tasks : Commit(s)
  <2>1. PICK s \in Tasks : Commit(s)
    BY <1>7
  <2>2. CASE s # t
    <3>1. op'[t] = Overtaken(op[t]) \/ op'[t] = [Overtaken(op[t]) EXCEPT !.stale = TRUE]
      BY <2>1, <2>2 DEF Commit
    <3>2. Overtaken(op[t]) \in Ops
      BY <1>1, OvertakenOp
    <3>3. [Overtaken(op[t]) EXCEPT !.stale = TRUE] \in Ops
      BY <3>2 DEF Ops
    <3> QED BY <3>1, <3>2, <3>3, PendingKind
  <2> QED BY <2>1, <2>2
<1>8. CASE UNCHANGED vars
  BY <1>8 DEF vars
<1> QED BY <1>4, <1>5, <1>6, <1>7, <1>8 DEF Next

(* The commit of a request that its guard let through leaves an admin.     *)
LEMMA CommitLeavesAdmin ==
  ASSUME MembershipInv, NEW q \in Requests, Commit(q), ~op[q].overtaken, Admins # {}
  PROVE  Admins' # {}
<1> DEFINE o == op[q]
           u == o.user
<1>1. /\ q \in Tasks /\ o \in Ops /\ u \in Users /\ member \in [Users -> Rows]
      /\ Guarded(o) /\ Sensible(o, member)
      /\ member' = IF CommitSucceeds(o) THEN [member EXCEPT ![u] = Written(o)] ELSE member
  <2>1. q \in Tasks /\ o # Idle
    BY DEF Tasks, Commit
  <2>2. o \in Ops /\ member \in [Users -> Rows]
    BY <2>1 DEF MembershipInv, TypeOK
  <2>3. Guarded(o) /\ Sensible(o, member)
    BY <2>1 DEF MembershipInv, Fresh, Pending
  <2> QED BY <2>1, <2>2, <2>3 DEF Commit, Ops
<1> HIDE DEF o, u
<1>2. \A v \in Admins : v # u => v \in Admins'
  BY <1>1 DEF Admins
<1>3. CASE ~CommitSucceeds(o)
  BY <1>1, <1>3 DEF Admins
<1>4. CASE CommitSucceeds(o) /\ o.kind = "add"
  <2>1. member[u] = NoRow
    BY <1>4 DEF CommitSucceeds, IsMember, u
  <2>2. u \notin Admins
    BY <2>1 DEF Admins, NoRow
  <2> QED BY <1>2, <2>2
<1>5. CASE CommitSucceeds(o) /\ o.kind = "change" /\ o.role = "admin"
  <2>1. member' = [member EXCEPT ![u] = Row("admin", "manual")]
    BY <1>1, <1>5 DEF Written
  <2>2. member'[u].role = "admin"
    BY <1>1, <2>1 DEF Row
  <2> QED BY <1>1, <2>2 DEF Admins
<1>6. CASE ~(Cardinality(Admins) <= 1 /\ u \in Admins)
  <2>1. SUFFICES ASSUME \A v \in Admins : v = u PROVE FALSE
    BY <1>2
  <2>2. Admins = {u}
    BY <2>1
  <2>3. Cardinality(Admins) = 1
    BY <2>2, FS_Singleton
  <2> QED BY <1>6, <2>2, <2>3
<1>7. o.kind = "add" \/ (o.kind = "change" /\ o.role = "admin")
        \/ ~(Cardinality(Admins) <= 1 /\ u \in Admins)
  BY <1>1 DEF Guarded, GuardLastAdmin, u
<1> QED BY <1>3, <1>4, <1>5, <1>6, <1>7

(* _guard_last_admin keeps an admin in the workspace whenever nothing      *)
(* overtakes the request between guard and commit, for any users and any   *)
(* requests, logins and changes of the mapping before it.                  *)
THEOREM SpecKeepsAdmin == Spec => KeepsAdmin
<1>1. ASSUME MembershipInv, [Next]_vars, NEW q \in Requests,
             Commits(q), ~op[q].overtaken, Admins # {}
      PROVE  Admins' # {}
  <2>1. q \in Tasks
    BY DEF Tasks
  <2>2. Commit(q)
    BY <1>1, <2>1, OnlyCommitEnds DEF Commits
  <2> QED BY <1>1, <2>2, CommitLeavesAdmin
<1>2. MembershipInv /\ [Next]_vars
        => [\A q \in Requests : (Commits(q) /\ ~op[q].overtaken /\ Admins # {}) => Admins' # {}]_vars
  BY <1>1
<1> QED BY <1>2, MembershipInvariance, PTL DEF Spec, KeepsAdmin

(* The commit of a login that nothing overtook.                            *)
LEMMA CommitSyncs ==
  ASSUME MembershipInv, NEW l \in Logins, Commit(l), ~op[l].overtaken
  PROVE  IF member[op[l].user].source = "manual" THEN member' = member
         ELSE mapped # {} => member'[op[l].user].role = Entitled(op[l].user)
<1> DEFINE o == op[l]
           u == o.user
           r == Entitled(u)
<1>1. /\ u \in Users /\ member \in [Users -> Rows] /\ ~o.stale /\ o = Sync(u)
      /\ member' = IF CommitSucceeds(o) THEN [member EXCEPT ![u] = Written(o)] ELSE member
  <2>1. l \in Tasks /\ o # Idle
    BY DEF Tasks, Commit
  <2>2. o \in Ops /\ member \in [Users -> Rows]
    BY <2>1 DEF MembershipInv, TypeOK
  <2>3. ~o.stale /\ o = Sync(u)
    BY <2>1 DEF MembershipInv, Fresh
  <2> QED BY <2>2, <2>3 DEF Commit, Ops
<1>2. r \in Role \cup {"none"}
  BY EntitledTyped
<1> HIDE DEF o, u, r
<1>3. member[u] \in Rows
  BY <1>1
<1>4. ASSUME o = Op("nothing", u, "none") PROVE member' = member
  <2>1. Written(o) = member[u]
    BY <1>4 DEF Written, Op
  <2> QED BY <1>1, <2>1
<1>5. CASE mapped = {} \/ member[u].source = "manual"
  <2>1. o = Op("nothing", u, "none")
    BY <1>1, <1>5 DEF Sync, Synced
  <2>2. member' = member
    BY <1>4, <2>1
  <2> QED BY <1>5, <2>2 DEF u, o
<1>6. CASE mapped # {} /\ member[u].source # "manual"
  <2> SUFFICES member'[u].role = r
    BY <1>6 DEF u, o, r
  <2>1. CASE r # "none" /\ member[u] = NoRow
    <3>1. o = Op("grant", u, r)
      BY <1>1, <1>6, <2>1 DEF Sync, Synced, IsMember, r
    <3>2. CommitSucceeds(o) /\ Written(o) = Row(r, "oidc")
      BY <2>1, <3>1 DEF CommitSucceeds, IsMember, Written, Op
    <3> QED BY <1>1, <3>2 DEF Row
  <2>2. CASE r # "none" /\ member[u] # NoRow /\ member[u].role = r
    <3>1. o = Op("nothing", u, "none")
      BY <1>1, <1>6, <2>2 DEF Sync, Synced, IsMember, r
    <3> QED BY <1>4, <2>2, <3>1
  <2>3. CASE r # "none" /\ member[u] # NoRow /\ member[u].role # r
    <3>2. o = Op("update", u, r)
      BY <1>1, <1>6, <2>3 DEF Sync, Synced, IsMember, r
    <3>3. CommitSucceeds(o) /\ Written(o) = [member[u] EXCEPT !.role = r]
      BY <3>2 DEF CommitSucceeds, Written, Op
    <3>4. member[u] \in [role : Role, source : {"manual", "oidc"}]
      BY <1>3, <2>3 DEF Rows
    <3> QED BY <1>1, <3>3, <3>4
  <2>4. CASE r = "none" /\ member[u] = NoRow
    <3>1. o = Op("nothing", u, "none")
      BY <1>1, <1>6, <2>4 DEF Sync, Synced, IsMember, NoRow, r
    <3> QED BY <1>4, <2>4, <3>1 DEF NoRow
  <2>5. CASE r = "none" /\ member[u] # NoRow
    <3>2. o = Op("revoke", u, "none")
      BY <1>1, <1>6, <2>5 DEF Sync, Synced, IsMember, r
    <3>3. CommitSucceeds(o) /\ Written(o) = NoRow
      BY <3>2 DEF CommitSucceeds, Written, Op
    <3> QED BY <1>1, <2>5, <3>3 DEF NoRow
  <2> QED BY <2>1, <2>2, <2>3, <2>4, <2>5
<1> QED BY <1>5, <1>6

(* A login that nothing overtakes leaves its user with exactly the role    *)
(* that the groups grant, and a row set by hand alone, for any users and   *)
(* any history of the workspace.                                           *)
THEOREM SpecSyncIsExact == Spec => SyncIsExact
<1>1. ASSUME MembershipInv, [Next]_vars, NEW l \in Logins, Commits(l), ~op[l].overtaken
      PROVE  IF member[op[l].user].source = "manual" THEN member' = member
             ELSE mapped # {} => member'[op[l].user].role = Entitled(op[l].user)
  <2>1. l \in Tasks
    BY DEF Tasks
  <2>2. Commit(l)
    BY <1>1, <2>1, OnlyCommitEnds DEF Commits
  <2> QED BY <1>1, <2>2, CommitSyncs
<1>2. MembershipInv /\ [Next]_vars
        => [\A l \in Logins :
              LET u == op[l].user IN
              (Commits(l) /\ ~op[l].overtaken) =>
                IF member[u].source = "manual" THEN member' = member
                ELSE mapped # {} => member'[u].role = Entitled(u)]_vars
  BY <1>1
<1> QED BY <1>2, MembershipInvariance, PTL DEF Spec, SyncIsExact
=============================================================================
