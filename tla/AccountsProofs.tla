--------------------------- MODULE AccountsProofs ---------------------------
(***************************************************************************)
(* The invariants of module Accounts hold for every set of users, groups,  *)
(* levels and concurrent requests.                                         *)
(***************************************************************************)
EXTENDS Accounts, TLAPS

\* The requests handlers really build: a request about a user names one, a
\* request about a group names one, and a new membership has a level.
WellFormed ==
  {q \in Request :
     /\ q.op \notin {"none", "delete_group"} => q.user \in User
     /\ q.op \in {"create_group", "autocreate", "add_member", "remove_member", "delete_group"}
          => q.group \in Group
     /\ q.op = "add_member" => q.level \in Level}

\* A request record is replaced by another request record.
LEMMA RequestReplaced ==
  ASSUME req \in [Handler -> WellFormed], NEW h \in Handler, NEW q \in WellFormed,
         req' = [req EXCEPT ![h] = q]
  PROVE  req' \in [Handler -> WellFormed]
OBVIOUS

\* Well-formed requests are requests.
LEMMA FormedTyped ==
  ASSUME req' \in [Handler -> WellFormed]
  PROVE  req' \in [Handler -> Request]
BY DEF WellFormed

\* The record of a handler that is not running any request.
LEMMA IdleRequest == Idle \in WellFormed
BY DEF Idle, WellFormed, Request, Op, AdminChange, StateChange

\* The read-only first step of every handler keeps the types.
LEMMA StartType ==
  ASSUME req \in [Handler -> WellFormed], NEW h \in Handler, Start(h)
  PROVE  /\ req' \in [Handler -> WellFormed]
         /\ UNCHANGED <<users, admins, blocked, groups, creator, level, holding>>
<1> USE DEF Enter, Idle, WellFormed, Request, Op, AdminChange, StateChange, accounts, grouping
<1>1. CASE \E u \in User, adm \in {"keep", "set"} : CreateUser(h, u, adm)
  <2> PICK u \in User, adm \in {"keep", "set"} : CreateUser(h, u, adm)
    BY <1>1
  <2> QED BY DEF CreateUser
<1>2. CASE \E u \in User, c \in Change : UpdateUser(h, u, c)
  <2> PICK u \in User, c \in Change : UpdateUser(h, u, c)
    BY <1>2
  <2> c[1] \in AdminChange /\ c[2] \in StateChange
    BY AccountsAssumption
  <2> QED BY DEF UpdateUser
<1>3. CASE \E u \in User : DeleteUser(h, u)
  <2> PICK u \in User : DeleteUser(h, u)
    BY <1>3
  <2> QED BY DEF DeleteUser
<1>4. CASE \E g \in Group, u \in User, op \in {"create_group", "autocreate"} :
             CreateGroup(h, op, u, g)
  <2> PICK g \in Group, u \in User, op \in {"create_group", "autocreate"} :
             CreateGroup(h, op, u, g)
    BY <1>4
  <2> QED BY DEF CreateGroup
<1>5. CASE \E g \in Group, u \in User, l \in Level : AddMember(h, g, u, l)
  <2> PICK g \in Group, u \in User, l \in Level : AddMember(h, g, u, l)
    BY <1>5
  <2> QED BY DEF AddMember
<1>6. CASE \E g \in Group, u \in User : RemoveMember(h, g, u)
  <2> PICK g \in Group, u \in User : RemoveMember(h, g, u)
    BY <1>6
  <2> QED BY DEF RemoveMember
<1>7. CASE \E g \in Group : DeleteGroup(h, g)
  <2> PICK g \in Group : DeleteGroup(h, g)
    BY <1>7
  <2> QED BY DEF DeleteGroup
<1> QED BY <1>1, <1>2, <1>3, <1>4, <1>5, <1>6, <1>7 DEF Start

\* The invariant the induction carries: no conjunct depends on the requests,
\* because every write is guarded by the schema and not by the pre-checks.
AccountsInv ==
  /\ TypeOK
  /\ req \in [Handler -> WellFormed]
  /\ ActiveAdminRemains
  /\ EveryGroupOwned
  /\ NoDanglingMembership
  /\ ProjectsKeepNamespace

\* A step that leaves the tables alone keeps the invariant.
LEMMA TablesUnchanged ==
  ASSUME AccountsInv, req' \in [Handler -> WellFormed],
         UNCHANGED <<users, admins, blocked, groups, creator, level, holding>>
  PROVE  AccountsInv'
BY DEF AccountsInv, TypeOK, WellFormed, ActiveAdminRemains, ActiveAdmins, EveryGroupOwned, Owners,
       NoDanglingMembership, ProjectsKeepNamespace

\* Finishing a request leaves a well-typed request table.
LEMMA FinishType ==
  ASSUME req \in [Handler -> WellFormed], NEW h \in Handler, Finish(h)
  PROVE  req' \in [Handler -> WellFormed]
BY IdleRequest DEF Finish

\* A request that passed its pre-check is still well formed.
LEMMA ProceedForm ==
  ASSUME req \in [Handler -> WellFormed], NEW h \in Handler
  PROVE  [req[h] EXCEPT !.pc = "write"] \in WellFormed
BY DEF WellFormed, Request

\* A refused write changes no table.
LEMMA RefuseKeeps ==
  ASSUME AccountsInv, NEW h \in Handler, Refuse, Finish(h), UNCHANGED holding
  PROVE  AccountsInv'
<1> req' \in [Handler -> WellFormed]
  BY FinishType DEF AccountsInv, TypeOK
<1> QED BY TablesUnchanged DEF Refuse, accounts, grouping

\* The pre-check writes nothing.
LEMMA CheckKeeps ==
  ASSUME AccountsInv, NEW h \in Handler, Check(h)
  PROVE  AccountsInv'
<1>1. req' \in [Handler -> WellFormed]
  <2> req \in [Handler -> WellFormed]
    BY DEF AccountsInv, TypeOK
  <2>1. CASE Finish(h)
    BY <2>1, FinishType
  <2>2. CASE Proceed(h)
    <3> req' = [req EXCEPT ![h] = [req[h] EXCEPT !.pc = "write"]]
      BY <2>2 DEF Proceed
    <3> QED BY ProceedForm, RequestReplaced
  <2> QED BY <2>1, <2>2 DEF Check
<1> QED BY <1>1, TablesUnchanged DEF Check, accounts, grouping

\* create_user adds a row and perhaps an administrator.
LEMMA CreateUserKeeps ==
  ASSUME AccountsInv, NEW h \in Handler, WriteCreateUser(h)
  PROVE  AccountsInv'
<1>1. CASE req[h].user \in users
  BY <1>1, RefuseKeeps DEF WriteCreateUser
<1>2. CASE req[h].user \notin users
  <2> DEFINE u == req[h].user
  <2>1. req' \in [Handler -> WellFormed]
    BY FinishType DEF WriteCreateUser, AccountsInv
  <2>2. u \in User
    BY DEF WriteCreateUser, At, WellFormed, AccountsInv
  <2>3. /\ users' = users \cup {u}
        /\ admins' = admins \/ admins' = admins \cup {u}
        /\ UNCHANGED <<blocked, groups, creator, level, holding>>
    BY <1>2 DEF WriteCreateUser, grouping
  <2>4. TypeOK'
    BY <2>1, <2>2, <2>3, FormedTyped DEF TypeOK, AccountsInv
  <2>5. ActiveAdminRemains'
    BY <2>3 DEF AccountsInv, ActiveAdminRemains, ActiveAdmins
  <2>6. EveryGroupOwned'
    BY <2>3 DEF AccountsInv, EveryGroupOwned, Owners
  <2>7. NoDanglingMembership' /\ ProjectsKeepNamespace'
    BY <2>3 DEF AccountsInv, NoDanglingMembership, ProjectsKeepNamespace
  <2> QED BY <2>1, <2>4, <2>5, <2>6, <2>7 DEF AccountsInv
<1> QED BY <1>1, <1>2

\* update_user: the trigger keeps an active administrator.
LEMMA UpdateUserKeeps ==
  ASSUME AccountsInv, NEW h \in Handler, WriteUpdateUser(h)
  PROVE  AccountsInv'
<1> DEFINE u == req[h].user
           newAdmins  == Applied(admins, u, req[h].admin, "set", "clear")
           newBlocked == Applied(blocked, u, req[h].state, "blocked", "active")
           refused == u \notin users \/ (LastActiveAdmin(u) /\ u \notin newAdmins \ newBlocked)
<1>1. CASE refused
  BY <1>1, RefuseKeeps DEF WriteUpdateUser
<1>2. CASE ~refused
  <2>1. req' \in [Handler -> WellFormed]
    BY FinishType DEF WriteUpdateUser, AccountsInv
  <2>2. /\ admins' = newAdmins /\ blocked' = newBlocked
        /\ UNCHANGED <<users, groups, creator, level, holding>>
    BY <1>2 DEF WriteUpdateUser, grouping
  <2>3. /\ newAdmins \in {admins, admins \cup {u}, admins \ {u}}
        /\ newBlocked \in {blocked, blocked \cup {u}, blocked \ {u}}
    BY DEF Applied
  <2>4. TypeOK'
    BY <1>2, <2>1, <2>2, <2>3, FormedTyped DEF TypeOK, AccountsInv
  <2>5. ActiveAdminRemains'
    <3> HIDE DEF newAdmins, newBlocked
    <3>1. CASE u \in newAdmins \ newBlocked
      BY <3>1, <2>2 DEF ActiveAdminRemains, ActiveAdmins
    <3>2. CASE ~LastActiveAdmin(u)
      <4> PICK a : a \in admins \ blocked /\ a # u
        BY <3>2 DEF AccountsInv, ActiveAdminRemains, LastActiveAdmin, ActiveAdmins
      <4> a \in newAdmins \ newBlocked
        BY <2>3
      <4> QED BY <2>2 DEF ActiveAdminRemains, ActiveAdmins
    <3> QED BY <1>2, <3>1, <3>2
  <2>6. EveryGroupOwned'
    BY <2>2 DEF AccountsInv, EveryGroupOwned, Owners
  <2>7. NoDanglingMembership' /\ ProjectsKeepNamespace'
    BY <2>2 DEF AccountsInv, NoDanglingMembership, ProjectsKeepNamespace
  <2> QED BY <2>1, <2>4, <2>5, <2>6, <2>7 DEF AccountsInv
<1> QED BY <1>1, <1>2

\* delete_user: the triggers keep an active administrator and the owners of
\* the groups that stay; the cascade leaves no membership behind.
LEMMA DeleteUserKeeps ==
  ASSUME AccountsInv, NEW h \in Handler, WriteDeleteUser(h)
  PROVE  AccountsInv'
<1> DEFINE u == req[h].user
           gone == OwnedNamespaces(u)
           refused == \/ u \notin users
                      \/ LastActiveAdmin(u)
                      \/ \E g \in Group : LastGroupOwner(g, u)
                      \/ gone \cap holding # {}
<1>1. CASE refused
  BY <1>1, RefuseKeeps DEF WriteDeleteUser, Restricted
<1>2. CASE ~refused
  <2>1. req' \in [Handler -> WellFormed]
    BY FinishType DEF WriteDeleteUser, AccountsInv
  <2>2. /\ users' = users \ {u} /\ admins' = admins \ {u} /\ blocked' = blocked \ {u}
        /\ groups' = groups \ gone
        /\ creator' = [g \in Group |-> IF g \in gone THEN None ELSE creator[g]]
        /\ level' = [g \in Group |-> IF g \in gone THEN NoMembers
                                     ELSE [level[g] EXCEPT ![u] = 0]]
        /\ holding' = holding
    BY <1>2 DEF WriteDeleteUser, Restricted
  <2>3. u \in User /\ u \notin Group
    BY AccountsAssumption DEF WriteDeleteUser, At, WellFormed, AccountsInv
  <2> HIDE DEF gone
  <2>4. TypeOK'
    <3>1. level' \in [Group -> [User -> Level \cup {0}]]
      BY <2>2, <2>3 DEF TypeOK, AccountsInv, NoMembers
    <3> QED BY <2>1, <2>2, <3>1, FormedTyped DEF TypeOK, AccountsInv
  <2>5. ActiveAdminRemains'
    BY <1>2, <2>2 DEF AccountsInv, ActiveAdminRemains, ActiveAdmins, LastActiveAdmin
  <2>6. \A g \in Group \ gone, v \in User \ {u} : level'[g][v] = level[g][v]
    BY <2>2 DEF AccountsInv, TypeOK
  <2>7. EveryGroupOwned'
    <3> SUFFICES ASSUME NEW g \in groups' PROVE Owners(g)' # {}
      BY DEF EveryGroupOwned
    <3>1. g \in groups /\ g \in Group /\ g \notin gone
      BY <2>2 DEF AccountsInv, TypeOK
    <3> PICK v \in Owners(g) : v # u
      BY <1>2, <3>1 DEF LastGroupOwner, AccountsInv, EveryGroupOwned
    <3> v \in Owners(g)'
      BY <2>6, <3>1 DEF Owners
    <3> QED OBVIOUS
  <2>8. NoDanglingMembership'
    <3> SUFFICES ASSUME NEW g \in Group, NEW v \in User, level'[g][v] # 0
                 PROVE  g \in groups' /\ v \in users'
      BY DEF NoDanglingMembership
    <3>1. g \notin gone
      BY <2>2 DEF NoMembers
    <3>2. v # u
      BY <2>2, <3>1 DEF AccountsInv, TypeOK
    <3>3. level[g][v] # 0
      BY <2>6, <3>1, <3>2
    <3> QED BY <2>2, <3>1, <3>2, <3>3 DEF AccountsInv, NoDanglingMembership
  <2>9. ProjectsKeepNamespace'
    BY <1>2, <2>2 DEF AccountsInv, ProjectsKeepNamespace, OwnedNamespaces, gone
  <2> QED BY <2>1, <2>4, <2>5, <2>7, <2>8, <2>9 DEF AccountsInv
<1> QED BY <1>1, <1>2

\* A change of one membership entry that is not the last owner's keeps every
\* group owned.
LEMMA OneEntry ==
  ASSUME AccountsInv, NEW h \in Handler, NEW g \in Group, NEW u \in User,
         NEW l \in Level \cup {0},
         req' \in [Handler -> WellFormed],
         level' = [level EXCEPT ![g][u] = l],
         UNCHANGED <<users, admins, blocked, groups, creator, holding>>,
         l = Owner \/ ~LastGroupOwner(g, u),
         l # 0 => g \in groups /\ u \in users
  PROVE  AccountsInv'
<1>1. /\ level'[g][u] = l
      /\ \A f \in Group, v \in User : <<f, v>> # <<g, u>> => level'[f][v] = level[f][v]
  BY DEF AccountsInv, TypeOK
<1>2. TypeOK'
  BY FormedTyped DEF AccountsInv, TypeOK
<1>3. EveryGroupOwned'
  <2> SUFFICES ASSUME NEW f \in groups PROVE Owners(f)' # {}
    BY DEF EveryGroupOwned
  <2> f \in Group
    BY DEF AccountsInv, TypeOK
  <2>1. CASE l = Owner /\ f = g
    BY <1>1, <2>1 DEF Owners
  <2>2. CASE f # g
    BY <1>1, <2>2 DEF Owners, AccountsInv, EveryGroupOwned
  <2>3. CASE f = g /\ ~LastGroupOwner(g, u)
    <3> PICK v \in Owners(g) : v # u
      BY <2>3 DEF LastGroupOwner, AccountsInv, EveryGroupOwned
    <3> QED BY <1>1, <2>3 DEF Owners
  <2> QED BY <2>1, <2>2, <2>3
<1>4. NoDanglingMembership'
  BY <1>1 DEF AccountsInv, NoDanglingMembership
<1>5. ActiveAdminRemains' /\ ProjectsKeepNamespace'
  BY DEF AccountsInv, ActiveAdminRemains, ActiveAdmins, ProjectsKeepNamespace
<1> QED BY <1>2, <1>3, <1>4, <1>5 DEF AccountsInv

\* groups::create and auto-creation: the new group starts with an owner.
LEMMA CreateGroupKeeps ==
  ASSUME AccountsInv, NEW h \in Handler, WriteCreateGroup(h)
  PROVE  AccountsInv'
<1> DEFINE g == req[h].group
           u == req[h].user
<1>1. CASE g \in groups \/ u \notin users
  BY <1>1, RefuseKeeps DEF WriteCreateGroup
<1>2. CASE g \notin groups /\ u \in users
  <2>1. req' \in [Handler -> WellFormed]
    BY FinishType DEF WriteCreateGroup, AccountsInv
  <2>2. g \in Group /\ u \in User
    BY DEF WriteCreateGroup, At, WellFormed, AccountsInv
  <2>3. /\ groups' = groups \cup {g}
        /\ creator' = [creator EXCEPT ![g] = IF req[h].op = "autocreate" THEN u ELSE None]
        /\ level' = [level EXCEPT ![g][u] = Owner]
        /\ UNCHANGED <<users, admins, blocked, holding>>
    BY <1>2 DEF WriteCreateGroup, accounts
  <2>4. /\ level'[g][u] = Owner
        /\ \A f \in Group, v \in User : <<f, v>> # <<g, u>> => level'[f][v] = level[f][v]
    BY <2>2, <2>3 DEF AccountsInv, TypeOK
  <2>5. TypeOK'
    BY <2>1, <2>2, <2>3, FormedTyped, AccountsAssumption DEF AccountsInv, TypeOK
  <2>6. EveryGroupOwned'
    <3> SUFFICES ASSUME NEW f \in groups' PROVE Owners(f)' # {}
      BY DEF EveryGroupOwned
    <3>1. CASE f = g
      BY <2>2, <2>4, <3>1 DEF Owners
    <3>2. CASE f # g
      BY <2>2, <2>3, <2>4, <3>2 DEF Owners, AccountsInv, EveryGroupOwned, TypeOK
    <3> QED BY <3>1, <3>2
  <2>7. NoDanglingMembership'
    BY <1>2, <2>2, <2>3, <2>4 DEF AccountsInv, NoDanglingMembership
  <2>8. ActiveAdminRemains' /\ ProjectsKeepNamespace'
    BY <2>3 DEF AccountsInv, ActiveAdminRemains, ActiveAdmins, ProjectsKeepNamespace
  <2> QED BY <2>1, <2>5, <2>6, <2>7, <2>8 DEF AccountsInv
<1> QED BY <1>1, <1>2

\* add_member and remove_member change one entry under the owner trigger.
LEMMA MemberKeeps ==
  ASSUME AccountsInv, NEW h \in Handler, WriteAddMember(h) \/ WriteRemoveMember(h)
  PROVE  AccountsInv'
<1> DEFINE q == req[h]
<1>1. req' \in [Handler -> WellFormed] /\ q \in WellFormed
  BY FinishType DEF WriteAddMember, WriteRemoveMember, AccountsInv
<1>2. CASE WriteAddMember(h)
  <2> q.group \in Group /\ q.user \in User /\ q.level \in Level
    BY <1>1, <1>2 DEF WriteAddMember, At, WellFormed
  <2>1. CASE \/ q.group \notin groups \/ q.user \notin users
             \/ q.level # Owner /\ LastGroupOwner(q.group, q.user)
    BY <1>2, <2>1, RefuseKeeps DEF WriteAddMember, Referenced
  <2>2. CASE ~(\/ q.group \notin groups \/ q.user \notin users
               \/ q.level # Owner /\ LastGroupOwner(q.group, q.user))
    <3> /\ level' = [level EXCEPT ![q.group][q.user] = q.level]
        /\ UNCHANGED <<users, admins, blocked, groups, creator, holding>>
      BY <1>2, <2>2 DEF WriteAddMember, Referenced, accounts
    <3> HIDE DEF q
    <3> QED BY <1>1, <2>2, OneEntry
  <2> QED BY <2>1, <2>2
<1>3. CASE WriteRemoveMember(h)
  <2> q.group \in Group /\ q.user \in User
    BY <1>1, <1>3 DEF WriteRemoveMember, At, WellFormed
  <2>1. CASE LastGroupOwner(q.group, q.user)
    BY <1>3, <2>1, RefuseKeeps DEF WriteRemoveMember
  <2>2. CASE ~LastGroupOwner(q.group, q.user)
    <3> /\ level' = [level EXCEPT ![q.group][q.user] = 0]
        /\ UNCHANGED <<users, admins, blocked, groups, creator, holding>>
      BY <1>3, <2>2 DEF WriteRemoveMember, accounts
    <3> HIDE DEF q
    <3> QED BY <1>1, <2>2, OneEntry
  <2> QED BY <2>1, <2>2
<1> QED BY <1>2, <1>3

\* groups::delete removes the group with all its memberships.
LEMMA DeleteGroupKeeps ==
  ASSUME AccountsInv, NEW h \in Handler, WriteDeleteGroup(h)
  PROVE  AccountsInv'
<1> DEFINE g == req[h].group
<1>1. CASE g \notin groups \/ g \in holding
  BY <1>1, RefuseKeeps DEF WriteDeleteGroup, Restricted
<1>2. CASE g \in groups /\ g \notin holding
  <2>1. req' \in [Handler -> WellFormed]
    BY FinishType DEF WriteDeleteGroup, AccountsInv
  <2>2. /\ groups' = groups \ {g}
        /\ creator' = [creator EXCEPT ![g] = None]
        /\ level' = [level EXCEPT ![g] = NoMembers]
        /\ UNCHANGED <<users, admins, blocked, holding>>
    BY <1>2 DEF WriteDeleteGroup, Restricted, accounts
  <2>3. \A f \in Group \ {g} : level'[f] = level[f]
    BY <2>2 DEF AccountsInv, TypeOK
  <2>4. TypeOK'
    BY <1>2, <2>1, <2>2, FormedTyped DEF AccountsInv, TypeOK, NoMembers
  <2>5. EveryGroupOwned'
    BY <2>2, <2>3 DEF AccountsInv, EveryGroupOwned, Owners, TypeOK
  <2>6. NoDanglingMembership'
    BY <1>2, <2>2, <2>3 DEF AccountsInv, NoDanglingMembership, NoMembers, TypeOK
  <2>7. ActiveAdminRemains' /\ ProjectsKeepNamespace'
    BY <1>2, <2>2 DEF AccountsInv, ActiveAdminRemains, ActiveAdmins, ProjectsKeepNamespace
  <2> QED BY <2>1, <2>4, <2>5, <2>6, <2>7 DEF AccountsInv
<1> QED BY <1>1, <1>2

\* Every step of every handler keeps the invariant.
LEMMA AccountsStep == AccountsInv /\ [Next]_vars => AccountsInv'
<1> SUFFICES ASSUME AccountsInv, [Next]_vars PROVE AccountsInv'
  OBVIOUS
<1> req \in [Handler -> WellFormed]
  BY DEF AccountsInv
<1>1. ASSUME NEW h \in Handler, Start(h) PROVE AccountsInv'
  BY <1>1, StartType, TablesUnchanged
<1>2. ASSUME NEW h \in Handler, Check(h) PROVE AccountsInv'
  BY <1>2, CheckKeeps
<1>3. ASSUME NEW h \in Handler, Write(h) PROVE AccountsInv'
  BY <1>3, CreateUserKeeps, UpdateUserKeeps, DeleteUserKeeps, CreateGroupKeeps,
     MemberKeeps, DeleteGroupKeeps DEF Write
<1>4. ASSUME NEW h \in Handler, Cancel(h) PROVE AccountsInv'
  BY <1>4, FinishType, TablesUnchanged DEF Cancel, accounts, grouping
<1>5. ASSUME NEW ns \in User \cup Group, ProjectsChange(ns) PROVE AccountsInv'
  BY <1>5 DEF ProjectsChange, accounts, grouping, AccountsInv, TypeOK, ActiveAdminRemains,
     ActiveAdmins, EveryGroupOwned, Owners, NoDanglingMembership, ProjectsKeepNamespace
<1>6. CASE UNCHANGED vars
  BY <1>6, TablesUnchanged DEF vars
<1> QED BY <1>1, <1>2, <1>3, <1>4, <1>5, <1>6 DEF Next

\* seed_root establishes it: one active administrator and no group.
LEMMA AccountsInit == Init => AccountsInv
<1> SUFFICES ASSUME Init PROVE AccountsInv
  OBVIOUS
<1> USE DEF Init
<1>1. TypeOK /\ req \in [Handler -> WellFormed]
  BY IdleRequest, AccountsAssumption DEF TypeOK, WellFormed, NoMembers
<1>2. ActiveAdminRemains /\ EveryGroupOwned /\ ProjectsKeepNamespace
  BY DEF ActiveAdminRemains, ActiveAdmins, EveryGroupOwned, ProjectsKeepNamespace
<1>3. NoDanglingMembership
  BY DEF NoDanglingMembership, NoMembers
<1> QED BY <1>1, <1>2, <1>3 DEF AccountsInv

\* For any number of users, groups and concurrent requests, the account
\* tables stay well typed.
THEOREM AccountsTyped == Spec => []TypeOK
<1>1. AccountsInv => TypeOK
  BY DEF AccountsInv
<1> QED BY <1>1, AccountsInit, AccountsStep, PTL DEF Spec

\* The instance always retains an active administrator, however the requests
\* that demote, block and delete users interleave (admin.rs and the triggers
\* of migration 0003).
THEOREM AdminAlwaysRemains == Spec => []ActiveAdminRemains
<1>1. AccountsInv => ActiveAdminRemains
  BY DEF AccountsInv
<1> QED BY <1>1, AccountsInit, AccountsStep, PTL DEF Spec

\* Every group always has an owner, however membership changes and user
\* deletions interleave (groups.rs, admin.rs and migration 0003).
THEOREM GroupsStayOwned == Spec => []EveryGroupOwned
<1>1. AccountsInv => EveryGroupOwned
  BY DEF AccountsInv
<1> QED BY <1>1, AccountsInit, AccountsStep, PTL DEF Spec

\* No membership row outlives its user or its group, and no namespace with
\* projects is deleted by a group deletion or a user deletion's cascade.
THEOREM ReferencesStay == Spec => [](NoDanglingMembership /\ ProjectsKeepNamespace)
<1>1. AccountsInv => NoDanglingMembership /\ ProjectsKeepNamespace
  BY DEF AccountsInv
<1> QED BY <1>1, AccountsInit, AccountsStep, PTL DEF Spec
=============================================================================
