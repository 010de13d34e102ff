------------------------------ MODULE Accounts ------------------------------
(***************************************************************************)
(* Users, administrators, groups and group membership of rgit.             *)
(*                                                                         *)
(* Every handler is a chain: the caller is identified and authorized from  *)
(* a snapshot ("check" comes next), a pre-check counts the remaining       *)
(* administrators, owners or projects ("write" comes next), and one        *)
(* statement or transaction writes.  The snapshot and the count may be     *)
(* stale when the write happens; the triggers and foreign keys of the      *)
(* schema decide then.  A row id may be given to a new row after a         *)
(* deletion, so a request may act on a successor of what it read.          *)
(***************************************************************************)
EXTENDS Naturals, FiniteSets

CONSTANTS
  Handler,  \* concurrently running requests
  User,     \* user rows that may exist
  Root,     \* the administrator seeded at the first start
  Group,    \* group rows that may exist
  Level,    \* access levels in use, Owner among them
  Change,   \* update_user requests: <<change of is_admin, change of state>>
  None      \* no user, no group

Owner == 50

AdminChange == {"keep", "set", "clear"}
StateChange == {"keep", "active", "blocked"}

ASSUME AccountsAssumption ==
  /\ Root \in User
  /\ None \notin User \cup Group
  /\ User \cap Group = {}
  /\ Level \subseteq {10, 20, 30, 40, Owner} /\ Owner \in Level
  /\ Change \subseteq AdminChange \X StateChange

VARIABLES
  users,    \* table users
  admins,   \* users with is_admin = 1
  blocked,  \* users whose state is 'blocked'
  groups,   \* table namespaces, kind = 'group'
  creator,  \* namespaces.owner_user_id of each group, None when NULL
  level,    \* table group_members: level[g][u], 0 when there is no row
  holding,  \* namespaces (a group, or a user for the user's own) with projects
  req       \* the local state of each request

accounts == <<users, admins, blocked>>
grouping == <<groups, creator, level>>
vars == <<users, admins, blocked, groups, creator, level, holding, req>>

Op == {"none", "create_user", "update_user", "delete_user", "create_group",
       "autocreate", "add_member", "remove_member", "delete_group"}

Request == [op    : Op,
            pc    : {"idle", "check", "write"},
            user  : User \cup {None},
            group : Group \cup {None},
            admin : AdminChange,  \* update_user: is_admin
            state : StateChange,  \* update_user: state
            level : Level \cup {0}]

Idle == [op |-> "none", pc |-> "idle", user |-> None, group |-> None,
         admin |-> "keep", state |-> "keep", level |-> 0]

NoMembers == [u \in User |-> 0]

\* AppState::init on an empty database: seed_root.
Init ==
  /\ users = {Root} /\ admins = {Root} /\ blocked = {}
  /\ groups = {}
  /\ creator = [g \in Group |-> None]
  /\ level = [g \in Group |-> NoMembers]
  /\ holding = {}
  /\ req = [h \in Handler |-> Idle]

ActiveAdmins == admins \ blocked
Owners(g) == {u \in User : level[g][u] = Owner}

At(h, op, p) == req[h].op = op /\ req[h].pc = p
Enter(h, q)  == req[h].pc = "idle" /\ req' = [req EXCEPT ![h] = q]
Proceed(h)   == req' = [req EXCEPT ![h].pc = "write"]
Finish(h)    == req' = [req EXCEPT ![h] = Idle]

-----------------------------------------------------------------------------
(* Identification and authorization.                                        *)

\* resolve_identity admits active users only.
Identified(a) == a \in users \ blocked
\* RequireAdmin.
IsAdmin(a) == Identified(a) /\ a \in admins
\* The check of the group handlers: an administrator or an owner of g.
MayAdminister(a, g) == Identified(a) /\ (a \in admins \/ level[g][a] = Owner)

CreateUser(h, u, adm) ==
  /\ \E a \in User : IsAdmin(a)
  /\ Enter(h, [Idle EXCEPT !.op = "create_user", !.pc = "write", !.user = u, !.admin = adm])
  /\ UNCHANGED <<accounts, grouping, holding>>

\* update_user refuses to block the caller.
UpdateUser(h, u, c) ==
  /\ \E a \in User : IsAdmin(a) /\ (c[2] = "blocked" => a # u)
  /\ Enter(h, [Idle EXCEPT !.op = "update_user", !.pc = "check", !.user = u,
                           !.admin = c[1], !.state = c[2]])
  /\ UNCHANGED <<accounts, grouping, holding>>

\* delete_user refuses to delete the caller.
DeleteUser(h, u) ==
  /\ \E a \in User \ {u} : IsAdmin(a)
  /\ Enter(h, [Idle EXCEPT !.op = "delete_user", !.pc = "check", !.user = u])
  /\ UNCHANGED <<accounts, grouping, holding>>

\* groups::create, and the namespace a push auto-creates: the caller becomes
\* the owner; auto-creation also records the caller as owner_user_id.
CreateGroup(h, op, a, g) ==
  /\ Identified(a)
  /\ op = "autocreate" => g \notin groups
  /\ Enter(h, [Idle EXCEPT !.op = op, !.pc = "write", !.user = a, !.group = g])
  /\ UNCHANGED <<accounts, grouping, holding>>

AddMember(h, g, u, l) ==
  /\ g \in groups
  /\ \E a \in User : MayAdminister(a, g)
  /\ Enter(h, [Idle EXCEPT !.op = "add_member", !.pc = "check", !.group = g,
                           !.user = u, !.level = l])
  /\ UNCHANGED <<accounts, grouping, holding>>

\* Members may remove themselves.
RemoveMember(h, g, u) ==
  /\ g \in groups
  /\ Identified(u) \/ \E a \in User : MayAdminister(a, g)
  /\ Enter(h, [Idle EXCEPT !.op = "remove_member", !.pc = "check", !.group = g, !.user = u])
  /\ UNCHANGED <<accounts, grouping, holding>>

DeleteGroup(h, g) ==
  /\ \E a \in User : MayAdminister(a, g)
  /\ Enter(h, [Idle EXCEPT !.op = "delete_group", !.pc = "check", !.group = g])
  /\ UNCHANGED <<accounts, grouping, holding>>

-----------------------------------------------------------------------------
(* Pre-checks: a conflict is answered before anything is written.           *)

LastAdminRemoved(q) ==
  /\ q.user \in ActiveAdmins
  /\ q.admin = "clear" \/ q.state = "blocked"
  /\ Cardinality(ActiveAdmins) <= 1

\* The namespaces whose owner_user_id is u: u's own and the auto-created ones.
OwnedNamespaces(u) == {u} \cup {g \in groups : creator[g] = u}

SoleOwnerOf(u) == {g \in groups : Owners(g) = {u}}

Conflict(q) ==
  CASE q.op = "update_user"   -> q.user \notin users \/ LastAdminRemoved(q)
    [] q.op = "delete_user"   -> \/ OwnedNamespaces(q.user) \cap holding # {}
                                 \/ SoleOwnerOf(q.user) # {}
    [] q.op = "add_member"    -> /\ level[q.group][q.user] = Owner /\ q.level # Owner
                                 /\ Cardinality(Owners(q.group)) <= 1
    [] q.op = "remove_member" -> /\ level[q.group][q.user] = Owner
                                 /\ Cardinality(Owners(q.group)) <= 1
    [] q.op = "delete_group"  -> q.group \in holding
    [] OTHER                  -> FALSE

Check(h) ==
  /\ req[h].pc = "check"
  /\ IF Conflict(req[h]) THEN Finish(h) ELSE Proceed(h)
  /\ UNCHANGED <<accounts, grouping, holding>>

-----------------------------------------------------------------------------
(* The triggers of migration 0003.                                          *)

NoAdminTrigger(u) == FALSE  \* mutant: migration 0003 is missing

\* protect_last_active_admin_update and _delete: no other active administrator.
LastActiveAdmin(u) == ActiveAdmins = {u}

NoOwnerTrigger(g, u) == FALSE  \* mutant: migration 0003 is missing

\* protect_last_group_owner_update and _delete; the group row still exists.
LastGroupOwner(g, u) == g \in groups /\ Owners(g) = {u}

-----------------------------------------------------------------------------
(* Writes.  A refused write changes nothing and ends the request.           *)

\* projects.namespace_id ... ON DELETE RESTRICT.
Restricted(S) == S \cap holding # {}

Unreferenced(q) == TRUE  \* mutant: foreign keys are not enforced

\* group_members refers to namespaces and users.
Referenced(q) == q.group \in groups /\ q.user \in users

Refuse == UNCHANGED <<accounts, grouping>>

WriteCreateUser(h) ==
  LET q == req[h] IN
  /\ At(h, "create_user", "write")
  /\ IF q.user \in users
     THEN Refuse
     ELSE /\ users' = users \cup {q.user}
          /\ admins' = IF q.admin = "set" THEN admins \cup {q.user} ELSE admins
          /\ UNCHANGED <<blocked, grouping>>
  /\ Finish(h)
  /\ UNCHANGED holding

Applied(S, u, c, yes, no) ==
  CASE c = yes -> S \cup {u} [] c = no -> S \ {u} [] OTHER -> S

WriteUpdateUser(h) ==
  LET q == req[h]
      newAdmins  == Applied(admins, q.user, q.admin, "set", "clear")
      newBlocked == Applied(blocked, q.user, q.state, "blocked", "active") IN
  /\ At(h, "update_user", "write")
  /\ IF q.user \notin users \/ (LastActiveAdmin(q.user) /\ q.user \notin newAdmins \ newBlocked)
     THEN Refuse
     ELSE /\ admins' = newAdmins /\ blocked' = newBlocked
          /\ UNCHANGED <<users, grouping>>
  /\ Finish(h)
  /\ UNCHANGED holding

\* The cascade removes the memberships of the user first (the owner trigger
\* fires on each of them), then the namespaces the user owns with their
\* memberships; a namespace with projects restricts the whole statement.
WriteDeleteUser(h) ==
  LET u == req[h].user
      gone == OwnedNamespaces(u) IN
  /\ At(h, "delete_user", "write")
  /\ IF \/ u \notin users
        \/ LastActiveAdmin(u)
        \/ \E g \in Group : LastGroupOwner(g, u)
        \/ Restricted(gone)
     THEN Refuse
     ELSE /\ users' = users \ {u}
          /\ admins' = admins \ {u}
          /\ blocked' = blocked \ {u}
          /\ groups' = groups \ gone
          /\ creator' = [g \in Group |-> IF g \in gone THEN None ELSE creator[g]]
          /\ level' = [g \in Group |-> IF g \in gone THEN NoMembers
                                       ELSE [level[g] EXCEPT ![u] = 0]]
  /\ Finish(h)
  /\ UNCHANGED holding

WriteCreateGroup(h) ==
  LET q == req[h] IN
  /\ At(h, "create_group", "write") \/ At(h, "autocreate", "write")
  /\ IF q.group \in groups \/ q.user \notin users
     THEN Refuse
     ELSE /\ groups' = groups \cup {q.group}
          /\ creator' = [creator EXCEPT ![q.group] =
                            IF q.op = "autocreate" THEN q.user ELSE None]
          /\ level' = [level EXCEPT ![q.group][q.user] = Owner]
          /\ UNCHANGED accounts
  /\ Finish(h)
  /\ UNCHANGED holding

WriteAddMember(h) ==
  LET q == req[h] IN
  /\ At(h, "add_member", "write")
  /\ IF \/ ~Referenced(q)
        \/ q.level # Owner /\ LastGroupOwner(q.group, q.user)
     THEN Refuse
     ELSE /\ level' = [level EXCEPT ![q.group][q.user] = q.level]
          /\ UNCHANGED <<accounts, groups, creator>>
  /\ Finish(h)
  /\ UNCHANGED holding

WriteRemoveMember(h) ==
  LET q == req[h] IN
  /\ At(h, "remove_member", "write")
  /\ IF LastGroupOwner(q.group, q.user)
     THEN Refuse
     ELSE /\ level' = [level EXCEPT ![q.group][q.user] = 0]
          /\ UNCHANGED <<accounts, groups, creator>>
  /\ Finish(h)
  /\ UNCHANGED holding

WriteDeleteGroup(h) ==
  LET g == req[h].group IN
  /\ At(h, "delete_group", "write")
  /\ IF g \notin groups \/ Restricted({g})
     THEN Refuse
     ELSE /\ groups' = groups \ {g}
          /\ creator' = [creator EXCEPT ![g] = None]
          /\ level' = [level EXCEPT ![g] = NoMembers]
          /\ UNCHANGED accounts
  /\ Finish(h)
  /\ UNCHANGED holding

\* A dropped request; its transaction rolls back.
Cancel(h) ==
  /\ req[h].pc # "idle"
  /\ Finish(h)
  /\ UNCHANGED <<accounts, grouping, holding>>

\* The first project of a namespace is inserted, or its last one leaves
\* (module ProjectStore); the namespace row must exist.
ProjectsChange(ns) ==
  /\ ns \in users \cup groups
  /\ holding' = IF ns \in holding THEN holding \ {ns} ELSE holding \cup {ns}
  /\ UNCHANGED <<accounts, grouping, req>>

Start(h) ==
  \/ \E u \in User :
       \/ \E adm \in {"keep", "set"} : CreateUser(h, u, adm)
       \/ \E c \in Change : UpdateUser(h, u, c)
       \/ DeleteUser(h, u)
  \/ \E g \in Group, u \in User :
       \/ \E op \in {"create_group", "autocreate"} : CreateGroup(h, op, u, g)
       \/ \E l \in Level : AddMember(h, g, u, l)
       \/ RemoveMember(h, g, u)
  \/ \E g \in Group : DeleteGroup(h, g)

Write(h) ==
  \/ WriteCreateUser(h) \/ WriteUpdateUser(h) \/ WriteDeleteUser(h)
  \/ WriteCreateGroup(h) \/ WriteAddMember(h) \/ WriteRemoveMember(h)
  \/ WriteDeleteGroup(h)

Next ==
  \/ \E h \in Handler : Start(h) \/ Check(h) \/ Write(h) \/ Cancel(h)
  \/ \E ns \in User \cup Group : ProjectsChange(ns)

Spec == Init /\ [][Next]_vars

-----------------------------------------------------------------------------
(* Properties.                                                              *)

TypeOK ==
  /\ users \subseteq User
  /\ admins \subseteq users
  /\ blocked \subseteq users
  /\ groups \subseteq Group
  /\ creator \in [Group -> User \cup {None}]
  /\ level \in [Group -> [User -> Level \cup {0}]]
  /\ holding \subseteq User \cup Group
  /\ req \in [Handler -> Request]

\* However demotions, blocks and deletions interleave, somebody can still
\* administer the instance: one administrator exists and is active.
ActiveAdminRemains == ActiveAdmins # {}

\* However membership changes and user deletions interleave, every group
\* keeps an owner.
EveryGroupOwned == \A g \in groups : Owners(g) # {}

\* Membership rows refer to existing users and groups, whatever the order of
\* a cascading deletion and a late membership write.
NoDanglingMembership ==
  \A g \in Group, u \in User : level[g][u] # 0 => g \in groups /\ u \in users

\* A namespace that holds projects is never deleted, neither by a group
\* deletion nor by the cascade of a user deletion, although projects may
\* arrive between the count and the deletion.
ProjectsKeepNamespace == holding \subseteq users \cup groups
=============================================================================
