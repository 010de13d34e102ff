------------------------------- MODULE Members -------------------------------
(***************************************************************************)
(* The members of a project.  A request to add or remove one reads the     *)
(* project, the level of its caller, and the level the target has; it is   *)
(* refused or writes one row.  Meanwhile groups gain and lose members, and *)
(* the project is transferred between a group and a user's namespace.      *)
(***************************************************************************)
EXTENDS Gates

CONSTANTS
  Users,       \* users
  Admins,      \* users whose row may say is_admin when a request begins
  Requests,    \* requests that can be in progress at once
  Levels,      \* levels that are given
  Owner1       \* the user whose namespace the project may be in

ASSUME LevelAssumption == Levels \subseteq AccessLevel
ASSUME UserAssumption == Owner1 \in Users /\ Admins \subseteq Users /\ Null \notin Users

VARIABLES
  members,       \* rows of project_members
  groupMembers,  \* rows of group_members
  ns,            \* the namespace of the project
  req            \* requests

vars == <<members, groupMembers, ns, req>>

Group == 1
Home == 2
Project == 7

Member == [project : {Project}, user : Users, level : AccessLevel]
GroupMember == [ns : {Group}, user : Users, level : AccessLevel]

Namespaces == {[id |-> Group, kind |-> "group", owner |-> Null],
               [id |-> Home, kind |-> "user", owner |-> Owner1]}

Db == [projectMembers |-> members, groupMembers |-> groupMembers, namespaces |-> Namespaces]

\* The project's row, with a namespace that it has or had when it was read.
RowIn(n) == [id |-> Project, ns |-> n, visibility |-> Private, archived |-> FALSE, lfs |-> TRUE]
Row == RowIn(ns)

Level(u) == EffectiveAccessLevel(Db, u, Row)

RowsOf(u) == {m \in members : m.user = u}

\* level: the caller's level is to be read   target: the target's row is
\* write: the row is to be written
\* ns: the project's namespace when it was located, until the level is read
\* admin: the caller's row says so   new: the level to give, 0 to remove
\* moved: history, the target's row changed since it was read
Request == [pc : {"idle", "level", "target", "write"}, user : Users, admin : BOOLEAN,
            ns : {Null, Group, Home}, target : Users, new : {0} \cup AccessLevel,
            level : {0} \cup AccessLevel, moved : BOOLEAN]

Idle == [pc |-> "idle", user |-> Owner1, admin |-> FALSE, ns |-> Null, target |-> Owner1,
         new |-> 0, level |-> 0, moved |-> FALSE]

\* A group has an owner from the start.
Init ==
  /\ members = {}
  /\ groupMembers \in {{[ns |-> Group, user |-> u, level |-> Owner]} : u \in Users}
  /\ ns \in {Group, Home}
  /\ req = [r \in Requests |-> Idle]

-----------------------------------------------------------------------------
\* RequireUser and locate: the snapshot of the caller, and the project's row.
\* Members may remove themselves without any level.
Begin(r) ==
  /\ req[r] = Idle
  /\ \E u \in Users, t \in Users, new \in {0} \cup Levels, admin \in BOOLEAN :
       /\ admin => u \in Admins
       /\ req' = [req EXCEPT ![r] =
            [pc |-> IF new = 0 /\ t = u THEN "write" ELSE "level", user |-> u, admin |-> admin,
             ns |-> IF new = 0 /\ t = u THEN Null ELSE ns, target |-> t, new |-> new, level |-> 0, moved |-> FALSE]]
  /\ UNCHANGED <<members, groupMembers, ns>>

\* caller_level, by the members of the namespace that the project was located in
CallerLevel(r) ==
  /\ req[r].pc = "level"
  /\ LET level == IF req[r].admin THEN Owner
                  ELSE EffectiveAccessLevel(Db, req[r].user, RowIn(req[r].ns)) IN
     req' = [req EXCEPT ![r] = IF level >= RequiredLevel("admin")
                               THEN [req[r] EXCEPT !.pc = "target", !.ns = Null, !.level = level]
                               ELSE Idle]
  /\ UNCHANGED <<members, groupMembers, ns>>

\* mutant: the target's present level is not compared.
RefusedByNew(r) == ~req[r].admin /\ req[r].new > req[r].level

\* The level to give, and the level the target has in the project.
Refused(r) ==
  /\ ~req[r].admin
  /\ \E level \in {req[r].new} \cup {m.level : m \in RowsOf(req[r].target)} : level > req[r].level

Target(r) ==
  /\ req[r].pc = "target"
  /\ req' = [req EXCEPT ![r] = IF Refused(r) THEN Idle ELSE [req[r] EXCEPT !.pc = "write"]]
  /\ UNCHANGED <<members, groupMembers, ns>>

Given(r) == {[project |-> Project, user |-> req[r].target, level |-> l] : l \in {req[r].new} \ {0}}

\* The upsert of add, or the DELETE of remove.
After(r) == (members \ RowsOf(req[r].target)) \cup Given(r)

Write(r) ==
  /\ req[r].pc = "write"
  /\ members' = After(r)
  /\ req' = [q \in Requests |->
       IF q = r THEN Idle
       ELSE [req[q] EXCEPT !.moved =
               @ \/ (/\ req[q].pc = "write" /\ req[q].target = req[r].target
                     /\ members' # members)]]
  /\ UNCHANGED <<groupMembers, ns>>

\* The client leaves and the handler is dropped.
Cancel(r) ==
  /\ req[r] # Idle
  /\ req' = [req EXCEPT ![r] = Idle]
  /\ UNCHANGED <<members, groupMembers, ns>>

\* Another part of the server: Accounts changes the members of the group.
GroupChange ==
  /\ \E u \in Users, level \in {0} \cup Levels :
       groupMembers' = {g \in groupMembers : g.user # u}
                         \cup {[ns |-> Group, user |-> u, level |-> l] : l \in {level} \ {0}}
  /\ \E g \in groupMembers' : g.level = Owner
  /\ UNCHANGED <<members, ns, req>>

\* ProjectStore transfers the project.
Transfer == ns' \in {Group, Home} /\ UNCHANGED <<members, groupMembers, req>>

Next ==
  \/ \E r \in Requests : Begin(r) \/ CallerLevel(r) \/ Target(r) \/ Write(r) \/ Cancel(r)
  \/ GroupChange \/ Transfer

Spec == Init /\ [][Next]_vars

-----------------------------------------------------------------------------
TypeOK ==
  /\ members \subseteq Member /\ groupMembers \subseteq GroupMember
  /\ \A u \in Users : Cardinality(RowsOf(u)) <= 1
  /\ ns \in {Group, Home}
  /\ req \in [Requests -> Request]

UserRows == [id : Users, admin : BOOLEAN, active : {TRUE}]
Callers == {Null} \cup UserRows

\* The project with any settings.
Rows == {[id |-> Project, ns |-> ns, visibility |-> v, archived |-> a, lfs |-> l] :
           v \in {Private, Internal, Public}, a \in BOOLEAN, l \in BOOLEAN}

\* LFS credentials, of this project and of another.
LfsIdentities == {LfsIdentity(u, p, w) :
                    u \in UserRows, p \in {Project, Project + 1}, w \in BOOLEAN}

\* Every content of the tables is met with no request in progress, since any may
\* be dropped; the two invariants below look at these states only.
Quiet == \A r \in Requests : req[r] = Idle

\* The project is listed for exactly those who can open it, although the list
\* filters by joins (projects.rs:190-215) and the pages, git over HTTP and SSH
\* ask for a level (auth/mod.rs:20-86): the four ways to read agree in every
\* state of memberships, for every visibility.  The pages are also open to the
\* user's LFS credentials, of any project, which docs/DESIGN.md:325 keeps out.
ListMatchesAccess ==
  Quiet => \A user \in Callers, p \in Rows :
    LET full == IF user = Null THEN Anonymous ELSE Identity(user, "session")
        listed == Listed(Db, user, p)
    IN /\ listed = Page(Db, full, p)
       /\ listed = GitHttp(Db, full, p, "read")
       /\ p.lfs => listed = Lfs(Db, full, p, "read")
       /\ user # Null => listed = Ssh(Db, user, p, "read")
       /\ \A i \in LfsIdentities : i.user = user => listed = Page(Db, i, p)

TokenIdentities == {TokenIdentity(u, s) : u \in UserRows, s \in SUBSET Scopes}
Identities == TokenIdentities \cup LfsIdentities

\* Whoever may push with a credential may fetch with it, by git and by LFS: the
\* scopes of tokens and LFS credentials (token.rs:64-74, middleware/auth.rs:39-51)
\* and the levels are ordered the same way.
PushersCanFetch ==
  Quiet => \A identity \in Identities, p \in Rows :
    /\ GitHttp(Db, identity, p, "write") => GitHttp(Db, identity, p, "read")
    /\ Lfs(Db, identity, p, "write") => Lfs(Db, identity, p, "read")

\* A member request never changes the level somebody has on the project from or
\* to a level above the one its caller had, be it by the row it writes or by the
\* group behind it, unless the caller is an administrator or leaves, or the
\* target's row changed after it was read (the window of members.rs:86-101).
LevelsChangedFromAbove ==
  [][\A r \in Requests, u \in Users :
       (/\ req[r].pc = "write" /\ req'[r].pc = "idle" /\ ~req[r].admin /\ ~req[r].moved
        /\ ~(req[r].new = 0 /\ req[r].target = req[r].user)
        /\ Level(u)' # Level(u))
         => Level(u) <= req[r].level /\ Level(u)' <= req[r].level]_vars
=============================================================================
