---------------------------- MODULE AccessLevels ----------------------------
(* What a user may do on a project: rgit-core's perm.rs and the resolver of   *)
(* auth/mod.rs, over the rows of the database.  Levels and visibilities are   *)
(* GitLab's numbers; level 0 stands for "no level" (None in the code).        *)
EXTENDS Integers, FiniteSetsExt

CONSTANT Null

AccessLevel == {10, 20, 30, 40, 50}
Owner == 50
Private == 0
Internal == 10
Public == 20

FromI32(v) == IF v \in AccessLevel THEN v ELSE 0

\* The least level for an action on a private project.
RequiredLevel(action) ==
    CASE action = "read" -> 10 [] action = "write" -> 30 [] action = "admin" -> 40

\* db.projectMembers: [project, user, level]; db.groupMembers: [ns, user, level];
\* db.namespaces: [id, kind, owner, ..]; p: a row of projects [id, ns, ..].
LevelsOf(db, user, p) ==
    {m.level : m \in {x \in db.projectMembers : x.project = p.id /\ x.user = user}}
      \cup {m.level : m \in {x \in db.groupMembers : x.ns = p.ns /\ x.user = user}}
      \cup {Owner : n \in {x \in db.namespaces : x.id = p.ns /\ x.owner = user}}

EffectiveAccessLevel(db, user, p) ==
    IF LevelsOf(db, user, p) = {} THEN 0 ELSE FromI32(Max(LevelsOf(db, user, p)))

\* user is a row [id, admin, active] read earlier, or Null for an anonymous caller.
AuthorizeRepo(db, user, p, action) ==
    /\ ~(action = "write" /\ p.archived)
    /\ IF user = Null
       THEN action = "read" /\ p.visibility = Public
       ELSE /\ user.active
            /\ \/ user.admin
               \/ action = "read" /\ p.visibility >= Internal
               \/ EffectiveAccessLevel(db, user.id, p) >= RequiredLevel(action)
=============================================================================
