-------------------------------- MODULE Gates --------------------------------
(* The ways to a project: the list, the pages of the API, git over HTTP, LFS   *)
(* and git over SSH.  Each asks authorize_repo, after it has looked at what    *)
(* the credential of the request is good for.                                  *)
EXTENDS AccessLevels

Scopes == {"api", "read_api", "read_repository", "write_repository"}

\* An identity: user is a row of users or Null; method is "none", "session",
\* "basic", "token" with its scopes, or "lfs" with its project and can_write.
Anonymous == [user |-> Null, method |-> "none"]
Identity(user, method) == [user |-> user, method |-> method]
TokenIdentity(user, scopes) == [user |-> user, method |-> "token", scopes |-> scopes]
LfsIdentity(user, project, canWrite) ==
    [user |-> user, method |-> "lfs", project |-> project, canWrite |-> canWrite]

\* mutant: writing does not imply reading.
ScopesAllowExactly(scopes, needed) == {"api", needed} \cap scopes # {}

ScopesAllow(scopes, needed) ==
    \/ {"api", needed} \cap scopes # {}
    \/ needed = "read_repository" /\ "write_repository" \in scopes

Allows(identity, needed) ==
    CASE identity.method \in {"session", "basic"} -> TRUE
      [] identity.method = "token" -> ScopesAllow(identity.scopes, needed)
      [] identity.method = "lfs" ->
           needed = "read_repository" \/ (needed = "write_repository" /\ identity.canWrite)
      [] OTHER -> FALSE

ScopeFor(action) == IF action = "read" THEN "read_repository" ELSE "write_repository"

ScopeSuffices(identity, action) ==
    identity.user # Null => Allows(identity, ScopeFor(action))

\* api_guard on a GET, then the pages of a project and of its repository.
Page(db, identity, p) ==
    /\ identity.method = "token" => ScopesAllow(identity.scopes, "read_api")
    /\ AuthorizeRepo(db, identity.user, p, "read")

GitHttp(db, identity, p, action) ==
    /\ identity.method # "lfs"
    /\ ScopeSuffices(identity, action)
    /\ AuthorizeRepo(db, identity.user, p, action)

Lfs(db, identity, p, action) ==
    /\ p.lfs
    /\ identity.method = "lfs" =>
         identity.project = p.id /\ (action = "write" => identity.canWrite)
    /\ ScopeSuffices(identity, action)
    /\ AuthorizeRepo(db, identity.user, p, action)

\* user is the active user of the key.
Ssh(db, user, p, action) == AuthorizeRepo(db, user, p, action)

VisibleFloor(user) ==
    IF user = Null THEN Public ELSE IF user.admin THEN Private ELSE Internal

\* mutant: the list forgets the owner of the namespace.
ListedWithoutOwner(db, user, p) ==
    \/ p.visibility >= VisibleFloor(user)
    \/ /\ user # Null
       /\ \/ \E m \in db.projectMembers : m.project = p.id /\ m.user = user.id
          \/ \E m \in db.groupMembers : m.ns = p.ns /\ m.user = user.id

\* The WHERE clause of the list of projects.
Listed(db, user, p) ==
    \/ p.visibility >= VisibleFloor(user)
    \/ /\ user # Null
       /\ \/ user.admin
          \/ \E m \in db.projectMembers : m.project = p.id /\ m.user = user.id
          \/ \E m \in db.groupMembers : m.ns = p.ns /\ m.user = user.id
          \/ \E n \in db.namespaces : n.id = p.ns /\ n.owner = user.id
=============================================================================
