---------------------------- MODULE GitlabTables ----------------------------
(* The tables part of rgit-migrate: what its read functions take from         *)
(* GitLab's PostgreSQL, how nested groups become flat namespaces              *)
(* (flatten_namespaces) and the rows the SQLite transaction inserts           *)
(* (write_sqlite).                                                            *)
(*                                                                            *)
(* A GitLab instance is a record gl of sets of rows:                          *)
(*   users      [id, human, admin, state]   human: user_type 0, with a name   *)
(*   namespaces [id, type, path, owner, parent]   path: a sequence of words,  *)
(*              so that the joined path of a nested group can equal the path  *)
(*              of a root one; type is "User", "Group" or "Project"           *)
(*   projects   [id, ns, storage, legacy, pendingDelete, visibility, archived]*)
(*   members    [type, source, user, level, pending]                          *)
(*   keys       [user, fingerprint, usable]   usable: type NULL or 'Key', with*)
(*              a user, a key and a fingerprint                               *)
(*   objects    [oid, local], links and forks: pairs                          *)
EXTENDS AccessLevels, Sequences, SequencesExt, TLC

\* The longest path, in words (255 bytes in the code).
CONSTANT MaxPath

ASSUME MaxPathAssumption == MaxPath \in Nat \ {0}

\* What GitLab's schema says of its rows: primary keys, one root namespace for a
\* path, paths that fit their column, personal namespaces without a parent,
\* group memberships of groups, levels that are numbers.
GitlabSchema(gl) ==
    /\ IsFiniteSet(gl.namespaces) /\ IsFiniteSet(gl.members)
    /\ \A n \in gl.namespaces : n.id \in Nat
    /\ \A n, o \in gl.namespaces :
          \/ n = o
          \/ n.id # o.id /\ (n.parent = Null /\ o.parent = Null => n.path # o.path)
    /\ \A n \in gl.namespaces : /\ n.parent = Null => Len(n.path) <= MaxPath
                                /\ n.type = "User" => n.parent = Null
    /\ \A m \in gl.members :
          /\ m.level \in Nat
          /\ m.type = "Namespace" => \A n \in gl.namespaces : n.id = m.source => n.type = "Group"
    /\ \A u \in gl.users : u.id # Null

-----------------------------------------------------------------------------
(* The SELECTs. *)

ReadUsers(gl) == {u \in gl.users : u.human}
ReadProjects(gl) == {p \in gl.projects : ~p.pendingDelete}
LegacyError(gl) == \E p \in gl.projects : p.legacy
ReadMembers(gl) == {m \in gl.members : m.user # Null /\ ~m.pending}
ReadKeys(gl) == {k \in gl.keys : k.usable}
ReadLfs(gl) == [objects |-> {o.oid : o \in gl.objects},
                links |-> {l \in gl.links : \E o \in gl.objects : o.oid = l[2]}]
RemoteError(gl) == \E o \in gl.objects : ~o.local

\* 'User' and 'Group' rows only; every other type is filtered out.
RawNamespaces(gl) ==
    {[id |-> n.id, path |-> n.path, owner |-> n.owner, parent |-> n.parent,
      kind |-> IF n.type = "User" THEN "user" ELSE "group"] :
        n \in {x \in gl.namespaces : x.type \in {"User", "Group"}}}

-----------------------------------------------------------------------------
(* flatten_namespaces *)

Ids(rows) == {r.id : r \in rows}
RowOf(rows, id) == CHOOSE r \in rows : r.id = id

ParentsOf(raw, id) == {r.parent : r \in {x \in raw : x.id = id}} \ {Null}

\* One step up from the first id of a chain, unless that is a root or missing.
Climb(raw, chain) ==
    LET parents == ParentsOf(raw, Head(chain))
    IN IF parents = {} THEN chain ELSE <<CHOOSE p \in parents : TRUE>> \o chain

\* The ids from the topmost ancestor reached to id.  The climb also stops once it
\* has visited more rows than there are.
Chain(raw, id) ==
    LET climb[k \in 0 .. Cardinality(raw)] ==
          IF k = 0 THEN <<id>> ELSE Climb(raw, climb[k - 1])
    IN climb[Cardinality(raw)]

\* No cycle, no missing parent, no ancestor that is not a group.
ChainOk(raw, id) ==
    /\ IsInjective(Chain(raw, id))
    /\ \A a \in Range(Chain(raw, id)) : a \in Ids(raw) /\ RowOf(raw, a).kind = "group"

Ancestry(raw, n) == IF n.kind = "user" THEN <<>> ELSE Chain(raw, n.id)

JoinedPath(raw, n) ==
    IF n.kind = "user" THEN n.path
    ELSE FlattenSeq([i \in DOMAIN Chain(raw, n.id) |-> RowOf(raw, Chain(raw, n.id)[i]).path])

\* mutant: in the order of the ids.
NextById(raw, left) == CHOOSE n \in left : \A m \in left \ {n} : n.id < m.id

\* The order of the loop: roots before nested groups, then by id.
NextOf(raw, left) ==
    LET depth(n) == Len(Ancestry(raw, n))
    IN CHOOSE n \in left :
          \A m \in left \ {n} : \/ depth(n) < depth(m)
                                \/ depth(n) = depth(m) /\ n.id < m.id

\* Too long or already taken: cut, and the id appended as one more word.
FlatPath(used, path, id) ==
    IF Len(path) > MaxPath \/ path \in used
    THEN SubSeq(path, 1, Min({Len(path), MaxPath - 1})) \o <<ToString(id)>>
    ELSE path

\* One namespace of the loop: fl.ok is false after a bail, fl.left still to do.
FlattenOne(raw, fl) ==
    LET n == NextOf(raw, fl.left)
        path == FlatPath(fl.used, JoinedPath(raw, n), n.id)
    IN [ok |-> fl.ok /\ path \notin fl.used,
        used |-> fl.used \cup {path},
        rows |-> fl.rows \cup {[id |-> n.id, path |-> path, kind |-> n.kind, owner |-> n.owner,
                                ancestry |-> Range(Ancestry(raw, n))]},
        left |-> fl.left \ {n}]

Unflattened(raw) == [ok |-> TRUE, used |-> {}, rows |-> {}, left |-> raw]

FlattenNamespaces(raw) ==
    LET flat[k \in 0 .. Cardinality(raw)] ==
          IF k = 0 THEN Unflattened(raw) ELSE FlattenOne(raw, flat[k - 1])
    IN IF \A n \in raw : n.kind = "user" \/ ChainOk(raw, n.id)
       THEN flat[Cardinality(raw)]
       ELSE [Unflattened(raw) EXCEPT !.ok = FALSE]

-----------------------------------------------------------------------------
(* What the run holds in memory after the reads.  ok is false when a read     *)
(* bails; errors when the report has an entry.                                *)

ReadTables(gl) ==
    LET flat == FlattenNamespaces(RawNamespaces(gl))
    IN [ok |-> flat.ok, errors |-> LegacyError(gl) \/ RemoteError(gl),
        users |-> ReadUsers(gl), namespaces |-> flat.rows, projects |-> ReadProjects(gl),
        members |-> ReadMembers(gl), keys |-> ReadKeys(gl), lfs |-> ReadLfs(gl),
        forks |-> gl.forks]

-----------------------------------------------------------------------------
(* write_sqlite: the rows of the transaction.                                 *)

UserRows(t) ==
    {[id |-> u.id, admin |-> u.admin, active |-> u.state = "active"] : u \in t.users}

\* A personal namespace whose owner was not migrated is kept as a group.
NamespaceRows(t) ==
    {IF n.kind = "user" /\ n.owner \in Ids(t.users)
     THEN [id |-> n.id, path |-> n.path, kind |-> "user", owner |-> n.owner]
     ELSE [id |-> n.id, path |-> n.path, kind |-> "group", owner |-> Null] :
        n \in t.namespaces}

\* Forks are linked after every project row exists.
ProjectRows(t) ==
    {[id |-> p.id, ns |-> p.ns, disk |-> p.id, visibility |-> p.visibility,
      archived |-> p.archived,
      parent |-> LET linked == {f[2] : f \in {x \in t.forks : x[1] = p.id}} \cap Ids(t.projects)
                 IN IF linked = {} THEN Null ELSE CHOOSE q \in linked : TRUE] :
        p \in t.projects}

\* The rows offered to project_members, before the conflict clause.
OfferedMembers(t) ==
    {m \in t.members : /\ m.type = "Project"
                       /\ m.user \in Ids(t.users)
                       /\ m.source \in Ids(t.projects)}

Highest(rows) == Max({r.level : r \in rows})

ProjectMemberRows(t) ==
    {[project |-> m.source, user |-> m.user,
      level |-> Highest({x \in OfferedMembers(t) : x.source = m.source /\ x.user = m.user})] :
        m \in OfferedMembers(t)}

\* mutant: a group's own memberships only.
InheritedOwn(t, n, user) ==
    {m \in t.members : m.type = "Namespace" /\ m.user = user /\ m.source = n.id}

\* Memberships of a group, and of every ancestor, on each flattened group.
Inherited(t, n, user) ==
    {m \in t.members : m.type = "Namespace" /\ m.user = user /\ m.source \in n.ancestry}

GroupMemberRows(t) ==
    {[ns |-> x[1].id, user |-> x[2], level |-> Highest(Inherited(t, x[1], x[2]))] :
        x \in {y \in {n \in t.namespaces : n.kind = "group"} \X Ids(t.users) :
                  Inherited(t, y[1], y[2]) # {}}}

\* INSERT OR IGNORE: one row for a fingerprint, whichever comes first.
KeyRows(t) ==
    LET offered == {k \in t.keys : k.user \in Ids(t.users)}
    IN {[fingerprint |-> f, user |-> (CHOOSE k \in offered : k.fingerprint = f).user] :
           f \in {k.fingerprint : k \in offered}}

LinkRows(t) == {l \in t.lfs.links : l[1] \in Ids(t.projects) /\ l[2] \in t.lfs.objects}

\* A constraint or a trigger that aborts the transaction: a project whose
\* namespace has no row, an access level that is not one of GitLab's five.
WriteOk(t) ==
    /\ \A p \in t.projects : p.ns \in Ids(t.namespaces)
    /\ \A m \in OfferedMembers(t) : m.level \in AccessLevel
    /\ \A r \in GroupMemberRows(t) : r.level \in AccessLevel

WriteSqlite(t) ==
    [users |-> UserRows(t), namespaces |-> NamespaceRows(t), projects |-> ProjectRows(t),
     projectMembers |-> ProjectMemberRows(t), groupMembers |-> GroupMemberRows(t),
     keys |-> KeyRows(t), objects |-> t.lfs.objects, links |-> LinkRows(t)]

-----------------------------------------------------------------------------
(* GitLab's own rule, stated without the algorithm above: a membership of a   *)
(* group counts in every group below it.                                      *)

Above(gl, id) ==
    {a \in Ids(gl.namespaces) :
        \A S \in SUBSET Ids(gl.namespaces) :
            (id \in S /\ \A n \in gl.namespaces : n.id \in S /\ n.parent # Null => n.parent \in S)
              => a \in S}

GitlabLevels(gl, user, p) ==
    {m.level : m \in {x \in ReadMembers(gl) :
        /\ x.user = user
        /\ \/ x.type = "Project" /\ x.source = p.id
           \/ x.type = "Namespace" /\ x.source \in Above(gl, p.ns)}}
      \cup {Owner : n \in {x \in gl.namespaces : x.id = p.ns /\ x.type = "User" /\ x.owner = user}}

GitlabLevel(gl, user, p) ==
    IF GitlabLevels(gl, user, p) = {} THEN 0 ELSE Max(GitlabLevels(gl, user, p))
=============================================================================
