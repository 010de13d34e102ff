----------------------------- MODULE Migration ------------------------------
(* rgit-migrate (crates/rgit-migrate/src/main.rs): one run of it is a process *)
(* that reads GitLab, builds a data directory beside the destination, and     *)
(* moves it there with one rename.  GitLab may still be written while a run   *)
(* copies, a run may be killed anywhere or meet an I/O error, another run may *)
(* have the same destination, and the operator may put something there.       *)
EXTENDS GitlabTables

CONSTANTS
    Migrator,     \* runs of the program
    Branch,       \* branches of a repository
    Sites,        \* the GitLab instances and command lines considered
    MaxPushes     \* bound on GitLab's writes to its repositories during a behaviour

VARIABLES
    site,         \* chosen once: [gl, storages, mode, crew, repos, lfs, start, live, faults]
    repos,        \* GitLab's repositories: project -> record, or Null
    pushes,       \* how many of GitLab's writes have happened
    failures,     \* how many kills and I/O errors have happened
    dest,         \* the destination directory
    phase, tables, errors, todo, staging, sourceRefs,   \* the state of each run
    seen          \* history: project -> the states its refs have had

run == <<phase, tables, errors, todo, staging, sourceRefs>>
migrationVars == <<site, repos, pushes, failures, dest, run, seen>>

\* The tables of each site, computed once.
TablesOf == [s \in Sites |-> ReadTables(s.gl)]

Projects == Ids(ReadProjects(site.gl))
Wanted == [projects |-> Projects, objects |-> ReadLfs(site.gl).objects]
Promise == INSTANCE MigrationPromise WITH wanted <- Wanted

Absent == Promise!Absent
Empty == Promise!Empty
Other == Promise!Other

\* A destination is not there, is empty, or is somebody's; every project has a
\* place where its repository would be; GitLab's rows satisfy its schema.
ASSUME SiteAssumption ==
    \A s \in Sites : /\ s.start \in {Absent, Empty, Other}
                     /\ Ids(ReadProjects(s.gl)) \subseteq DOMAIN s.repos
                     /\ GitlabSchema(s.gl)

\* A copy that cp -a has not begun: no ref, no object.
Blank == [refs |-> [b \in Branch |-> 0], objects |-> {}, alternates |-> FALSE,
          head |-> Null, left |-> Branch \cup {"rest"}]
NewStaging == [db |-> Null, repos |-> [p \in Projects |-> Null], lfs |-> {},
               defaults |-> [p \in Projects |-> Null]]

MigrationInit ==
    /\ site \in Sites
    /\ repos = site.repos
    /\ pushes = 0
    /\ failures = 0
    /\ dest = site.start
    /\ phase = [m \in Migrator |-> IF m \in site.crew THEN "start" ELSE "done"]
    /\ tables = [m \in Migrator |-> Null]
    /\ errors = [m \in Migrator |-> FALSE]
    /\ todo = [m \in Migrator |-> {}]
    /\ staging = [m \in Migrator |-> Null]
    /\ sourceRefs = [m \in Migrator |-> Null]
    /\ seen = [p \in DOMAIN repos |-> IF repos[p] = Null THEN {} ELSE {repos[p].refs}]

-----------------------------------------------------------------------------
(* Helpers *)

\* The error path of main: StagingDir's Drop removes the directory.
Bail(m) ==
    /\ phase' = [phase EXCEPT ![m] = "failed"]
    /\ staging' = [staging EXCEPT ![m] = Null]
    /\ UNCHANGED <<tables, errors, todo, sourceRefs>>

Outside == <<site, repos, pushes, failures, seen>>

Enter(m, l) == phase' = [phase EXCEPT ![m] = l]
Report(m, bad) == errors' = [errors EXCEPT ![m] = @ \/ bad]
SetStaging(m, s) == staging' = [staging EXCEPT ![m] = s]

\* The root a repository is looked for under: a mapping of its storage's name,
\* else the default root, unless there are mappings and none is for it.
RepositoryRoot(s, p) ==
    IF p.storage \in Range(s.storages) THEN p.storage
    ELSE IF s.storages = <<>> \/ p.storage = "default" THEN "default" ELSE Null

\* The directory a run would read, among GitLab's repositories rs, is there.
FoundIn(s, rs, p) == rs[p.id] # Null /\ rs[p.id].root = RepositoryRoot(s, p)
Found(p) == FoundIn(site, repos, p)

ProjectOf(m, id) == RowOf(tables[m].projects, id)

-----------------------------------------------------------------------------
(* Phase 1: read GitLab, and check what it points at. *)

Read(m) ==
    /\ phase[m] = "start"
    /\ LET t == TablesOf[site]
       IN IF ~t.ok THEN Bail(m)
          ELSE /\ tables' = [tables EXCEPT ![m] = t]
               /\ Report(m, t.errors)
               /\ Enter(m, "preflight")
               /\ UNCHANGED <<todo, staging, sourceRefs>>
    /\ UNCHANGED <<Outside, dest>>

PreflightErrors(s, rs, t) ==
    LET names == {p.storage : p \in t.projects}
    IN \/ s.mode = "reuse" /\ ~(names \subseteq {"default"})
       \/ Cardinality(names) > 1 /\ s.storages = <<>>
       \/ ~IsInjective(s.storages)
       \/ \E p \in t.projects : ~FoundIn(s, rs, p)
       \/ \E o \in t.lfs.objects : s.lfs[o] \in {"short", "missing"}

PreflightSources(m) ==
    /\ phase[m] = "preflight"
    /\ LET bad == errors[m] \/ PreflightErrors(site, repos, tables[m])
       IN IF bad THEN Bail(m)
          ELSE /\ Enter(m, IF site.mode = "dry" THEN "done" ELSE "stage")
               /\ UNCHANGED <<tables, errors, todo, staging, sourceRefs>>
    /\ UNCHANGED <<Outside, dest>>

\* mutant: an empty destination is refused too.
StageFresh(m) ==
    /\ phase[m] = "stage"
    /\ IF dest = Absent
       THEN /\ SetStaging(m, NewStaging)
            /\ Enter(m, "write")
            /\ UNCHANGED <<tables, errors, todo, sourceRefs>>
       ELSE Bail(m)
    /\ UNCHANGED <<Outside, dest>>

\* validate_destination, then StagingDir::create under a name of its own.
Stage(m) ==
    /\ phase[m] = "stage"
    /\ IF dest \in {Absent, Empty}
       THEN /\ SetStaging(m, NewStaging)
            /\ Enter(m, "write")
            /\ UNCHANGED <<tables, errors, todo, sourceRefs>>
       ELSE Bail(m)
    /\ UNCHANGED <<Outside, dest>>

(* Phase 2: the database. *)

\* mutant: the transaction is not committed.
WriteUncommitted(m) ==
    /\ phase[m] = "write"
    /\ todo' = [todo EXCEPT ![m] = Ids(tables[m].projects)]
    /\ Enter(m, IF site.mode = "reuse" THEN "defaults" ELSE "copy")
    /\ UNCHANGED <<Outside, dest, tables, errors, sourceRefs, staging>>

\* write_sqlite: one transaction, which a violated constraint rolls back.
Write(m) ==
    /\ phase[m] = "write"
    /\ IF WriteOk(tables[m])
       THEN /\ SetStaging(m, [staging[m] EXCEPT !.db = WriteSqlite(tables[m])])
            /\ todo' = [todo EXCEPT ![m] = Ids(tables[m].projects)]
            /\ Enter(m, IF site.mode = "reuse" THEN "defaults" ELSE "copy")
            /\ UNCHANGED <<tables, errors, sourceRefs>>
       ELSE Bail(m)
    /\ UNCHANGED <<Outside, dest>>

\* Shared storage: the default branches are read from GitLab's HEAD files.
PopulateSharedDefaultBranches(m) ==
    /\ phase[m] = "defaults"
    /\ IF \E p \in tables[m].projects : ~Found(p) THEN Bail(m)
       ELSE /\ SetStaging(m, [staging[m] EXCEPT !.defaults =
                   [p \in Projects |-> IF repos[p].head = "invalid" THEN Null ELSE repos[p].head]])
            /\ Report(m, \E p \in Projects : repos[p].head = "invalid")
            /\ Enter(m, "report")
            /\ UNCHANGED <<tables, todo, sourceRefs>>
    /\ UNCHANGED <<Outside, dest>>

-----------------------------------------------------------------------------
(* Phase 3: copy_repositories, one project after the other, then LFS. *)

Current(m) == Min(todo[m])

CopyRepository(m) ==
    /\ phase[m] = "copy"
    /\ todo[m] # {}
    /\ LET p == Current(m)
       IN IF Found(ProjectOf(m, p))
          THEN /\ SetStaging(m, [staging[m] EXCEPT !.repos[p] = Blank])
               /\ Enter(m, "cp")
               /\ UNCHANGED <<errors, todo>>
          ELSE /\ Report(m, TRUE)
               /\ todo' = [todo EXCEPT ![m] = @ \ {p}]
               /\ UNCHANGED <<phase, staging>>
    /\ UNCHANGED <<Outside, dest, tables, sourceRefs>>

\* cp -a of a directory is not a snapshot: each ref is read at a moment of its
\* own, and the objects (with the alternates file and HEAD) at another.
Copied(copy, source, part) ==
    IF part \in Branch
    THEN [copy EXCEPT !.refs[part] = source.refs[part], !.left = @ \ {part}]
    ELSE [copy EXCEPT !.objects = source.objects, !.alternates = source.pool # {},
                      !.head = source.head, !.left = @ \ {part}]

CopyDir(m, part) ==
    /\ phase[m] = "cp"
    /\ LET p == Current(m)  copy == staging[m].repos[p]
       IN /\ part \in copy.left
          /\ IF repos[p] = Null THEN Bail(m)
             ELSE /\ SetStaging(m, [staging[m] EXCEPT !.repos[p] = Copied(copy, repos[p], part)])
                  /\ Enter(m, IF copy.left = {part} THEN "refs" ELSE "cp")
                  /\ UNCHANGED <<tables, errors, todo, sourceRefs>>
    /\ UNCHANGED <<Outside, dest>>

\* The source's refs, read after the copy.
ReadSourceRefs(m) ==
    /\ phase[m] = "refs"
    /\ LET p == Current(m)
       IN IF repos[p] = Null THEN Bail(m)
          ELSE /\ sourceRefs' = [sourceRefs EXCEPT ![m] = repos[p].refs]
               /\ Enter(m, "check")
               /\ UNCHANGED <<tables, errors, todo, staging>>
    /\ UNCHANGED <<Outside, dest>>

Connected(copy, objects) == \A b \in Branch : copy.refs[b] = 0 \/ copy.refs[b] \in objects

\* What git repack -a -d can reach: the pool too, if the copied alternates file
\* still leads to it from the staging directory.
Reachable(p, copy) ==
    copy.objects \cup (IF copy.alternates /\ site.repos[p].poolResolves THEN site.repos[p].pool ELSE {})

\* mutant: the refs are not compared.
CheckCopyLax(m) ==
    /\ phase[m] = "check"
    /\ LET p == Current(m)
           copy == staging[m].repos[p]
           whole == [copy EXCEPT !.objects = Reachable(p, copy), !.alternates = FALSE]
       IN /\ SetStaging(m, [staging[m] EXCEPT !.repos[p] = whole])
          /\ Report(m, ~Connected(whole, whole.objects) \/ site.repos[p].auxDamaged)
          /\ todo' = [todo EXCEPT ![m] = @ \ {p}]
          /\ sourceRefs' = [sourceRefs EXCEPT ![m] = Null]
          /\ Enter(m, "copy")
    /\ UNCHANGED <<Outside, dest, tables>>

\* Alternates dissolved (repack and the connectivity check abort the run when an
\* object is missing), refs compared, full fsck of the copy and of the wiki and
\* design repositories copied beside it.
CheckCopy(m) ==
    /\ phase[m] = "check"
    /\ LET p == Current(m)
           copy == staging[m].repos[p]
           whole == [copy EXCEPT !.objects = Reachable(p, copy), !.alternates = FALSE]
       IN IF copy.alternates /\ ~Connected(copy, Reachable(p, copy)) THEN Bail(m)
          ELSE /\ SetStaging(m, [staging[m] EXCEPT !.repos[p] = whole])
               /\ Report(m, \/ sourceRefs[m] # copy.refs
                            \/ ~Connected(whole, whole.objects)
                            \/ site.repos[p].auxDamaged)
               /\ todo' = [todo EXCEPT ![m] = @ \ {p}]
               /\ sourceRefs' = [sourceRefs EXCEPT ![m] = Null]
               /\ Enter(m, "copy")
               /\ UNCHANGED tables
    /\ UNCHANGED <<Outside, dest>>

\* Outcomes of the metadata call and of the hash of a source file.
SizeMatches(o) == site.lfs[o] \in {"good", "corrupt"}
HashMatches(o) == site.lfs[o] = "good"

\* Size, source hash, copy, destination hash; spoilt: copies the disk damaged.
CopyLfsObjects(m, spoilt) ==
    /\ phase[m] = "copy"
    /\ todo[m] = {}
    /\ spoilt # {} => failures < site.faults
    /\ failures' = failures + (IF spoilt = {} THEN 0 ELSE 1)
    /\ LET wanted == tables[m].lfs.objects
           good == {o \in wanted : SizeMatches(o) /\ HashMatches(o)}
       IN /\ spoilt \subseteq good
          /\ SetStaging(m, [staging[m] EXCEPT !.lfs = good \ spoilt])
          /\ Report(m, good # wanted \/ spoilt # {})
    /\ Enter(m, "verify")
    /\ UNCHANGED <<site, repos, pushes, seen, dest, tables, todo, sourceRefs>>

(* Phase 4: verify, report, publish. *)

Verify(m) ==
    /\ phase[m] = "verify"
    /\ LET copies == staging[m].repos
       IN /\ Report(m, \E p \in Ids(staging[m].db.projects) : copies[p] = Null)
          /\ SetStaging(m, [staging[m] EXCEPT !.defaults =
                 [p \in Projects |-> IF copies[p] = Null THEN Null ELSE copies[p].head]])
    /\ Enter(m, "report")
    /\ UNCHANGED <<Outside, dest, tables, todo, sourceRefs>>

\* The report is written; with errors a copy of it goes beside the destination.
WriteReport(m) ==
    /\ phase[m] = "report"
    /\ IF errors[m] THEN Bail(m)
       ELSE /\ Enter(m, "publish")
            /\ UNCHANGED <<tables, errors, todo, staging, sourceRefs>>
    /\ UNCHANGED <<Outside, dest>>

\* publish: an existing destination is removed, which works when it is empty..
RemoveEmptyDestination(m) ==
    /\ phase[m] = "publish"
    /\ IF dest \in {Absent, Empty}
       THEN /\ dest' = Absent
            /\ Enter(m, "rename")
            /\ UNCHANGED <<tables, errors, todo, staging, sourceRefs>>
       ELSE Bail(m) /\ UNCHANGED dest
    /\ UNCHANGED Outside

\* ..then the staging directory is renamed, over nothing or an empty directory.
Published(s) == [kind |-> "published", mode |-> site.mode, db |-> s.db, repos |-> s.repos,
                 lfs |-> s.lfs, defaults |-> s.defaults]

Rename(m) ==
    /\ phase[m] = "rename"
    /\ IF dest \in {Absent, Empty}
       THEN /\ dest' = Published(staging[m])
            /\ SetStaging(m, Null)
            /\ Enter(m, "done")
            /\ UNCHANGED <<tables, errors, todo, sourceRefs>>
       ELSE Bail(m) /\ UNCHANGED dest
    /\ UNCHANGED Outside

-----------------------------------------------------------------------------
(* Around the run *)

Ended == {"failed", "killed", "done"}

\* A disk that is full, a tool that fails: the error path, with its clean-up.
IoError(m) ==
    /\ phase[m] \notin Ended
    /\ failures < site.faults
    /\ failures' = failures + 1
    /\ Bail(m)
    /\ UNCHANGED <<site, repos, pushes, seen, dest>>

\* Killed: nothing is cleaned up, and the staging directory stays behind.
Kill(m) ==
    /\ phase[m] \notin Ended
    /\ failures < site.faults
    /\ failures' = failures + 1
    /\ Enter(m, "killed")
    /\ UNCHANGED <<site, repos, pushes, seen, dest, tables, errors, todo, staging, sourceRefs>>

\* The operator starts again; the new run's staging directory has a new name.
Rerun(m) ==
    /\ phase[m] \in {"failed", "killed"}
    /\ dest \in {Absent, Empty}
    /\ Enter(m, "start")
    /\ tables' = [tables EXCEPT ![m] = Null]
    /\ errors' = [errors EXCEPT ![m] = FALSE]
    /\ todo' = [todo EXCEPT ![m] = {}]
    /\ staging' = [staging EXCEPT ![m] = Null]
    /\ sourceRefs' = [sourceRefs EXCEPT ![m] = Null]
    /\ UNCHANGED <<Outside, dest>>

\* A push to GitLab: a new commit, a branch set back to an old one, or deleted.
PushGitlab(p, b, v) ==
    /\ site.live
    /\ pushes < MaxPushes
    /\ repos[p] # Null
    /\ v \in {0, pushes + 2} \cup repos[p].objects
    /\ v # repos[p].refs[b]
    /\ pushes' = pushes + 1
    /\ repos' = [repos EXCEPT ![p].refs[b] = v, ![p].objects = @ \cup ({v} \ {0})]
    /\ seen' = [seen EXCEPT ![p] = @ \cup {repos'[p].refs}]
    /\ UNCHANGED <<site, failures, dest, run>>

RemoveRepository(p) ==
    /\ site.live
    /\ pushes < MaxPushes
    /\ repos[p] # Null
    /\ pushes' = pushes + 1
    /\ repos' = [repos EXCEPT ![p] = Null]
    /\ UNCHANGED <<site, failures, dest, run, seen>>

\* Somebody makes the destination, or starts to use it.
Occupy(d) ==
    /\ site.live
    /\ dest \in {Absent, Empty}
    /\ d \in {Empty, Other}
    /\ d # dest
    /\ dest' = d
    /\ UNCHANGED <<Outside, run>>

RunStep(m) ==
    \/ Read(m) \/ PreflightSources(m) \/ Stage(m) \/ Write(m)
    \/ PopulateSharedDefaultBranches(m)
    \/ CopyRepository(m)
    \/ \E part \in Branch \cup {"rest"} : CopyDir(m, part)
    \/ ReadSourceRefs(m) \/ CheckCopy(m)
    \/ \E spoilt \in SUBSET DOMAIN site.lfs : CopyLfsObjects(m, spoilt)
    \/ Verify(m) \/ WriteReport(m)
    \/ RemoveEmptyDestination(m) \/ Rename(m)

MigrationNext ==
    \/ \E m \in Migrator : RunStep(m) \/ IoError(m) \/ Kill(m) \/ Rerun(m)
    \/ \E p \in DOMAIN repos : \/ \E b \in Branch, v \in 0 .. MaxPushes + 1 : PushGitlab(p, b, v)
                               \/ RemoveRepository(p)
    \/ \E d \in {Empty, Other} : Occupy(d)

\* A run proceeds by itself, and the operator starts a failed one again.
Fairness == \A m \in Migrator : WF_migrationVars(RunStep(m)) /\ WF_migrationVars(Rerun(m))

MigrationSpec == MigrationInit /\ [][MigrationNext]_migrationVars /\ Fairness

-----------------------------------------------------------------------------
(* Properties *)

Label == {"start", "preflight", "stage", "write", "defaults", "copy", "cp", "refs", "check",
          "verify", "report", "publish", "rename"} \cup Ended

\* A staging directory exists from its creation to the rename or the clean-up
\* (or stays behind a killed run), and the database in it from its commit on.
MigrationTypeOK ==
    /\ phase \in [Migrator -> Label]
    /\ errors \in [Migrator -> BOOLEAN]
    /\ dest.kind \in {"absent", "empty", "other", "published"}
    /\ \A m \in Migrator :
          /\ phase[m] \notin {"start", "preflight", "stage", "failed", "killed", "done"} =>
                staging[m] # Null /\ (phase[m] # "write" => staging[m].db # Null)
          /\ todo[m] \subseteq Projects
          /\ phase[m] \in {"cp", "refs", "check"} => todo[m] # {}

\* Every migrated user has on every migrated project the level GitLab gave:
\* nested groups are flattened and their memberships materialised, yet nobody
\* gains or loses access (write_sqlite, effective_access_level).
AccessPreserved ==
    dest.kind = "published" =>
        \A u \in dest.db.users, p \in dest.db.projects :
            EffectiveAccessLevel(dest.db, u.id, p) = GitlabLevel(site.gl, u.id, p)

\* "Root namespaces keep their original path when possible": whatever nested
\* groups are flattened onto, a root keeps its own path (GitLab has none longer
\* than the limit), and no two namespaces share one.
RootPathsKept ==
    dest.kind = "published" =>
        /\ \A n \in site.gl.namespaces :
              n.parent = Null /\ n.type \in {"User", "Group"} =>
                  RowOf(dest.db.namespaces, n.id).path = n.path
        /\ \A x, y \in dest.db.namespaces : x.path = y.path => x = y

\* The run implements the promise: the destination is left alone until it
\* becomes, in one step, a whole copy of states GitLab really had.
PromiseKept == Promise!Spec

\* GitLab is stopped, as the runbook asks, and nothing in it stands in the way.
CleanSites ==
    {s \in Sites :
        LET t == TablesOf[s]
        IN /\ ~s.live /\ s.mode # "dry" /\ s.start \in {Absent, Empty}
           /\ t.ok /\ ~t.errors /\ WriteOk(t) /\ ~PreflightErrors(s, s.repos, t)
           /\ \A o \in t.lfs.objects : s.lfs[o] = "good"
           /\ \A p \in t.projects :
                LET r == s.repos[p.id]
                IN /\ r.head # "invalid" /\ ~r.auxDamaged
                   /\ \A b \in Branch :
                         \/ r.refs[b] \in {0} \cup r.objects
                         \/ r.poolResolves /\ r.refs[b] \in r.pool}

\* Whatever a killed or failed run leaves, or another run does meanwhile, a run
\* started again in the end publishes.
CleanSitePublishes == site \in CleanSites => <>(dest.kind = "published")
=============================================================================
