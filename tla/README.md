# rgit, specified in TLA+

rgit is a small git host: one server process (`crates/rgit`, HTTP in
`crates/rgit-http`), a forced command for OpenSSH (`crates/rgit-ssh`), a SQLite
database, bare repositories and LFS objects on disk. This directory holds TLA+
modules of the parts in which several requests, child processes and crashes
meet, the TLC configurations that check them, and theorems checked by TLAPS.
Paths below are relative to the repository; bare names of Rust files are in
`crates/rgit-http/src/handlers` and `crates/rgit-core/src`.

## Running it

    tlc -workers 2 -config ProjectFaults.cfg MCProjectStore.tla   # one run
    tlapm ProjectStoreProofs.tla                                  # the proofs of a module

`PROJECT.json` lists the runs with their properties, the mutations each property
was tested against, and, for every definition, the lines of source it models.

## Inventory

The server is one tokio process. Handlers are futures that interleave at every
`.await`; a client that disconnects drops its handler at one. State that
outlives a request is in SQLite, whose statements and transactions are atomic
and whose triggers and constraints act inside them, in the file system, and in
three in-memory objects: the git semaphore, the operation tracker, and the
login failure counters. `rgit-shell` is a process per SSH session that shares
the database and the repositories, but not the memory. git itself runs as a
child process for everything that touches a repository.

| part | state | operations | what is hard | what makes it correct | module |
|---|---|---|---|---|---|
| project store (`projects.rs`, `autocreate.rs`, `repo.rs`) | rows of projects and namespaces, allocated disk ids, repository directories | create, fork, auto-create on push, delete, transfer, group deletion | row and directory change in separate steps; row ids are reused; clean-up of losers | a project has its repository, a repository has its project, a storage path is used once | `ProjectStore` |
| users and groups (`admin.rs`, `groups.rs`, migrations 0003, 0005, 0006) | users, admin flags, state, groups, memberships | create, update, delete, add, remove | pre-checks that are stale when the write comes; cascades | somebody can administer the instance and every group | `Accounts` |
| git slots and the stop (`state.rs`, `git_http.rs`, `main.rs`) | semaphore, queue, tracker, phase of the stop | acquire with timeout, detach, release, drain, wait_idle | cancellation at the hand-over; lost wake-ups; responses that end before their work | no permit is lost, nothing is cut off by a stop in time, a stop ends | `GitSlots` |
| default branch (`repo.rs`, `git_http.rs`, `shell.rs`, `projects.rs`) | HEAD, `default_branch`, `archived` | push, bookkeeping, settings update, archive | HEAD and row change in separate steps, each on a stale view; git prints names its own way | HEAD and browsing name a branch that exists | `HeadBranch` |
| LFS objects (`lfs.rs`, `storage.rs`) | files, fragments, rows, links | upload, batch link, fork, project deletion, restart | crash between rename and rows; equal uploads at once; long uploads | what can be downloaded is there and whole | `LfsStore` |
| SSH keys (`keys.rs`, `authorized_keys.rs`) | ssh_keys, the authorized_keys file | add, delete, rebuild, block, delete user, start | snapshot and write are apart; a rebuild may fail | the file has the keys of active users | `AuthorizedKeys` |
| authorization (`auth/mod.rs`, `perm.rs`, the `WHERE` of `list`, scopes) | none | effective level, list, page, git, LFS, SSH | the list filters by SQL joins, everything else asks for a level; credentials have scopes | all ways to a project agree; who pushes can fetch | `AccessLevels`, `Gates` |
| project members (`members.rs`) | project_members, group_members, the project's namespace | add, remove, group changes, transfer | levels are read before the write | nobody changes a level from or to one above their own | `Members` |
| login throttle (`session.rs:26-80`, `middleware/auth.rs`) | the map of failures in memory | check, verify, count, clear, evict | check and count are apart; one map for two kinds of keys, bounded | counts and memory are bounded, a lockout ends | `LoginThrottle` |
| sessions, passwords, tokens, LFS credentials (`session.rs`, `user.rs`, `admin.rs`, `tokens.rs`, `auth/`) | users, the three tables of credentials | login, logout, change, reset, block, delete, create, revoke, expire, purge | a login races a password change; user ids are given again | a changed password or state ends sessions; a credential stays its person's | `Sessions` |
| migration (`rgit-migrate`) | staging directory, tables, destination | read, preflight, write, copy, check, verify, publish | GitLab changes meanwhile; kills, a second run, an operator; nested groups become flat | nothing is published unverified or overwritten, access is kept | `GitlabTables`, `Migration`, `MigrationPromise` |
| backup, restore (`scripts/`) | worktree, index, refs, excludes, the host's branch | clone, fetch, checkout, mirror, snapshot, split, commit, push; restore | any command may be the last; the next run finds what is left | a restore gives what one run copied; the host catches up | `Backup` |
| protocol framing, browsing, routing, configuration, web client, deployment | none that outlives a request | | | | not modelled |

`PROJECT.json` lists the hazards of this code line by line, with the properties
that cover them, and those that nothing covers yet.

## Modules

A module models one part; `MC<module>` supplies constants for TLC. Theorems are
in modules of their own: `<module>Proofs` for one part, `GitProofs` for
`GitSlots` and `HeadBranch`, `SignInProofs` for `LoginThrottle` and `Sessions`,
`OfflineProofs` for `Migration` and `Backup`. All modules share a convention: a request
is a record with a program counter, and one action is one stretch of code
between two points at which another request can run. What a request has read is
in its record and may be stale. Variables called *history* in their
declarations are not in the program; no guard of an action of the program reads
them. A definition marked *mutant* is a wrong variant of the definition after
it and is used by no specification.

### ProjectStore

`projects`, `allocated` and `namespaces` are tables; `dirs` and `trash` are the
repositories at `@hashed/...` and the ones renamed to `.deleted.<timestamp>`,
named by their disk id. `Create`, `Fork`, `Push`, `Delete`, `Transfer` and
`NsDelete` are the first steps of the handlers of those names
(`projects.rs:234-612`, `autocreate.rs:11-66`, `groups.rs:339-362`), which read
rows and authorize; `Reserve`, `Slot`, `InitRepo`, `Insert` and `CheckRepo` are
the rest of a creation, `MoveToTrash` and `Purge` of a deletion. A failure runs
the clean-up the code runs (`CleanUp`, `Restore`), inside the action that
fails. `Cancel` drops a request between two steps. A project's repositories
(code, wiki, design) move together, so one id stands for the three; the
restoration of the ones already moved is `Restore`. Row ids are given as SQLite
gives them without AUTOINCREMENT: one above the largest. `left` remembers the directories a fault may have left
behind and `astray` the rows deleted by a request that meant an earlier row of
the same id; both are named exceptions of `NoOrphanRepo`.

### Accounts

Users, administrators, groups and members with the levels 10 to 50. Each
handler is `Enter` (identify the caller, from a snapshot), `Check` (the
pre-check of the handler: another administrator, another owner, no projects)
and one `Write...` action, the statement or transaction with its triggers
(`LastActiveAdmin`, `LastGroupOwner`), foreign keys (`Restricted`, `Referenced`)
and cascades. `ProjectsChange` stands for the projects of `ProjectStore`: they
appear in and leave a namespace at any time.

### GitSlots

Connections carry one operation after the other. An operation is `queued` for a
permit, holds it `inline` (browsing, creation), or hands it to a detached task
that waits for the git `child` and, after a push, does `PostReceive`; LFS
transfers are tracked and need no permit. The stop is main's: drain the HTTP
server, `wait_idle` (its loop as `arm`, `armed`, `checked`, `asleep`), close the
database, all unless `GraceExpires`. tokio's semaphore is external; its queue is
first in, first out, and a permit given back goes to the head of the queue.

### HeadBranch

One project: branches, the tags that have a branch's name, HEAD, the recorded
default branch and the archived flag. A push is `Receive` (the git child, which
creates or deletes branches and tags), then `ReadHead`, `CheckHead`, `Probe` of
master and main, `Recent`, `SetHead`, `Record`, each a git child or a statement,
as in `refresh_head_branch_after_push`; an update is `Verify`, `SetHead`,
`Record`. With `Faults` a git child may time out (which `branch_exists` takes
for "no such branch", `Answers`) and a handler may be cut off (`CutOff`).

A name is a pair, `Plain(b)` for b and `Heads(b)` for heads/b, since git prints
`heads/b` where a tag b exists (`Short`, `ShortRefs`) and the code goes on with
what git printed: `SetHead` puts `refs/heads/` before it, `Answers` asks for it.
Where a name is a revision (`default_ref`), `heads/b` finds the branch all the
same (`Resolves`), and so does b, though beside a tag b it shows the tag. That
a tag has the name of HEAD's branch may also make a push move HEAD to another
branch that exists, which no property forbids. Branches and tags whose own names
begin with `heads/` are left out.

A push that deletes a branch or tag under requests that have chosen it (`Lose`)
makes their choice `Stale`; what a stale choice or a cut-off push leaves is
`torn` until a later push has looked at HEAD and ended. `HeadBorn` and
`BrowsedBorn` have two exceptions, `torn` and `Misnamed` (HEAD is
`refs/heads/heads/b` beside a branch and a tag b). Without the second, as the
code's comment has it, neither holds: TLC finds the push below.

### LfsStore

Oids with their file (`stored`), their fragments (`parts`, named by oid and
upload sequence number; the process id in the file's name is the bound of one
process at a time), rows and links. `BeginUpload`, `Receive`, `Move`, `Insert`
are `upload` and `store_streaming`; `Reject` and `Drop` are their error paths;
`BeginBatch` and `BatchLink` link an object that exists. `Crash` and `Restart`
(`cleanup_lfs_temp`) may happen at any step. A project is its row id,
which may be reused.

### AuthorizedKeys

Rows, and the lines of the file. `Change` is the INSERT or DELETE of the key
handlers; `Lock`, `Read` and `Write` are `sync` under `SYNC_LOCK`; `Fail` is a
dropped handler or an error in a rebuild. `SetState` and `DeleteUser` are
`admin.rs`, which leaves the file alone; `Restart` rebuilds it before the
server serves. The file is replaced by a rename, so it is never half-written.

### LoginThrottle

The map `failures` (count and time to live per key) and the attempts. Keys are
a name with an address, and an address alone, which is allowed `IpFactor` times
as many failures. `GuessesBounded` is about the counter and no more: an
eviction, a success or the end of a lockout starts it from nothing. `Check`, `CheckIp`, `Verify`, `Fail`, `FailIp`, `Clear`,
`ClearIp` each take the mutex once, in the order of `login` and of
`authenticate_basic`; `record_failure` gives up any key (the first of the hash
map) when the map is full. `Tick` is the clock.

### Sessions

Users by id and one table of credentials of three kinds. A request finds its
credential (`Present`), then reads the user (`ReadUser`), then does something
with the row it has read; a password login reads the user (`Identify`, `As`) and
inserts its session later (`CreateSession`), and rgit-shell its LFS credential
(`IssueLfs`). `ChangePassword`, `UpdateUser`, `DeleteUser` are transactions or
statements with what they delete besides; ids of deleted users return
(`NextId`). `Expire` is time, the purges are `maintenance_loop`.

A changed password ends all sessions of its user, the caller's own included,
and `SessionsAreCurrent` asks for no less, although the handler's comment has
the change end the other sessions. `TokensRevokedByOwner` is about the request that revokes:
it and the token have one user id, and belong to one person, with two
exceptions. Both come of an id that was given to another person while a request
of the old one was in progress: that request may revoke a token of the new
person, and a token it has inserted is the new person's.

### AccessLevels, Gates, Members

`AccessLevels` has `effective_access_level` and `authorize_repo` over rows of a
database; it is shared by `Migration`. `Gates` adds what the list selects
(`Listed`) and how a page, git over HTTP, LFS and SSH authorize an identity with
its scopes. `Members` is the state they are asked about: `CallerLevel` (with the
namespace the project had when it was located), `Target` and `Write` are the
three accesses of `add` and `remove`, while
`GroupChange` (of `Accounts`) and `Transfer` (of `ProjectStore`) happen at any
time.

### GitlabTables, Migration, MigrationPromise

`GitlabTables` translates the reads of `rgit-migrate` (users, flattened
namespaces, projects, members, keys, LFS) and the rows of `write_sqlite`, with
GitLab's own rule for inherited levels as reference (`GitlabLevel`): the
largest of the levels on the project and on the groups above it. Projects and
groups shared with a group, and memberships that expire, are neither in the
program nor in that rule, so `AccessPreserved` says nothing of them. The tables
and LFS files stay as they are while repositories change, since the runbook
stops puma and sidekiq before a migration (`docs/MIGRATION.md:31`); that pushes
may come all the same is more than it asks for.
`Migration` is the program around them: preflight, staging directory, the
transaction, one copy after the other (`CopyDir` copies a ref at a time, so
GitLab's pushes may fall between), the checks of each copy, verification,
report and the rename. `Kill`, `IoError`, `PushGitlab`, `RemoveRepository`, `Occupy`
and `Rerun` are the surroundings. `MigrationPromise` is the abstract
specification: in one step, or never, an absent or empty destination becomes a
whole copy of states the source had. `Migration` implements it
(`PromiseKept == Promise!Spec`, an `INSTANCE ... WITH`, checked as a property).

### Backup

A file at three paths (whole, marker, chunks) in worktree, index and commits.
The actions are the commands of `rgit-backup.sh` in order, `CopyNext` one file
of `copy_tree`; git itself is external (`Kept`, `Refused`, `MoveTo`,
`Unstaged`). `Fail` ends a run before any command, `Network(FALSE)` is a host
that does not answer, `LoseWorktree` an operator who removes the worktree. A
clone that fails, or finds no branch, is followed by `InitRepo` and `AddOrigin`;
`NoOrigin` is the end of every run in a repository that has no remote.
`RestoredFile` and `Unrestorable` are `rgit-restore.sh`. History: `mirror` and
`of` (what a run or commit copied), `strayed` (a run went on from another commit
than the host's last).

`CatchesUp` has two exceptions besides the files that shrank: `strayed`, and
`Stranded`, a repository without its remote. `UpToDate` excuses a file that
shrank only while it is in the installation, small, and missing on the host.

## Runs

Every run that passes explores its whole state space. Every property was also
run against a mutation of the code (`PROJECT.json`, `mutants`) that violates it.

| run | configuration | shows |
|---|---|---|
| project_faults | 2 requests, 2 namespaces, 1 path, all faults | paths are not reused, repositories are in place, no namespace with projects is deleted, none is left without a project |
| accounts | 2 users, 1 group, 2 levels, one change of flag or state a request, 2 requests | an active administrator remains, groups are owned, memberships and projects refer to rows |
| git_slots_stop | 3 connections, 1 slot, 1 SSH session | permits balance, no starvation, the stop's wake-up is not lost, a stop in time cuts nothing off, every stop ends |
| head | 3 branches, 1 tag name, 2 requests, deletions, updates, archiving, faults | HEAD and the browsed branch exist when all is quiet |
| lfs_crashes | 2 objects, 2 requests, 2 row ids, 3 uploads a process, kills | downloadable objects are there and whole |
| keys | 1 user, 2 keys, 2 requests, faults | the file is complete when all is done, working keys keep working, an added key is served |
| throttle | 3 attempts, 2 names, 1 address, a map of 2 keys | counts exceed the limit by the attempts in flight at most, every lockout ends |
| sessions | 2 requests, 2 user ids, 2 credentials, 3 passwords | sessions are current, credentials stay their person's, tokens are revoked by requests of their owner's id, expired rows go |
| members | 2 users, 2 requests, levels 10, 40, 50 | all ways to read agree, who pushes can fetch, levels are changed from above |
| migration | some hundreds of instances (`AllSites`), 1 or 2 runs | the promise, access and root paths are kept; a clean GitLab is migrated in the end |
| backup | 2 files, 3 contents (two small, one large), 2 changes, 3 faults | a restore gives one run's mirror, the host catches up but for the named ends |
| backup_shrinks | as backup, 1 change, no fault | *violation*, see below |

**Bounds.** Two requests are enough for a stale read, an overtaking write and a
lost update; three let a third queue behind another (`git_slots_stop`) and
attempts pile up beyond the limit (`throttle`). One path suffices since paths
of a namespace only meet when they are equal; two namespaces are needed for
transfers. `MaxDisk = 3` admits a reuse after two creations. `MaxId` and
`MaxSeq` in `LfsStore` admit a fork, the reuse of a row id and of a sequence
number after a restart; `MaxId = 2` in `AuthorizedKeys` admits a delete
that meets another row under the id it names. One user is enough there, since
keys of two users differ only in whose state hides them; the proofs are for all. Three branches are master, main and one
that is neither; the tag has the name of that one, since master and main are
asked for by name besides (`Probe`); the proofs are for any tags. `Imported` is empty in `project_faults`; that clean-ups leave
imported repositories alone is part of theorem `RepositoriesAreKept`.
In `throttle` the code's numbers are scaled down: `IpFactor` is 2 for the code's
5, the map holds 2 keys for 10 000, a lockout lasts 2 ticks; 2 keys of 3 force
evictions. In `sessions` two ids are the seeded administrator, whom nothing
deletes, and one that is created, deleted and given again; `MaxHash = 3` lets a
password change or its user be replaced twice. In `members` 10 is the least level that reads, 40 the
least that administers, 50 the owner's. In `migration` a path has at most
`MaxPath = 4` words for the code's 255 bytes, so that long ones are shortened, and a live GitLab
writes `MaxPushes = 3` times; a behaviour has one kill or I/O error (`faults`
of a site). In `backup` three faults leave something behind, disturb its
repair, and disturb once more; two changes grow a file and shrink it; one file
beside the database is copied by `cp` there, any number in the proofs. Bounds
on counters are guards of the actions that count. Symmetry is used in runs
without liveness only.

**Deadlock** is checked except in `git_slots_stop`, in which the system stops for
good, and in `migration`, whose runs end.

**Fairness.** tokio runs every future that is ready, git children end or are
killed by their timeout, and a service that died is started again: weak
fairness of the steps of a request and of `Restart`. The semaphore and tokio's
mutex serve waiters in order, which `GitSlots` models as a queue and
`AuthorizedKeys` as strong fairness of `Lock`. Nothing is assumed of clients:
`StopCompletes` holds although they may never read a response, by the timer of
`main`. The timeout of the queue is not assumed, so `NoStarvation` says that
requests are served, not that they give up. `LoginThrottle` assumes the clock
only, `Sessions` the two purges of the maintenance loop. A run of the migration
proceeds by itself and the operator starts a failed one again; the timer starts
backups and a started one goes on, and faults are finite in number.

## What the code does differently

Four of these are findings: the code does not do what a document or a comment
of the repository says. The first has a run that violates the statement; the
others show in what the properties of passing runs say.

- `backup_shrinks`: the design says that the script saves `bin/`, `conf/` and
  `data/` (`docs/DESIGN.md:457`). `split_large_files` writes the name of a large
  file to `.git/info/exclude` and nothing takes it out again. When the file is
  small at the next run, for instance the database after its VACUUM, `git add -A`
  leaves it out and removes its chunks: the run succeeds and the backup has no
  such file. `RestoreGivesMirror` and `CatchesUp` name this exception (`Shrunk`).
- `HeadBorn` needs the exception `Misnamed`: a push is to "move HEAD to an
  actual branch" (`repo.rs:215`). Beside a tag dev, `%(refname:short)` of branch
  dev is `heads/dev`, and HEAD becomes `refs/heads/heads/dev`: one push of branch dev
  and tag dev to a new repository, without master or main, leaves HEAD unborn,
  and later pushes repeat it.
- `SessionsAreCurrent` holds of every session: `change_password` "invalidates all
  other sessions" (`user.rs:61-62`); it deletes the session it was called with,
  too.
- `ListMatchesAccess` holds of LFS credentials: such a credential can call
  neither the API nor git over HTTP (`docs/DESIGN.md:324-325`); git over HTTP refuses it, `api_guard` lets it on
  (`middleware/auth.rs:321-341`), so it reads the pages its user may read.

Seen while modelling, and built into the models or their exceptions:

- Two deletes of one project, and a create between them that is given the freed
  row id: the second deletes the new project's row (`astray`).
- In a migrated database the allocator forgets the highest imported disk id
  when its project is deleted first; hence the assumption `Imported = {}` of three
  theorems.
- git children of SSH sessions are not counted by the "global" limit of the
  server's semaphore.
- Two concurrent requests may leave the row at a branch HEAD no longer names,
  and two pushes that delete branches may leave HEAD unborn until the next push
  (`torn`), since the chosen branch may be deleted before `symbolic-ref` runs.
- A login that read the user before a password change or a block inserts its
  session after it, and that session survives (`since` in `Sessions`).
- A level read before another request promotes the target is compared stale
  (`moved` in `Members`).
- A backup that could not clone goes on in a new repository; if it is cut off,
  every later checkout may refuse to overwrite what it left (`strayed`).
- A backup that ends between `git init` and `git remote add`
  (`rgit-backup.sh:51-52`) leaves a repository in which every later run ends at
  `git remote set-url` (`:40`), until the operator removes it (`Stranded`).
- A request under way while its user's id is given to another person may revoke
  that person's token (`TokensRevokedByOwner`).
- `update` does not look at `archived`; objects without a link are never
  removed from the LFS store.

## Theorems

| module | theorem | states |
|---|---|---|
| `ProjectStoreProofs` | `StoreTyped`, `RepositoriesAreKept`, `NoProjectIsStranded` | types; no clean-up destroys a project's repository; no namespace with projects is deleted |
| `ProjectStoreProofs` | `DiskIdsAreNeverReused`, `RepositoriesStayInPlace`, `NoRepositoryIsOrphaned` | for installations that started empty |
| `AccountsProofs` | `AccountsTyped`, `AdminAlwaysRemains`, `GroupsStayOwned`, `ReferencesStay` | the four invariants of `Accounts` |
| `GitProofs` | `SlotsTyped`, `PermitsAlwaysBalance`, `StopIsGraceful`, `WakeUpAlwaysKept` | the four invariants of `GitSlots` |
| `GitProofs` | `HeadTyped`, `HeadIsBorn`, `BrowsedIsBorn` | the three invariants of `HeadBranch` |
| `SignInProofs` | `ThrottleTyped`, `GuessesAreBounded`, `MapIsBounded` | the counter of guesses and the size of the map are bounded |
| `SignInProofs` | `SessionsTyped`, `SessionsStayCurrent`, `CredentialsStayPersonal`, `OwnersRevoke` | the three safety properties of `Sessions` |
| `MembersProofs` | `MembersTyped`, `ListsMatchAccess`, `PushersFetch`, `LevelsAreChangedFromAbove` | the three properties of `Members` |
| `AuthorizedKeysProofs` | `KeysTyped`, `FileComplete`, `WorkingKeysStay` | the three safety properties of `AuthorizedKeys` |
| `LfsStoreProofs` | `LfsTyped`, `DownloadsAreWhole`, `ObjectsAreWhole`, `UploadsKeepApart` | the four invariants of `LfsStore` |
| `OfflineProofs` | `MigrationTyped`, `MigrationKeepsItsPromise` | types; the refinement of `MigrationPromise` |
| `OfflineProofs` | `AccessIsPreserved`, `RootPathsAreKept` | nested groups flattened, everybody keeps the level GitLab gave; every root namespace keeps its path, and no path is given twice |
| `OfflineProofs` | `NothingIsOverwritten`, `PublishedRowsAreGitlabs` | a destination in use is left alone; the published rows are those of GitLab's tables |
| `OfflineProofs` | `BackupsTyped`, `HostRestoresOneMirror` | types; what the host has restores to what one run copied |

They hold for all values of the constants that satisfy the named assumptions of
the modules; none bounds the number of requests, users, projects or branches.
Some state what no run checks, since the theorem is stronger than a run: the
types of `ProjectStore`, `Accounts`, `LoginThrottle`, `Sessions` and `Members`,
`RepoKept`, `ProjectsKeepNamespace`, `MapBounded` and `OwnPart`.

*ProjectStore.* `RepoKept` is not inductive: a clean-up removes the directory of
the disk id in the request's record, so one must know that this id has no row.
`StoreInv` adds `Reserved`: between its reservation and its row an id is in
`allocated`, is no row's, and is in no other request's record. It holds because
`Reserve` takes an id above everything in both tables, and rows are inserted
only with reserved ids. For `NeverReused` and `RepoInPlace` the allocations must
also cover all rows and all deleted ids (`Ledger`), which is false in a migrated
database, hence the assumption `Imported = {}`; and the
row id and disk id in a delete's record must still belong together (`Paired`).
`NoOrphanRepo` needs `Cleared` besides: once a delete has moved its repository
away, nothing is at that disk id any more unless a fault is on record, and a
creation that is about to insert its row is the only one that may own a
directory without one.

*Accounts.* The invariants are inductive together with the shape of request
records; the point is that the write actions preserve them with the pre-check's
result ignored: triggers and foreign keys alone carry them.

*GitSlots.* Permits balance because nobody holds one twice or queues twice:
`Slotted` says that the free permits and the tasks that hold one add up to
`Slots`, that the queue has every queued connection exactly once, and that it is
empty while a permit is free. A permit given back to a queue changes hands
without being counted. `StopInv` is what main has seen so far: the counter is
the number of tracked tasks, handlers run only on open connections, and within
the grace period none of them is left when main goes on; a `wait_idle` that
sleeps unwoken has seen an operation, or one that ends has yet to notify it.

*HeadBranch.* `HeadIsBorn` states `HeadBorn` with its two exceptions (`torn`,
`Misnamed`); without the second it would be false. It speaks of quiet moments. `HeadInv` says who owes the
correction until then (`Owes`): a push that has yet to look at HEAD, or saw this
HEAD missing and goes on to look for another branch, or is about to set one. A
push that deletes a branch, or brings the first one, owes itself; a push that
looked earlier and saw another HEAD owes nothing, and need not, since the one
that took it away does. The record is owed by any push at work (`RecordOwed`).
Where nobody owes, `torn` is still set, and no push counts as mending.

*LfsStore.* `LfsInv` adds that the numbers of running uploads are below the next
one (`Numbered`), so that fragments stay apart although the object ids are
equal; that a request about to insert has its file in place (`Placed`); that
every row has its file (`RowsAreStored`); and that no request survives the
process (`Stopped`), without which a restart would take fragments away under a
running upload and give their numbers again.

*LoginThrottle.* The count of a key may not be compared with its limit alone:
attempts that passed the check will add to it. `Charges` bounds the count
together with the attempts that may still count (`Pending`), each of which joined
while the count was below the limit. `SmallMap` needs that an entry out of the
map counts nothing (`ForgottenIsZero`).

*Sessions.* `SessInv` says what a credential is worth relative to the user's row
as it is now (`Good`), so that each statement that writes users is weighed
against all credentials; the history `since` carries the exception of logins
under way, and `Known` that a request knows whom it has found.

*Members.* That the ways to read agree needs no induction beyond types: a user
has a level exactly when a join of the list finds a row (`LevelIffJoined`), and
the least level is what reading asks for. `LevelsAreChangedFromAbove` needs
`Cleared`: a request about to write has seen nothing above its caller's level,
and the row is still the one it saw. Replacing levels up to a bound by others up
to it moves a maximum only below the bound (`TopMovesBelow`), so what groups
give on top is untouched.

*AuthorizedKeys.* What the file holds means little while requests are on their
way: it may lack a key just added. `Agrees` compares lines with the rows but for
users changed since the lines were read and for the keys of requests that still
owe a rebuild. `FileAgrees` says so of the file, where every unfinished request
may owe; `BodyAgrees` of what a rebuild is about to write, where only those owe
that have not read yet. The second gives the first when the file is replaced,
because `SYNC_LOCK` leaves no other rebuild between reading and writing
(`Exclusive`). When no request is left nobody owes.

*Migration.* `MigrationInv` follows one run. From preflight on it holds the
tables of its GitLab, from its transaction on their rows (`HoldsTables`); every
project that is not to be copied any more has been copied whole, with refs it
really had, unless an error is in the report (`HoldsCopies`); and a run with an
error never gets to publish. Other runs, kills and pushes only change what is
theirs (`RestKeeps`) or let `seen` grow. So what is renamed is whole, which
makes `MigrationPromise` the abstract step (`PublishedIsWhole`), and every
other step leaves the destination alone or is a step of its surroundings
(`DestinationMoves`). `SiteAssumption` says that an instance has a place for
the repository of every project and rows that GitLab's schema allows
(`GitlabSchema`: primary keys, one root namespace to a path, personal namespaces
without a parent, group memberships of groups); the type theorem has the
hypothesis `NullIsNoRecord`.

*Tables of the migration.* `PublishedRowsAreGitlabs` reduces access and paths to
what the reads and the transaction compute, for any number of groups nested to
any depth. `Chain` climbs to the ancestors: every chain leads from parent to
child (`ClimbRises`), one that has taken as many steps as there are rows visits
an id twice, so one that is not rejected has ended at a root (`ChainEnds`) and
its ids are those that GitLab's rule reaches (`ChainIsAbove`). The loop of
`flatten_namespaces` keeps `Flattened`: each finished namespace has one row, no
path is given twice, and no nested namespace is done before every root is, so
that a root finds its path free. The levels: the largest of all that a user has
is the largest of the rows' (`TopOfTops`), the rows keeping the largest of the
project's own, the largest of the groups above, and the owner's (`SameLevel`).
`Chain` and `FlattenNamespaces` are recursive functions over a number of steps.
What they compute is shown by induction over that number; the rule
(`Induction`) is proved in the form "a set with 0 and all successors has every
number", from the least number of a set (`WFMin`), and needs no operator as a
parameter.

*Backup.* A commit is `Sound` if its files are made of the installation's,
none is too large, and it `Restores` to the mirror it was made of. Sound commits
are all that git, the host and later runs pass on, whatever command a run ended
at. That a new one is sound is `RunInv`: during the copy each file of the
worktree is blank or stands as in the mirror, after it all do, `split_large_files` leaves it whole or cut up,
and the index is filled from such a worktree only (`AddedFiles`), even where
excludes of an earlier run hide a file.

Only model-checked: liveness (`AddedKeyServed`, `CatchesUp`, `NoStarvation`,
`StopCompletes`, `LockoutEnds`, `CleanSitePublishes` and `ExpiredRowsGo`), which is
out of the prover's reach.

## Not modelled, and why

- The contents of repositories, packets, JSON and HTML: no property here
  depends on them; git is external and modelled by its effect on refs.
- Branches and tags whose own names begin with `heads/`.
- Power loss: kills are modelled, but not what a file system forgets.
- Configuration, routing, static files, deployment, the web client: no state
  that survives a request.
- Names, descriptions and visibility of projects; parsing of keys, commands and
  paths: they decide whether a request is accepted, which the models leave open.
- In `Members` the project's row id stays; its reuse is in `ProjectStore`. In
  `Sessions` what a token's scopes allow is left to `Gates`.
- In `Migration` a warning or a count of the report; wiki and design
  repositories are whole or damaged as one. Names are short words, so a root
  namespace that is named like a shortened path (`team--platform--11`) and makes the run
  end with an error does not occur.
- In `Backup` empty directories, a kill inside a git command, markers of older
  scripts, files whose names end like chunks, and the refusal of the restore
  when a database is in its way.

## Plan

Done: the project store, accounts, git slots and stop, default branch, LFS
store, SSH keys, login throttle, sessions and credentials, authorization and
members, migration with its abstract promise, backup and restore; the proofs
listed under Theorems.

Left, in this order:

1. An abstract project registry (a project exists with its repository or not at
   all) that `ProjectStore` without faults implements.
2. rgit-shell's command whitelist and paths, against the router's.
