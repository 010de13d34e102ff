---------------------------- MODULE ProjectStore ----------------------------
(***************************************************************************)
(* Projects of rgit: the rows of the projects table, the allocator of disk *)
(* ids, the bare repository directories, and the requests that change all  *)
(* three: create, fork, auto-create on push, delete, transfer, and the     *)
(* creation and deletion of namespaces.                                    *)
(*                                                                         *)
(* A request is a chain of steps.  Between two steps any other request may *)
(* run (every step boundary is an await or a system call in the code), so  *)
(* what a request read earlier may be stale when it is used.  SQLite's     *)
(* statements and transactions are atomic; its UNIQUE and FOREIGN KEY      *)
(* constraints are the guards of Insert, TransferCommit and NsRemove.      *)
(***************************************************************************)
EXTENDS Naturals

CONSTANTS
  Handler,    \* concurrently running requests
  Namespace,  \* namespace rows that may exist (user namespaces and groups)
  Path,       \* project paths
  None,       \* "no namespace", "no path"
  Imported,   \* project rows the database holds when the service starts
  Faults,     \* which faults may happen, a subset of FaultKind
  MaxDisk     \* bound: disk ids are allocated up to this value

\* busy:   a database write times out, or no git slot is free in time
\* io:     a git child, a rename or a recursive removal fails
\* cancel: a request is dropped at a step boundary (disconnect or crash)
FaultKind == {"busy", "io", "cancel"}

VARIABLES
  projects,   \* table projects: a set of rows
  allocated,  \* table project_disk_id_allocations
  namespaces, \* table namespaces
  dirs,       \* disk ids whose repository directory is at its hashed path
  trash,      \* disk ids with a directory renamed to <hash>.deleted.<ts>
  req,        \* the local state of each request
  retired,    \* history: disk ids of rows that were deleted
  torn,       \* history: ids moved to trash by a delete that did not finish
  left,       \* history: ids whose directory a fault may have left behind
  astray      \* history: ids of rows deleted by a request for another row

db   == <<projects, allocated, namespaces>>
disk == <<dirs, trash>>
hist == <<retired, torn, astray, left>>
vars == <<projects, allocated, namespaces, dirs, trash, req, retired, torn, astray,
          left>>

DiskId == 1..MaxDisk
RowId  == 1..(2 * MaxDisk)

Row == [id : RowId, ns : Namespace, path : Path, disk : DiskId]

Pc == {"idle", "mkns", "find", "reserve", "slot", "init", "insert", "check",
       "gone", "move", "purge", "transfer", "rmns"}

Request == [op    : {"none", "create", "fork", "push", "delete", "transfer", "rmns"},
            pc    : Pc,
            ns    : Namespace \cup {None},
            path  : Path \cup {None},
            id    : RowId \cup {0},        \* the row the request located or inserted
            disk  : DiskId \cup {0},       \* the disk id it works on
            from  : DiskId \cup {0},       \* fork: disk id of the source
            moved : DiskId \cup {0}]       \* delete: the directory it renamed, 0 if none

Idle == [op |-> "none", pc |-> "idle", ns |-> None, path |-> None,
         id |-> 0, disk |-> 0, from |-> 0, moved |-> 0]

ASSUME ConstantsAssumption ==
  /\ MaxDisk \in Nat
  /\ None \notin Namespace \cup Path
  /\ Faults \subseteq FaultKind
  /\ Imported \subseteq Row
  /\ \A r, s \in Imported : r # s =>
       r.id # s.id /\ r.disk # s.disk /\ <<r.ns, r.path>> # <<s.ns, s.path>>

RowDisks == {r.disk : r \in projects}

\* COALESCE(MAX(id), 0) + 1, also the rowid SQLite gives to a new row of a
\* table whose key is not AUTOINCREMENT.
IsNext(n, S) == /\ \A x \in S : x < n
                /\ n = 1 \/ n - 1 \in S

\* A recorded import has its rows, its repositories and its namespaces, and
\* no allocation rows: neither the migration that adds the allocation table
\* nor rgit-migrate inserts any.
Init ==
  /\ projects = Imported
  /\ allocated = {}
  /\ namespaces = {r.ns : r \in Imported}
  /\ dirs = {r.disk : r \in Imported}
  /\ trash = {}
  /\ req = [h \in Handler |-> Idle]
  /\ retired = {} /\ torn = {} /\ astray = {} /\ left = {}

At(h, p)   == req[h].pc = p
Goto(h, p) == req' = [req EXCEPT ![h].pc = p]
Finish(h)  == req' = [req EXCEPT ![h] = Idle]

-----------------------------------------------------------------------------
(* Requests start: they read what they need and check permissions.          *)

\* projects::create, up to the writable namespace.
Create(h, ns, p) ==
  /\ At(h, "idle") /\ ns \in namespaces
  /\ req' = [req EXCEPT ![h] = [Idle EXCEPT !.op = "create", !.pc = "reserve",
                                            !.ns = ns, !.path = p]]
  /\ UNCHANGED <<db, disk, hist>>

\* projects::fork, up to the validated target path.
Fork(h, source, ns, p) ==
  /\ At(h, "idle") /\ ns \in namespaces
  /\ req' = [req EXCEPT ![h] = [Idle EXCEPT !.op = "fork", !.pc = "reserve",
                                            !.ns = ns, !.path = p,
                                            !.id = source.id, !.from = source.disk]]
  /\ UNCHANGED <<db, disk, hist>>

\* ensure_project_for_push: the namespace lookup decides the next step.
Push(h, ns, p) ==
  /\ At(h, "idle")
  /\ req' = [req EXCEPT ![h] = [Idle EXCEPT !.op = "push",
                                  !.pc = IF ns \in namespaces THEN "find" ELSE "mkns",
                                  !.ns = ns, !.path = p]]
  /\ UNCHANGED <<db, disk, hist>>

\* projects::delete, up to the paths it is going to rename.
Delete(h, r) ==
  /\ At(h, "idle")
  /\ req' = [req EXCEPT ![h] = [Idle EXCEPT !.op = "delete", !.pc = "move",
                                            !.id = r.id, !.disk = r.disk]]
  /\ UNCHANGED <<db, disk, hist>>

\* projects::transfer, up to the checks on the target namespace.
Transfer(h, r, ns) ==
  /\ At(h, "idle") /\ ns \in namespaces
  /\ req' = [req EXCEPT ![h] = [Idle EXCEPT !.op = "transfer", !.pc = "transfer",
                                            !.id = r.id, !.ns = ns]]
  /\ UNCHANGED <<db, disk, hist>>

EvenIfUsed(ns) == TRUE  \* mutant: projects.namespace_id does not restrict

\* No project in the namespace: a count, or ON DELETE RESTRICT.
Unused(ns) == \A r \in projects : r.ns # ns

\* groups::delete and admin::delete_user: the namespace was seen to be empty.
NsDelete(h, ns) ==
  /\ At(h, "idle") /\ ns \in namespaces /\ Unused(ns)
  /\ req' = [req EXCEPT ![h] = [Idle EXCEPT !.op = "rmns", !.pc = "rmns", !.ns = ns]]
  /\ UNCHANGED <<db, disk, hist>>

\* groups::create and admin::create_user: one transaction.
NsCreate(ns) ==
  /\ ns \notin namespaces
  /\ namespaces' = namespaces \cup {ns}
  /\ UNCHANGED <<projects, allocated, disk, req, hist>>

-----------------------------------------------------------------------------
(* Auto-create on push.                                                     *)

\* ensure_writable_namespace: insert the missing group, or lose the race.
MakeNs(h) ==
  /\ At(h, "mkns")
  /\ \/ /\ req[h].ns \notin namespaces
        /\ namespaces' = namespaces \cup {req[h].ns}
        /\ Goto(h, "find")
     \/ /\ req[h].ns \in namespaces \/ "busy" \in Faults
        /\ UNCHANGED namespaces
        /\ Finish(h)
  /\ UNCHANGED <<projects, allocated, disk, hist>>

\* find_project: an existing project is returned to the push as it is.
Find(h) ==
  /\ At(h, "find")
  /\ IF \E r \in projects : r.ns = req[h].ns /\ r.path = req[h].path
     THEN Finish(h)
     ELSE Goto(h, "reserve")
  /\ UNCHANGED <<db, disk, hist>>

-----------------------------------------------------------------------------
(* The steps create, fork and push share.                                   *)

NextFree(d) == IsNext(d, RowDisks)    \* mutant: allocations are not consulted

\* allocate_disk_id: the next id after every row and every allocation.
NextDisk(d) == IsNext(d, RowDisks \cup allocated)

\* reserve_disk_id: a transaction of its own, committed before the repository
\* exists.  Auto-create runs under its caller's git slot.
Reserve(h) ==
  /\ At(h, "reserve")
  /\ \/ \E d \in DiskId :
          /\ NextDisk(d)
          /\ allocated' = allocated \cup {d}
          /\ req' = [req EXCEPT ![h].disk = d,
                                ![h].pc = IF req[h].op = "push" THEN "init" ELSE "slot"]
     \/ /\ "busy" \in Faults \/ \A d \in DiskId : ~NextDisk(d)
        /\ UNCHANGED allocated
        /\ Finish(h)
  /\ UNCHANGED <<projects, namespaces, disk, hist>>

\* begin_git_operation; on Busy the request ends and the id stays allocated.
Slot(h) ==
  /\ At(h, "slot")
  /\ \/ Goto(h, "init")
     \/ "busy" \in Faults /\ Finish(h)
  /\ UNCHANGED <<db, disk, hist>>

NoCleanUp(d) == UNCHANGED <<disk, left>>  \* mutant: the new repository is forgotten

\* remove_new_repo / cleanup_new_repo: a failing removal is only logged.
CleanUp(d) ==
  /\ \/ dirs' = dirs \ {d} /\ UNCHANGED left
     \/ "io" \in Faults /\ left' = left \cup {d} /\ UNCHANGED dirs
  /\ UNCHANGED trash

\* init_bare (create, push) or fork_local (fork).  Both refuse a path that
\* exists; on any error the caller removes the path.
InitRepo(h) ==
  LET d == req[h].disk IN
  /\ At(h, "init")
  /\ \/ /\ d \notin dirs
        /\ req[h].op = "fork" => req[h].from \in dirs
        /\ dirs' = dirs \cup {d}
        /\ Goto(h, "insert")
        /\ UNCHANGED <<trash, left>>
     \/ /\ \/ d \in dirs
           \/ req[h].op = "fork" /\ req[h].from \notin dirs
           \/ "io" \in Faults
        /\ CleanUp(d)
        /\ Finish(h)
  /\ UNCHANGED <<db, retired, torn, astray>>

\* UNIQUE(namespace_id, path), UNIQUE(disk_id) and the foreign keys.
CanInsert(q) ==
  /\ q.ns \in namespaces
  /\ q.disk \notin RowDisks
  /\ \A r \in projects : <<r.ns, r.path>> # <<q.ns, q.path>>
  /\ q.op = "fork" => \E r \in projects : r.id = q.id

\* INSERT INTO projects; for a fork the whole transaction.  A refused insert
\* removes the new repository.
Insert(h) ==
  LET q == req[h] IN
  /\ At(h, "insert")
  /\ \/ \E n \in RowId :
          /\ CanInsert(q)
          /\ IsNext(n, {r.id : r \in projects})
          /\ projects' = projects \cup
               {[id |-> n, ns |-> q.ns, path |-> q.path, disk |-> q.disk]}
          /\ IF q.op = "create"
             THEN req' = [req EXCEPT ![h].pc = "check", ![h].id = n]
             ELSE Finish(h)
          /\ UNCHANGED <<disk, left>>
     \/ /\ ~CanInsert(q) \/ "busy" \in Faults
        /\ CleanUp(q.disk)
        /\ Finish(h)
        /\ UNCHANGED projects
  /\ UNCHANGED <<allocated, namespaces, retired, torn, astray>>

\* DELETE FROM projects WHERE id = ?: by row id, whoever holds that id now.
DeleteRow(h) ==
  LET gone == {r \in projects : r.id = req[h].id} IN
  /\ projects' = projects \ gone
  /\ retired' = retired \cup {r.disk : r \in gone}
  /\ astray' = astray \cup ({r.disk : r \in gone} \ {req[h].disk})

\* create, after the insert: the directory must still be there, else what may be
\* left of it is removed.
CheckRepo(h) ==
  LET d == req[h].disk IN
  /\ At(h, "check")
  /\ IF d \in dirs THEN Finish(h) /\ UNCHANGED dirs ELSE Goto(h, "gone") /\ dirs' = dirs \ {d}
  /\ UNCHANGED <<db, trash, hist>>

\* create, the directory vanished: take the row back.
UndoInsert(h) ==
  /\ At(h, "gone")
  /\ \/ DeleteRow(h)
     \/ "busy" \in Faults /\ UNCHANGED <<projects, retired, astray>>
  /\ Finish(h)
  /\ UNCHANGED <<allocated, namespaces, disk, torn, left>>

-----------------------------------------------------------------------------
(* Delete: rename first, then the row.                                      *)

\* soft_delete of the repository, if it exists.
MoveToTrash(h) ==
  LET d == req[h].disk IN
  /\ At(h, "move")
  /\ \/ /\ dirs' = dirs \ {d}
        /\ trash' = IF d \in dirs THEN trash \cup {d} ELSE trash
        /\ left' = left \ {d}
        /\ req' = [req EXCEPT ![h].pc = "purge", ![h].moved = IF d \in dirs THEN d ELSE 0]
     \/ /\ "io" \in Faults
        /\ Finish(h)
        /\ UNCHANGED <<disk, left>>
  /\ UNCHANGED <<db, retired, torn, astray>>

NoRestore(h) == UNCHANGED <<disk, torn, left>>  \* mutant: a failed delete restores nothing

\* restore_soft_deleted: rename back; a failing rename is only logged.
Restore(h) ==
  LET d == req[h].disk IN
  \/ /\ req[h].moved # 0 /\ d \notin dirs
     /\ dirs' = dirs \cup {d}
     /\ trash' = trash \ {d}
     /\ left' = left \cup {d}
     /\ UNCHANGED torn
  \/ /\ req[h].moved # 0 /\ (d \in dirs \/ "io" \in Faults)
     /\ torn' = torn \cup {d}
     /\ UNCHANGED <<disk, left>>
  \/ /\ req[h].moved = 0
     /\ UNCHANGED <<disk, torn, left>>

\* DELETE and COMMIT; on a failure (also of the wiki and design renames,
\* which precede the DELETE) the directories are renamed back.
Purge(h) ==
  /\ At(h, "purge")
  /\ \/ DeleteRow(h) /\ UNCHANGED <<disk, torn, left>>
     \/ /\ Faults \cap {"busy", "io"} # {}
        /\ Restore(h)
        /\ UNCHANGED <<projects, retired, astray>>
  /\ Finish(h)
  /\ UNCHANGED <<allocated, namespaces>>

-----------------------------------------------------------------------------

\* UPDATE projects SET namespace_id WHERE id, by row id.
TransferCommit(h) ==
  LET q == req[h] IN
  /\ At(h, "transfer")
  /\ \/ \E r \in projects :
          /\ r.id = q.id
          /\ q.ns \in namespaces
          /\ \A s \in projects \ {r} : <<s.ns, s.path>> # <<q.ns, r.path>>
          /\ projects' = (projects \ {r}) \cup {[r EXCEPT !.ns = q.ns]}
     \/ /\ \/ "busy" \in Faults
           \/ q.ns \notin namespaces
           \/ \A r \in projects : r.id = q.id =>
                \E s \in projects \ {r} : <<s.ns, s.path>> = <<q.ns, r.path>>
        /\ UNCHANGED projects
  /\ Finish(h)
  /\ UNCHANGED <<allocated, namespaces, disk, hist>>

\* DELETE FROM namespaces: projects.namespace_id restricts it.
NsRemove(h) ==
  /\ At(h, "rmns")
  /\ \/ /\ Unused(req[h].ns)
        /\ namespaces' = namespaces \ {req[h].ns}
     \/ /\ ~Unused(req[h].ns) \/ "busy" \in Faults
        /\ UNCHANGED namespaces
  /\ Finish(h)
  /\ UNCHANGED <<projects, allocated, disk, hist>>

\* The request's future is dropped: its transaction rolls back, nothing on
\* disk is undone.
Cancel(h) ==
  /\ "cancel" \in Faults /\ ~At(h, "idle")
  /\ torn' = IF req[h].moved # 0 THEN torn \cup {req[h].disk} ELSE torn
  /\ left' = IF At(h, "insert") THEN left \cup {req[h].disk} ELSE left
  /\ Finish(h)
  /\ UNCHANGED <<db, disk, retired, astray>>

Step(h) ==
  \/ MakeNs(h) \/ Find(h) \/ Reserve(h) \/ Slot(h) \/ InitRepo(h) \/ Insert(h)
  \/ CheckRepo(h) \/ UndoInsert(h) \/ MoveToTrash(h) \/ Purge(h)
  \/ TransferCommit(h) \/ NsRemove(h) \/ Cancel(h)

Start(h) ==
  \/ \E ns \in Namespace, p \in Path : Create(h, ns, p) \/ Push(h, ns, p)
  \/ \E r \in projects, ns \in Namespace, p \in Path : Fork(h, r, ns, p)
  \/ \E r \in projects : Delete(h, r)
  \/ \E r \in projects, ns \in Namespace : Transfer(h, r, ns)
  \/ \E ns \in Namespace : NsDelete(h, ns)

Next == \/ \E h \in Handler : Start(h) \/ Step(h)
        \/ \E ns \in Namespace : NsCreate(ns)

Spec == Init /\ [][Next]_vars

-----------------------------------------------------------------------------
(* Properties.                                                              *)

TypeOK ==
  /\ projects \subseteq Row
  /\ allocated \subseteq DiskId
  /\ namespaces \subseteq Namespace
  /\ dirs \subseteq DiskId
  /\ trash \subseteq DiskId
  /\ req \in [Handler -> Request]
  /\ retired \subseteq DiskId
  /\ torn \subseteq DiskId
  /\ astray \subseteq DiskId
  /\ left \subseteq DiskId

\* The hashed storage path of a deleted project is never given to another
\* project (the allocator keeps its allocations after a deletion).
NeverReused == retired \cap RowDisks = {}

\* No request ever removes the repository of a project that has a row: the
\* clean-up after a failed create, fork or push only hits its own directory.
RepoKept == RowDisks \subseteq dirs \cup trash

\* A project's repository is at its hashed path, unless a delete of it is
\* between its rename and its commit, or such a delete did not finish.
RepoInPlace ==
  \A d \in RowDisks :
    \/ d \in dirs \cup torn
    \/ \E h \in Handler : At(h, "purge") /\ req[h].moved = d

\* A namespace with projects is never deleted, although the count of its
\* projects and its deletion are separate statements.
NoStrandedProject == \A r \in projects : r.ns \in namespaces

\* No repository directory outlives its request unowned: losers of a create
\* race, failed requests and deletes leave nothing behind at a hashed path,
\* unless a removal failed, the request was dropped or a delete was undone, or
\* a delete by a stale row id took somebody else's row.
NoOrphanRepo ==
  dirs \subseteq RowDisks \cup astray \cup left
                   \cup {req[h].disk : h \in {g \in Handler : At(g, "insert")}}
=============================================================================
