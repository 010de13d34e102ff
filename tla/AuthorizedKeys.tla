--------------------------- MODULE AuthorizedKeys ---------------------------
(***************************************************************************)
(* The SSH keys twice: as rows of ssh_keys, and as the authorized_keys     *)
(* file sshd reads.  Adding or deleting a key commits the row and then     *)
(* rebuilds the file from the keys of active users, one rebuild at a time; *)
(* so does the start of the server.  Blocking, unblocking and deleting a   *)
(* user changes rows and leaves the file to the next rebuild.              *)
(***************************************************************************)
EXTENDS Naturals

CONSTANTS
  User,    \* users
  Key,     \* public keys, by fingerprint
  Req,     \* requests that can be in progress at once
  None,    \* no request
  MaxId,   \* bound: the largest row id
  Admin,   \* users are blocked, unblocked and deleted
  Faults   \* handlers are dropped, the file cannot be written, the server dies

ASSUME IdAssumption == MaxId \in Nat \ {0}
ASSUME FlagAssumption == {Admin, Faults} \subseteq BOOLEAN
ASSUME NoneAssumption == None \notin Req
ASSUME SomeAssumption == User # {} /\ Key # {}

VARIABLES
  rows,     \* ssh_keys
  active,   \* users whose state is active; the others are blocked or gone
  file,     \* the lines of authorized_keys
  lock,     \* the request that holds SYNC_LOCK, or None
  req,      \* requests in progress
  running,  \* the server is up
  drift,    \* history: users changed since the file's snapshot was taken
  torn      \* history: a rebuild failed since the file's snapshot was taken

vars == <<rows, active, file, lock, req, running, drift, torn>>

\* A delete names the id of a row.
Op   == [kind : {"create", "delete"}, user : User, key : Key, id : 1..MaxId]
Row  == [id : 1..MaxId, user : User, key : Key]
Line == [id : 1..MaxId, key : Key]

\* change: the row is to be written   lock: the rebuild waits for its turn
\* read:   the rows are to be read    write: the file is to be replaced
Request == [pc : {"idle", "change", "lock", "read", "write"},
            op : Op,
            lines : SUBSET Line,   \* the body of the new file
            fresh : SUBSET User,   \* history: users changed since it was read
            late : BOOLEAN]        \* history: a rebuild failed since it was read

NoOp == CHOOSE o \in Op : TRUE

Idle == [pc |-> "idle", op |-> NoOp, lines |-> {}, fresh |-> {}, late |-> FALSE]

\* The query of sync.
ActiveLines == {[id |-> k.id, key |-> k.key] : k \in {r \in rows : r.user \in active}}

Init ==
  /\ rows = {} /\ active = User /\ file = {} /\ lock = None
  /\ req = [r \in Req |-> Idle] /\ running = TRUE
  /\ drift = {} /\ torn = FALSE

-----------------------------------------------------------------------------
(* The key handlers.                                                        *)

\* Request r becomes q.
Become(r, q) == req' = [req EXCEPT ![r] = q]

Asked(op) == [Idle EXCEPT !.pc = "change", !.op = op]

\* create has parsed the key and found no other with its fingerprint.
BeginCreate(r) ==
  /\ running /\ req[r] = Idle
  /\ \E u \in active, k \in Key :
       /\ \A row \in rows : row.key # k
       /\ Become(r, Asked([kind |-> "create", user |-> u, key |-> k, id |-> 1]))
  /\ UNCHANGED <<rows, active, file, lock, running, drift, torn>>

BeginDelete(r) ==
  /\ running /\ req[r] = Idle
  /\ \E u \in active, row \in rows :
       /\ row.user = u
       /\ Become(r, Asked([kind |-> "delete", user |-> u, key |-> row.key, id |-> row.id]))
  /\ UNCHANGED <<rows, active, file, lock, running, drift, torn>>

\* The id a row inserted now would get: one above the largest.
NextRowId(id) ==
  /\ \A row \in rows : row.id < id
  /\ id = 1 \/ \E row \in rows : row.id = id - 1

\* mutant: the fingerprint is not unique.
AfterUnchecked(op, id) ==
  IF op.kind = "delete"
  THEN {row \in rows : ~(row.id = op.id /\ row.user = op.user)}
  ELSE rows \cup {[id |-> id, user |-> op.user, key |-> op.key]}

\* What the statement leaves.  fingerprint is UNIQUE, and a row is deleted if
\* it is the caller's, even if it has got its id only after the request came.
After(op, id) ==
  IF op.kind = "delete"
  THEN {row \in rows : ~(row.id = op.id /\ row.user = op.user)}
  ELSE IF \E row \in rows : row.key = op.key
       THEN rows
       ELSE rows \cup {[id |-> id, user |-> op.user, key |-> op.key]}

\* The request is about the key of this row.
Touched(q, row) == [q EXCEPT !.pc = "lock", !.op = [q.op EXCEPT !.key = row.key]]

\* The INSERT or DELETE; without a change the handler ends with an error.
Change(r) ==
  /\ req[r].pc = "change"
  /\ \E id \in 1..MaxId + 1 :
       /\ NextRowId(id)
       /\ rows' = After(req[r].op, id)
       /\ \A row \in rows' : row.id <= MaxId
  /\ \/ rows' = rows /\ Become(r, Idle)
     \/ \E row \in (rows \ rows') \cup (rows' \ rows) : Become(r, Touched(req[r], row))
  /\ UNCHANGED <<active, file, lock, running, drift, torn>>

-----------------------------------------------------------------------------
(* sync.                                                                    *)

\* mutant: nobody waits.
LockFree == TRUE

\* SYNC_LOCK.lock().
LockFreed == lock = None

Lock(r) ==
  /\ req[r].pc = "lock" /\ LockFreed
  /\ lock' = r
  /\ Become(r, [req[r] EXCEPT !.pc = "read"])
  /\ UNCHANGED <<rows, active, file, running, drift, torn>>

Read(r) ==
  /\ req[r].pc = "read"
  /\ Become(r, [req[r] EXCEPT !.pc = "write", !.lines = ActiveLines,
                             !.fresh = {}, !.late = FALSE])
  /\ UNCHANGED <<rows, active, file, lock, running, drift, torn>>

\* atomic_write, and the end of the handler.
Write(r) ==
  /\ req[r].pc = "write"
  /\ file' = req[r].lines
  /\ drift' = req[r].fresh
  /\ torn' = req[r].late
  /\ lock' = None
  /\ Become(r, Idle)
  /\ UNCHANGED <<rows, active, running>>

\* The handler is dropped before its change is committed.
Drop(r) ==
  /\ Faults /\ req[r].pc = "change"
  /\ Become(r, Idle)
  /\ UNCHANGED <<rows, active, file, lock, running, drift, torn>>

\* The handler is dropped while it waits, or the rows cannot be read or the
\* file not written, or not synced once renamed.  The guard of the lock goes
\* with it.
Fail(r) ==
  /\ Faults /\ req[r].pc \in {"lock", "read", "write"}
  /\ torn' = TRUE
  /\ file' = file \/ (req[r].pc = "write" /\ file' = req[r].lines)
  /\ lock' = IF lock = r THEN None ELSE lock
  /\ req' = [q \in Req |->
       IF q = r THEN Idle
       ELSE IF req[q].pc = "write" THEN [req[q] EXCEPT !.late = TRUE] ELSE req[q]]
  /\ UNCHANGED <<rows, active, running, drift>>

-----------------------------------------------------------------------------
(* Users and the server.                                                    *)

\* Requests in progress learn, for the record, whose keys have moved on.
Moved(u) ==
  /\ drift' = drift \cup {u}
  /\ req' = [r \in Req |-> IF req[r].pc = "write"
                            THEN [req[r] EXCEPT !.fresh = @ \cup {u}]
                            ELSE req[r]]

\* update_user blocks or unblocks; no rebuild.
SetState(u) ==
  /\ Admin /\ running
  /\ active' = IF u \in active THEN active \ {u} ELSE active \cup {u}
  /\ Moved(u)
  /\ UNCHANGED <<rows, file, lock, running, torn>>

\* delete_user: the keys go with the row; no rebuild.
DeleteUser(u) ==
  /\ Admin /\ running /\ u \in active
  /\ active' = active \ {u}
  /\ rows' = {row \in rows : row.user # u}
  /\ Moved(u)
  /\ UNCHANGED <<file, lock, running, torn>>

Crash ==
  /\ Faults /\ running
  /\ running' = FALSE /\ lock' = None
  /\ req' = [r \in Req |-> Idle]
  /\ torn' = TRUE
  /\ UNCHANGED <<rows, active, file, drift>>

\* The server syncs before it serves.
Restart ==
  /\ ~running
  /\ running' = TRUE
  /\ file' = ActiveLines /\ drift' = {} /\ torn' = FALSE
  /\ UNCHANGED <<rows, active, lock, req>>

Sync(r) == Change(r) \/ Lock(r) \/ Read(r) \/ Write(r)

Next ==
  \/ \E r \in Req : BeginCreate(r) \/ BeginDelete(r) \/ Sync(r) \/ Drop(r) \/ Fail(r)
  \/ \E u \in User : SetState(u) \/ DeleteUser(u)
  \/ Crash \/ Restart

Spec == Init /\ [][Next]_vars

\* The runtime runs every ready handler, tokio's mutex is fair to those who
\* wait, and a server that died is started again.
FairSpec ==
  /\ Spec
  /\ WF_vars(Restart)
  /\ \A r \in Req : WF_vars(Change(r) \/ Read(r) \/ Write(r)) /\ SF_vars(Lock(r))

-----------------------------------------------------------------------------
(* Properties.                                                              *)

\* Every variable keeps its type, and ids and fingerprints are unique.
TypeOK ==
  /\ rows \subseteq Row /\ active \subseteq User /\ file \subseteq Line
  /\ lock \in Req \cup {None} /\ req \in [Req -> Request] /\ running \in BOOLEAN
  /\ drift \subseteq User /\ torn \in BOOLEAN
  /\ \A a, b \in rows : a.id = b.id \/ a.key = b.key => a = b

Quiescent == running /\ ~torn /\ \A r \in Req : req[r] = Idle

Settled == {row \in rows : row.user \notin drift}

\* When the key handlers are done, none of them having failed, the file has
\* exactly the keys of the active users, but for users an administrator has
\* changed since the last rebuild: no rebuild undoes a later one.
FileIsComplete ==
  Quiescent =>
    /\ \A row \in Settled :
         row.user \in active <=> [id |-> row.id, key |-> row.key] \in file
    /\ drift = {} => file = ActiveLines

\* Unless a rebuild failed meanwhile, a rebuild takes no working key out of
\* the file: the line of a row stays when the row's own request is done and
\* its user unchanged.
KeysKeepWorking ==
  [][~torn' =>
       \A line \in file \ file', row \in rows :
         (row.id = line.id /\ row.key = line.key /\ row.user \in active \ drift)
           => \E r \in Req : req[r].op.key = row.key /\ req[r].pc \in {"lock", "read"}]_vars

\* A key that was added is in the file some day, unless it is deleted, its
\* user is changed, or a handler fails.
AddedKeyServed ==
  \A k \in Key :
    (\E row \in rows : row.key = k)
      ~> \/ \E line \in file : line.key = k
         \/ ~\E row \in Settled : row.key = k /\ row.user \in active
         \/ torn
=============================================================================
