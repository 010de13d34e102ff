------------------------------ MODULE GitSlots ------------------------------
(***************************************************************************)
(* The git slots of a running server and its orderly stop: the semaphore   *)
(* every git request over HTTP waits for, the tracker of operations in     *)
(* progress, and the end of main: drain the HTTP server, wait until no     *)
(* operation is active, close the database, all within a grace period.     *)
(*                                                                         *)
(* The guard of a git operation is held by its handler (browsing, creating *)
(* a project, preparing a push) or travels into a detached task, which     *)
(* outlives the response, waits for the git child, and after a push        *)
(* updates the project row.  LFS transfers are tracked but need no slot.   *)
(* An open connection carries one operation after the other.               *)
(***************************************************************************)
EXTENDS Naturals, Sequences, FiniteSets, SequencesExt

CONSTANTS
  Connection,  \* HTTP connections that can be open at once
  Slots,    \* git.max_concurrent_operations
  Ssh       \* rgit-shell processes that can be running at once

ASSUME SlotsAssumption == Slots \in Nat \ {0}
ASSUME ConnectionAssumption == IsFiniteSet(Connection)

VARIABLES
  permits,  \* permits left in the semaphore
  queue,    \* requests waiting for a permit, in order of arrival
  task,     \* where each request is
  open,     \* requests whose HTTP connection is open
  active,   \* OperationTrackerInner.active
  phase,    \* where main is
  waiter,   \* where wait_idle is
  woken,    \* the pending Notified future of wait_idle was notified
  expired,  \* the grace period ended first
  ssh,      \* rgit-shell processes with a running git child
  cut       \* history: pushes and reads in progress when the process ended

slots == <<permits, queue>>
stop  == <<phase, waiter, woken, expired>>
slotsVars == <<permits, queue, task, open, active, phase, waiter, woken, expired, ssh, cut>>

\* none:     no operation; a handler may be running without a slot
\* queued:   waiting in acquire_owned
\* granted:  the semaphore has assigned a permit, the handler has not run yet
\* inline:   the handler holds the guard and runs git itself
\* child:    the guard is in the detached task, the git child is running
\* post:     receive-pack has succeeded, post_receive is due
\* drop:     the guard is about to be dropped
\* last:     active was decremented to zero, the notification is due
\* unpermit: active was decremented, only the permit is left
\* lfs, lfsdrop, lfslast: the same for an LFS transfer, which has no permit
Task == {"none", "queued", "granted", "inline", "child", "post", "drop",
         "last", "unpermit", "lfs", "lfsdrop", "lfslast"}

HoldsPermit == {"granted", "inline", "child", "post", "drop", "last", "unpermit"}
Tracked     == {"inline", "child", "post", "drop", "lfs", "lfsdrop"}
InHandler   == {"queued", "granted", "inline", "lfs"}

SlotsInit ==
  /\ permits = Slots /\ queue = <<>>
  /\ task = [r \in Connection |-> "none"]
  /\ open = {} /\ active = 0
  /\ phase = "serving" /\ waiter = "off" /\ woken = FALSE /\ expired = FALSE
  /\ ssh = {} /\ cut = {}

-----------------------------------------------------------------------------
(* The semaphore.                                                           *)

\* mutant: the last to come is served first.
HandOverLifo(t) ==
  IF queue = <<>>
  THEN /\ permits' = permits + 1
       /\ task' = t
       /\ UNCHANGED queue
  ELSE /\ task' = [t EXCEPT ![Last(queue)] = "granted"]
       /\ queue' = Front(queue)
       /\ UNCHANGED permits

\* A freed permit goes to the request that has waited longest.  t is the task
\* function without the request that gives the permit up.
HandOver(t) ==
  IF queue = <<>>
  THEN /\ permits' = permits + 1
       /\ task' = t
       /\ UNCHANGED queue
  ELSE /\ task' = [t EXCEPT ![Head(queue)] = "granted"]
       /\ queue' = Tail(queue)
       /\ UNCHANGED permits

Connect(r) ==
  /\ phase = "serving" /\ r \notin open /\ task[r] = "none"
  /\ open' = open \cup {r}
  /\ UNCHANGED <<slots, task, active, stop, ssh, cut>>

\* A handler calls begin_git_operation.
Acquire(r) ==
  /\ r \in open /\ task[r] = "none"
  /\ IF permits > 0
     THEN /\ permits' = permits - 1
          /\ task' = [task EXCEPT ![r] = "granted"]
          /\ UNCHANGED queue
     ELSE /\ queue' = Append(queue, r)
          /\ task' = [task EXCEPT ![r] = "queued"]
          /\ UNCHANGED permits
  /\ UNCHANGED <<open, active, stop, ssh, cut>>

\* The waiter is unlinked wherever it stands.
LeaveQueue(r) ==
  /\ task[r] = "queued"
  /\ \E i \in 1..Len(queue) : queue[i] = r /\ queue' = RemoveAt(queue, i)
  /\ task' = [task EXCEPT ![r] = "none"]
  /\ UNCHANGED permits

\* mutant: the permit of a handler that is gone is forgotten.
AbandonLeaks(r) ==
  \/ LeaveQueue(r)
  \/ task[r] \in {"granted", "inline"} /\ task' = [task EXCEPT ![r] = "none"] /\ UNCHANGED slots
  \/ task[r] = "lfs"     /\ task' = [task EXCEPT ![r] = "lfsdrop"] /\ UNCHANGED slots

\* What dropping a handler does to the operation it holds.
Abandon(r) ==
  \/ LeaveQueue(r)
  \/ task[r] = "granted" /\ HandOver([task EXCEPT ![r] = "none"])
  \/ task[r] = "inline"  /\ task' = [task EXCEPT ![r] = "drop"] /\ UNCHANGED slots
  \/ task[r] = "lfs"     /\ task' = [task EXCEPT ![r] = "lfsdrop"] /\ UNCHANGED slots

\* The queue timeout: the handler answers Error::Busy.
Busy(r) ==
  /\ LeaveQueue(r)
  /\ UNCHANGED <<open, active, stop, ssh, cut>>

\* The client is gone: the handler is dropped where it is, a detached task
\* goes on.
Disconnect(r) ==
  /\ r \in open
  /\ open' = open \ {r}
  /\ IF task[r] \in InHandler THEN Abandon(r) ELSE UNCHANGED <<slots, task>>
  /\ UNCHANGED <<active, stop, ssh, cut>>

\* The response has been read to its end.
CloseConnection(r) ==
  /\ r \in open /\ task[r] \notin InHandler
  /\ open' = open \ {r}
  /\ UNCHANGED <<slots, task, active, stop, ssh, cut>>

\* The permit is there: operations.begin.
Begin(r) ==
  /\ task[r] = "granted"
  /\ active' = active + 1
  /\ task' = [task EXCEPT ![r] = "inline"]
  /\ UNCHANGED <<slots, open, stop, ssh, cut>>

\* The streaming child is spawned and the guard given to the task that waits.
Detach(r) ==
  /\ task[r] = "inline"
  /\ task' = [task EXCEPT ![r] = "child"]
  /\ UNCHANGED <<slots, open, active, stop, ssh, cut>>

\* The handler is done with git, or git failed.
InlineDone(r) ==
  /\ task[r] = "inline"
  /\ task' = [task EXCEPT ![r] = "drop"]
  /\ UNCHANGED <<slots, open, active, stop, ssh, cut>>

LfsBegin(r) ==
  /\ r \in open /\ task[r] = "none"
  /\ active' = active + 1
  /\ task' = [task EXCEPT ![r] = "lfs"]
  /\ UNCHANGED <<slots, open, stop, ssh, cut>>

LfsEnd(r) ==
  /\ task[r] = "lfs"
  /\ task' = [task EXCEPT ![r] = "lfsdrop"]
  /\ UNCHANGED <<slots, open, active, stop, ssh, cut>>

-----------------------------------------------------------------------------
(* The detached task.                                                       *)

\* mutant: the operation ends before the bookkeeping of the push.
ChildExitReleasing(r) ==
  /\ task[r] = "child"
  /\ active' = active - 1
  /\ task' = [task EXCEPT ![r] = "post"]
  /\ UNCHANGED <<slots, open, stop, ssh, cut>>

\* The child exits by itself or is killed by wait_with_timeout.  Only a
\* receive-pack that succeeded has something left to do.
ChildExit(r) ==
  /\ task[r] = "child"
  /\ \/ task' = [task EXCEPT ![r] = "post"]
     \/ task' = [task EXCEPT ![r] = "drop"]
  /\ UNCHANGED <<slots, open, active, stop, ssh, cut>>

PostReceive(r) ==
  /\ task[r] = "post"
  /\ task' = [task EXCEPT ![r] = "drop"]
  /\ UNCHANGED <<slots, open, active, stop, ssh, cut>>

-----------------------------------------------------------------------------
(* Dropping the guard.                                                      *)

\* OperationGuard::drop: fetch_sub, and whether it was the last one.
Release(r) ==
  /\ \/ /\ task[r] = "drop"
        /\ task' = [task EXCEPT ![r] = IF active = 1 THEN "last" ELSE "unpermit"]
     \/ /\ task[r] = "lfsdrop"
        /\ task' = [task EXCEPT ![r] = IF active = 1 THEN "lfslast" ELSE "none"]
  /\ active' = active - 1
  /\ UNCHANGED <<slots, open, stop, ssh, cut>>

\* mutant: the future is created where it is awaited.
ListeningAsleep == waiter = "asleep"

\* notify_waiters reaches every Notified future that exists.
Listening == waiter \in {"armed", "checked", "asleep"}

\* OperationGuard::drop: notify_waiters.
Notify(r) ==
  /\ task[r] \in {"last", "lfslast"}
  /\ task' = [task EXCEPT ![r] = IF @ = "last" THEN "unpermit" ELSE "none"]
  /\ woken' = (woken \/ Listening)
  /\ UNCHANGED <<slots, open, active, phase, waiter, expired, ssh, cut>>

\* The permit is dropped after the operation guard.
ReturnPermit(r) ==
  /\ task[r] = "unpermit"
  /\ HandOver([task EXCEPT ![r] = "none"])
  /\ UNCHANGED <<open, active, stop, ssh, cut>>

-----------------------------------------------------------------------------
(* The stop.                                                                *)

\* SIGTERM or ctrl-c: the HTTP server stops accepting.
Signal ==
  /\ phase = "serving"
  /\ phase' = "draining"
  /\ UNCHANGED <<slots, task, open, active, waiter, woken, expired, ssh, cut>>

\* The HTTP server returns when its last connection is done.
HttpDone ==
  /\ phase = "draining" /\ open = {}
  /\ phase' = "waiting" /\ waiter' = "arm"
  /\ UNCHANGED <<slots, task, open, active, woken, expired, ssh, cut>>

\* wait_idle: create the Notified future, ...
WaitArm ==
  /\ phase = "waiting" /\ waiter = "arm"
  /\ waiter' = "armed" /\ woken' = FALSE
  /\ UNCHANGED <<slots, task, open, active, phase, expired, ssh, cut>>

\* ... look at the counter, ...
WaitCheck ==
  /\ phase = "waiting" /\ waiter = "armed"
  /\ IF active = 0
     THEN phase' = "closing" /\ waiter' = "off"
     ELSE waiter' = "checked" /\ UNCHANGED phase
  /\ UNCHANGED <<slots, task, open, active, woken, expired, ssh, cut>>

\* ... and sleep until it is notified.
WaitSleep ==
  /\ phase = "waiting" /\ waiter = "checked"
  /\ waiter' = "asleep"
  /\ UNCHANGED <<slots, task, open, active, phase, woken, expired, ssh, cut>>

WaitWake ==
  /\ phase = "waiting" /\ waiter = "asleep" /\ woken
  /\ waiter' = "arm"
  /\ UNCHANGED <<slots, task, open, active, phase, woken, expired, ssh, cut>>

\* mutant: the timeout is around wait_idle only.
GraceWhileWaiting ==
  /\ phase = "waiting"
  /\ phase' = "closing" /\ expired' = TRUE /\ waiter' = "off"
  /\ UNCHANGED <<slots, task, open, active, woken, ssh, cut>>

\* The timeout around the drain and wait_idle.
GraceExpires ==
  /\ phase \in {"draining", "waiting"}
  /\ phase' = "closing" /\ expired' = TRUE /\ waiter' = "off"
  /\ UNCHANGED <<slots, task, open, active, woken, ssh, cut>>

\* The database is closed and the process ends: every task ends with it, and
\* kill_on_drop takes the children.
Exit ==
  /\ phase = "closing"
  /\ phase' = "closed"
  /\ cut' = {r \in Connection : task[r] \in InHandler \cup {"child", "post"}}
  /\ task' = [r \in Connection |-> "none"]
  /\ queue' = <<>> /\ open' = {} /\ active' = 0 /\ permits' = Slots
  /\ UNCHANGED <<waiter, woken, expired, ssh>>

-----------------------------------------------------------------------------
(* rgit-shell: a process of its own, started by sshd.                       *)

SshStart(s) ==
  /\ s \notin ssh
  /\ ssh' = ssh \cup {s}
  /\ UNCHANGED <<slots, task, open, active, stop, cut>>

SshExit(s) ==
  /\ s \in ssh
  /\ ssh' = ssh \ {s}
  /\ UNCHANGED <<slots, task, open, active, stop, cut>>

\* What the runtime and the git children do without a client's help.
Progress(r) ==
  \/ Begin(r) \/ Detach(r) \/ InlineDone(r) \/ ChildExit(r) \/ PostReceive(r)
  \/ Release(r) \/ Notify(r) \/ ReturnPermit(r)

Client(r) ==
  \/ Connect(r) \/ Acquire(r) \/ LfsBegin(r) \/ LfsEnd(r)
  \/ Disconnect(r) \/ CloseConnection(r)

Wait == WaitArm \/ WaitCheck \/ WaitSleep \/ WaitWake

SlotsNext ==
  \/ \E r \in Connection : Client(r) \/ Busy(r) \/ Progress(r)
  \/ Signal \/ HttpDone \/ Wait \/ GraceExpires \/ Exit
  \/ \E s \in Ssh : SshStart(s) \/ SshExit(s)

SlotsSpec == SlotsInit /\ [][SlotsNext]_slotsVars

\* The runtime runs every ready task, git children end (run_git and
\* wait_with_timeout kill them), and the grace timer fires.  Nothing makes a
\* client read its response, and the timeout of the queue is not assumed.
FairSpec ==
  /\ SlotsSpec
  /\ \A r \in Connection : WF_slotsVars(Progress(r))
  /\ WF_slotsVars(HttpDone) /\ WF_slotsVars(Wait) /\ WF_slotsVars(GraceExpires) /\ WF_slotsVars(Exit)

-----------------------------------------------------------------------------
(* Properties.                                                              *)

\* Every variable keeps its type.
SlotsTypeOK ==
  /\ permits \in 0..Slots
  /\ queue \in Seq(Connection)
  /\ task \in [Connection -> Task]
  /\ open \subseteq Connection
  /\ active \in 0..Cardinality(Connection)
  /\ phase \in {"serving", "draining", "waiting", "closing", "closed"}
  /\ waiter \in {"off", "arm", "armed", "checked", "asleep"}
  /\ woken \in BOOLEAN /\ expired \in BOOLEAN
  /\ ssh \subseteq Ssh /\ cut \subseteq Connection

With(S) == {r \in Connection : task[r] \in S}

\* Permits are neither lost nor made by timeouts, disconnects and failing
\* spawns, and nobody queues while one is free.
PermitsBalance ==
  /\ permits + Cardinality(With(HoldsPermit)) = Slots
  /\ permits > 0 => queue = <<>>

\* A stop within the grace period cuts nothing off: no git child is killed
\* and no push misses its post_receive, although responses end earlier.
GracefulStop == phase = "closed" /\ ~expired => cut = {}

\* A request is not overtaken for ever by later ones: it gets its slot even
\* if its queue timeout never fires.
NoStarvation == \A r \in Connection : task[r] = "queued" ~> task[r] # "queued"

\* The notification of the last operation is not lost between wait_idle's
\* look at the counter and its sleep: it sleeps on only while an operation is
\* active or the guard of the last one is about to notify.
WakeUpKept ==
  waiter = "asleep" /\ ~woken => active > 0 \/ With({"last", "lfslast"}) # {}

\* A stop always completes, whatever the clients do.
StopCompletes == phase = "draining" ~> phase = "closed"
=============================================================================
