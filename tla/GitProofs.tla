----------------------------- MODULE GitProofs -----------------------------
(***************************************************************************)
(* What git requests rely on: the slots of GitSlots and the HEAD of        *)
(* HeadBranch.                                                             *)
(*                                                                         *)
(* The slots.  Slotted is inductive by itself: permits and the tasks that  *)
(* hold one add up to the slots, and the queue has every queued connection *)
(* once, which is what lets a permit that is handed over leave the balance *)
(* alone.  StopInv adds what main and wait_idle have seen so far: the      *)
(* counter is the number of tracked tasks, handlers live on open           *)
(* connections, and none of these is left when main goes on.               *)
(***************************************************************************)
EXTENDS GitSlots, HeadBranch, FiniteSetTheorems, SequenceTheorems, TLAPS

-----------------------------------------------------------------------------
(* Counting connections by their task.                                      *)

In(t, S) == {r \in Connection : t[r] \in S}

LEMMA Counted ==
  ASSUME NEW t, NEW S
  PROVE  IsFiniteSet(In(t, S)) /\ Cardinality(In(t, S)) \in Nat
<1>1. In(t, S) \in SUBSET Connection
  BY DEF In
<1> QED
  BY <1>1, ConnectionAssumption, FS_Subset, FS_CardinalityType

\* From tasks t to tasks u, connection r goes on to v.
Moves(t, u, r, v) ==
  /\ t \in [Connection -> Task] /\ u \in [Connection -> Task] /\ r \in Connection
  /\ u[r] = v /\ \A x \in Connection : x # r => u[x] = t[x]

LEMMA ExceptMoves ==
  ASSUME NEW t \in [Connection -> Task], NEW u, NEW r \in Connection, NEW v \in Task,
         u = [t EXCEPT ![r] = v]
  PROVE  Moves(t, u, r, v)
BY DEF Moves

LEMMA MovedCount ==
  ASSUME NEW t, NEW u, NEW r, NEW v, Moves(t, u, r, v), NEW S
  PROVE  /\ (v \in S <=> t[r] \in S) => In(u, S) = In(t, S)
         /\ v \in S /\ t[r] \notin S => Cardinality(In(u, S)) = Cardinality(In(t, S)) + 1
         /\ v \notin S /\ t[r] \in S => Cardinality(In(u, S)) = Cardinality(In(t, S)) - 1
<1>1. IsFiniteSet(In(t, S))
  BY Counted
<1>2. ASSUME v \in S <=> t[r] \in S PROVE In(u, S) = In(t, S)
  BY <1>2 DEF In, Moves
<1>3. ASSUME v \in S, t[r] \notin S PROVE Cardinality(In(u, S)) = Cardinality(In(t, S)) + 1
  <2>1. In(u, S) = In(t, S) \cup {r} /\ r \notin In(t, S)
    BY <1>3 DEF In, Moves
  <2> QED
    BY <1>1, <2>1, FS_AddElement
<1>4. ASSUME v \notin S, t[r] \in S PROVE Cardinality(In(u, S)) = Cardinality(In(t, S)) - 1
  <2>1. In(u, S) = In(t, S) \ {r} /\ r \in In(t, S)
    BY <1>4 DEF In, Moves
  <2> QED
    BY <1>1, <2>1, FS_RemoveElement
<1> QED
  BY <1>2, <1>3, <1>4

-----------------------------------------------------------------------------
(* The queue.                                                               *)

\* q has exactly the connections whose task is "queued", each once.
Lined(q, t) ==
  /\ q \in Seq(Connection)
  /\ \A i \in 1..Len(q) : t[q[i]] = "queued"
  /\ \A i, j \in 1..Len(q) : q[i] = q[j] => i = j
  /\ \A r \in Connection : t[r] = "queued" => \E i \in 1..Len(q) : q[i] = r

LEMMA QueueRemove ==
  ASSUME NEW q, NEW t, NEW u, NEW v, Lined(q, t), NEW i \in 1..Len(q),
         Moves(t, u, q[i], v), v # "queued"
  PROVE  Lined(RemoveAt(q, i), u)
<1> DEFINE p == RemoveAt(q, i)
           n == Len(q)
<1>1. n \in Nat /\ i \in 1..n /\ \A j \in 1..n : q[j] \in Connection
  BY LenProperties, ElementOfSeq DEF Lined
<1>2. /\ p \in Seq(Connection) /\ Len(p) = n - 1
      /\ \A j \in 1..n - 1 : p[j] = IF j < i THEN q[j] ELSE q[j + 1]
  <2> DEFINE a == SubSeq(q, 1, i - 1)
             b == SubSeq(q, i + 1, n)
  <2>1. /\ a \in Seq(Connection) /\ Len(a) = i - 1 /\ \A j \in 1..i - 1 : a[j] = q[j]
    <3>1. i \in Int /\ i - 1 \in Int /\ i >= 1 /\ \A j \in 1..i - 1 : q[j] \in Connection
      BY <1>1
    <3>2. /\ a \in Seq(Connection)
          /\ Len(a) = IF 1 <= i - 1 THEN (i - 1) - 1 + 1 ELSE 0
          /\ \A j \in 1..(i - 1) - 1 + 1 : a[j] = q[1 + j - 1]
      BY <3>1, SubSeqProperties
    <3> HIDE DEF a
    <3> QED
      BY <3>1, <3>2
  <2>2. /\ b \in Seq(Connection) /\ Len(b) = n - i /\ \A j \in 1..n - i : b[j] = q[i + j]
    <3>1. /\ i + 1 \in Int /\ n \in Int /\ i <= n /\ i >= 1
          /\ \A j \in i + 1..n : q[j] \in Connection
      BY <1>1
    <3>2. /\ b \in Seq(Connection)
          /\ Len(b) = IF i + 1 <= n THEN n - (i + 1) + 1 ELSE 0
          /\ \A j \in 1..n - (i + 1) + 1 : b[j] = q[(i + 1) + j - 1]
      BY <3>1, SubSeqProperties
    <3> HIDE DEF b, n
    <3> QED
      BY <3>1, <3>2
  <2>3. p = a \o b
    BY DEF RemoveAt
  <2> HIDE DEF a, b, p
  <2>4. /\ p \in Seq(Connection) /\ Len(p) = n - 1
        /\ \A j \in 1..n - 1 : p[j] = IF j <= i - 1 THEN a[j] ELSE b[j - (i - 1)]
    <3>1. /\ p \in Seq(Connection) /\ Len(p) = Len(a) + Len(b)
          /\ \A j \in 1..Len(a) + Len(b) :
               p[j] = IF j <= Len(a) THEN a[j] ELSE b[j - Len(a)]
      BY <2>1, <2>2, <2>3, ConcatProperties
    <3>2. Len(a) = i - 1 /\ Len(a) + Len(b) = n - 1
      BY <1>1, <2>1, <2>2
    <3> QED
      BY <3>1, <3>2
  <2>5. \A j \in 1..n - 1 : ~(j < i) => j - (i - 1) \in 1..n - i /\ i + (j - (i - 1)) = j + 1
    BY <1>1
  <2>6. \A j \in 1..n - 1 : j < i => j \in 1..i - 1 /\ j <= i - 1
    BY <1>1
  <2>7. \A j \in 1..n - 1 : ~(j < i) => ~(j <= i - 1)
    BY <1>1
  <2> HIDE DEF n
  <2> QED
    BY <2>1, <2>2, <2>4, <2>5, <2>6, <2>7
<1> HIDE DEF p, n
<1>3. /\ \A j \in 1..n : j # i => t[q[j]] = "queued" /\ u[q[j]] = "queued"
      /\ u[q[i]] = v /\ \A r \in Connection : r # q[i] => u[r] = t[r]
  BY <1>1 DEF Lined, Moves, n
<1>4. \A j, k \in 1..n : q[j] = q[k] => j = k
  BY DEF Lined, n
<1>5. ASSUME NEW j \in 1..n - 1 PROVE u[p[j]] = "queued"
  <2>1. PICK k \in 1..n : k # i /\ p[j] = q[k]
    <3>1. CASE j < i
      BY <1>1, <1>2, <3>1
    <3>2. CASE ~(j < i)
      <4>1. j + 1 \in 1..n /\ j + 1 # i
        BY <1>1, <3>2
      <4> QED
        BY <1>2, <3>2, <4>1
    <3> QED
      BY <3>1, <3>2
  <2> QED
    BY <1>3, <2>1
<1>6. ASSUME NEW j \in 1..n - 1, NEW k \in 1..n - 1, p[j] = p[k] PROVE j = k
  <2> DEFINE at(x) == IF x < i THEN x ELSE x + 1
  <2>1. \A x \in 1..n - 1 : at(x) \in 1..n /\ p[x] = q[at(x)]
    BY <1>1, <1>2
  <2>2. at(j) = at(k) => j = k
    BY <1>1
  <2> HIDE DEF at
  <2> QED
    BY <1>4, <1>6, <2>1, <2>2
<1>7. ASSUME NEW r \in Connection, u[r] = "queued" PROVE \E j \in 1..n - 1 : p[j] = r
  <2>1. r # q[i] /\ t[r] = "queued"
    BY <1>3, <1>7
  <2>2. PICK k \in 1..n : q[k] = r
    BY <2>1 DEF Lined, n
  <2>3. CASE k < i
    <3>1. k \in 1..n - 1
      BY <1>1, <2>3
    <3> QED
      BY <1>2, <2>2, <2>3, <3>1
  <2>4. CASE k > i
    <3>1. k - 1 \in 1..n - 1 /\ ~(k - 1 < i) /\ (k - 1) + 1 = k
      BY <1>1, <2>4
    <3> QED
      BY <1>2, <2>2, <3>1
  <2> QED
    BY <1>1, <2>1, <2>2, <2>3, <2>4
<1>8. Len(p) = n - 1 /\ p \in Seq(Connection)
  BY <1>2
<1> QED
  BY <1>5, <1>6, <1>7, <1>8 DEF Lined, p

LEMMA QueueAppend ==
  ASSUME NEW q, NEW t, NEW u, NEW r, Lined(q, t), Moves(t, u, r, "queued"), t[r] # "queued"
  PROVE  Lined(Append(q, r), u)
<1> DEFINE p == Append(q, r)
           n == Len(q)
<1>1. n \in Nat /\ \A j \in 1..n : q[j] \in Connection
  BY LenProperties, ElementOfSeq DEF Lined
<1>2. /\ p \in Seq(Connection) /\ Len(p) = n + 1 /\ p[n + 1] = r
      /\ \A j \in 1..n : p[j] = q[j]
  BY <1>1 DEF Lined, Moves
<1> HIDE DEF p
<1>3. \A j \in 1..n : q[j] # r
  BY DEF Lined
<1>4. u[r] = "queued" /\ \A x \in Connection : x # r => u[x] = t[x]
  BY DEF Moves
<1>5. \A j \in 1..n + 1 : u[p[j]] = "queued"
  BY <1>1, <1>2, <1>3, <1>4 DEF Lined
<1>6. \A j, k \in 1..n + 1 : p[j] = p[k] => j = k
  BY <1>1, <1>2, <1>3 DEF Lined
<1>7. \A x \in Connection : u[x] = "queued" => \E j \in 1..n + 1 : p[j] = x
  <2> SUFFICES ASSUME NEW x \in Connection, u[x] = "queued" PROVE \E j \in 1..n + 1 : p[j] = x
    OBVIOUS
  <2>1. CASE x = r
    BY <1>1, <1>2, <2>1
  <2>2. CASE x # r
    BY <1>1, <1>2, <1>4, <2>2 DEF Lined
  <2> QED
    BY <2>1, <2>2
<1> QED
  BY <1>2, <1>5, <1>6, <1>7 DEF Lined, p, n

\* Others may move as long as nobody enters or leaves the queue.
LEMMA QueueStays ==
  ASSUME NEW q, NEW t, NEW u, NEW r, NEW v, Lined(q, t), Moves(t, u, r, v),
         t[r] # "queued", v # "queued"
  PROVE  Lined(q, u)
<1>1. \A j \in 1..Len(q) : q[j] \in Connection
  BY ElementOfSeq DEF Lined
<1> QED
  BY <1>1 DEF Lined, Moves

-----------------------------------------------------------------------------
(* The semaphore.                                                           *)

\* Permits balance, for a semaphore that has p permits and queue q.
Slotted(p, q, t) ==
  /\ p \in Nat /\ t \in [Connection -> Task] /\ Lined(q, t)
  /\ p + Cardinality(In(t, HoldsPermit)) = Slots
  /\ p > 0 => q = <<>>

LEMMA QueuedHoldNothing == "queued" \notin HoldsPermit \cup Tracked /\ "none" \notin HoldsPermit \cup Tracked
BY DEF HoldsPermit, Tracked

LEMMA SlotsStay ==
  ASSUME NEW p, NEW q, NEW t, NEW u, NEW r, NEW v, Slotted(p, q, t), Moves(t, u, r, v),
         t[r] # "queued", v # "queued", v \in HoldsPermit <=> t[r] \in HoldsPermit
  PROVE  Slotted(p, q, u)
<1>1. Lined(q, u)
  BY QueueStays DEF Slotted
<1>2. In(u, HoldsPermit) = In(t, HoldsPermit)
  BY MovedCount
<1> QED
  BY <1>1, <1>2 DEF Slotted, Moves

LEMMA TailRemoves ==
  ASSUME NEW q \in Seq(Connection), q # <<>>
  PROVE  /\ Len(q) \in Nat /\ 1 \in 1..Len(q) /\ Head(q) = q[1] /\ Head(q) \in Connection
         /\ Tail(q) = RemoveAt(q, 1)
<1>1. Len(q) \in Nat \ {0}
  BY EmptySeq
<1>2. Head(q) = q[1] /\ Head(q) \in Connection /\ Tail(q) \in Seq(Connection)
  BY HeadTailProperties
<1>3. Tail(q) = SubSeq(q, 2, Len(q))
  BY TailIsSubSeq
<1>4. SubSeq(q, 1, 0) = <<>>
  BY SubSeqEmpty
<1>5. RemoveAt(q, 1) = <<>> \o Tail(q)
  BY <1>3, <1>4 DEF RemoveAt
<1>6. <<>> \o Tail(q) = Tail(q)
  BY <1>2, ConcatEmptySeq
<1> QED
  BY <1>1, <1>2, <1>5, <1>6

LEMMA QueueShrinks ==
  ASSUME NEW p, NEW q, NEW t, NEW u, Slotted(p, q, t), NEW i \in 1..Len(q),
         Moves(t, u, q[i], "none")
  PROVE  Slotted(p, RemoveAt(q, i), u)
<1>1. Lined(q, t) /\ q \in Seq(Connection) /\ p \in Nat /\ t[q[i]] = "queued"
  BY DEF Slotted, Lined
<1>2. Lined(RemoveAt(q, i), u)
  BY <1>1, QueueRemove
<1>3. In(u, HoldsPermit) = In(t, HoldsPermit)
  BY <1>1, MovedCount, QueuedHoldNothing
<1>4. p = 0
  <2>1. Len(<<>>) = 0 /\ Len(q) # 0
    BY <1>1, EmptySeq
  <2> QED
    BY <1>1, <2>1 DEF Slotted
<1> QED
  BY <1>1, <1>2, <1>3, <1>4 DEF Slotted, Moves

\* A permit that is given up goes to the head of the queue, or back.
LEMMA HandOverKeeps ==
  ASSUME Slotted(permits, queue, task), NEW r \in Connection, task[r] \in HoldsPermit,
         HandOver([task EXCEPT ![r] = "none"])
  PROVE  Slotted(permits', queue', task')
<1> DEFINE t == [task EXCEPT ![r] = "none"]
           n == Cardinality(In(task, HoldsPermit))
<1>1. /\ task \in [Connection -> Task] /\ Lined(queue, task) /\ queue \in Seq(Connection)
      /\ task[r] # "queued" /\ permits \in Nat /\ permits + n = Slots
      /\ permits > 0 => queue = <<>>
  BY QueuedHoldNothing DEF Slotted, Lined
<1>2. Moves(task, t, r, "none")
  BY <1>1, ExceptMoves DEF Task
<1>3. n \in Nat
  BY Counted
<1> HIDE DEF t
<1>4. Lined(queue, t) /\ t \in [Connection -> Task]
  BY <1>1, <1>2, QueueStays DEF Moves
<1>5. Cardinality(In(t, HoldsPermit)) = n - 1
  BY <1>2, MovedCount, QueuedHoldNothing
<1> HIDE DEF n
<1>6. CASE queue = <<>>
  <2>1. permits' = permits + 1 /\ task' = t /\ queue' = queue
    BY <1>6 DEF HandOver, t
  <2>2. permits + 1 \in Nat /\ (permits + 1) + (n - 1) = Slots
    BY <1>1, <1>3
  <2> QED
    BY <1>4, <1>5, <1>6, <2>1, <2>2 DEF Slotted
<1>7. CASE queue # <<>>
  <2> DEFINE h == Head(queue)
  <2>1. permits' = permits /\ task' = [t EXCEPT ![h] = "granted"] /\ queue' = Tail(queue)
    BY <1>7 DEF HandOver, t
  <2>2. /\ 1 \in 1..Len(queue) /\ h = queue[1] /\ h \in Connection
        /\ Tail(queue) = RemoveAt(queue, 1)
    BY <1>1, <1>7, TailRemoves
  <2> HIDE DEF h
  <2>3. Moves(t, task', h, "granted")
    BY <1>4, <2>1, <2>2, ExceptMoves DEF Task
  <2>4. Lined(queue', task')
    BY <1>4, <2>1, <2>2, <2>3, QueueRemove
  <2>5. t[h] = "queued"
    BY <1>4, <2>2 DEF Lined
  <2>6. Cardinality(In(task', HoldsPermit)) = (n - 1) + 1
    BY <1>5, <2>3, <2>5, MovedCount DEF HoldsPermit
  <2>7. (n - 1) + 1 = n /\ ~(permits > 0)
    BY <1>1, <1>3, <1>7
  <2> QED
    BY <1>1, <2>1, <2>3, <2>4, <2>6, <2>7 DEF Slotted, Moves
<1> QED
  BY <1>6, <1>7

LEMMA AcquireKeeps ==
  ASSUME Slotted(permits, queue, task), NEW r \in Connection, Acquire(r)
  PROVE  Slotted(permits', queue', task')
<1> DEFINE n == Cardinality(In(task, HoldsPermit))
<1>0. permits \in Nat /\ permits + n = Slots
  BY DEF Slotted
<1>1. /\ task \in [Connection -> Task] /\ Lined(queue, task) /\ task[r] = "none"
      /\ permits > 0 => queue = <<>>
  BY DEF Slotted, Acquire
<1>2. n \in Nat
  BY Counted
<1> HIDE DEF n
<1>3. CASE permits > 0
  <2>1. permits' = permits - 1 /\ task' = [task EXCEPT ![r] = "granted"] /\ queue' = queue
    BY <1>3 DEF Acquire
  <2>2. Moves(task, task', r, "granted")
    BY <1>1, <2>1, ExceptMoves DEF Task
  <2>3. Lined(queue, task')
    BY <1>1, <2>2, QueueStays
  <2>4. Cardinality(In(task', HoldsPermit)) = n + 1
    BY <1>1, <2>2, MovedCount, QueuedHoldNothing DEF HoldsPermit, n
  <2>5. permits - 1 \in Nat /\ (permits - 1) + (n + 1) = Slots
    BY <1>0, <1>2, <1>3
  <2> QED
    BY <1>1, <1>3, <2>1, <2>2, <2>3, <2>4, <2>5 DEF Slotted, Moves
<1>4. CASE ~(permits > 0)
  <2>1. permits' = permits /\ task' = [task EXCEPT ![r] = "queued"] /\ queue' = Append(queue, r)
    BY <1>4 DEF Acquire
  <2>2. Moves(task, task', r, "queued")
    BY <1>1, <2>1, ExceptMoves DEF Task
  <2>3. Lined(queue', task')
    BY <1>1, <2>1, <2>2, QueueAppend
  <2>4. In(task', HoldsPermit) = In(task, HoldsPermit)
    BY <1>1, <2>2, MovedCount, QueuedHoldNothing
  <2> QED
    BY <1>0, <1>1, <1>4, <2>1, <2>2, <2>3, <2>4 DEF Slotted, Moves, n
<1> QED
  BY <1>3, <1>4

LEMMA LeaveQueueKeeps ==
  ASSUME Slotted(permits, queue, task), NEW r \in Connection, LeaveQueue(r)
  PROVE  Slotted(permits', queue', task')
<1>1. PICK i \in 1..Len(queue) : queue[i] = r /\ queue' = RemoveAt(queue, i)
  BY DEF LeaveQueue
<1>2. task' = [task EXCEPT ![r] = "none"] /\ permits' = permits
  BY DEF LeaveQueue
<1>3. Moves(task, task', r, "none")
  BY <1>2, ExceptMoves DEF Slotted, Task
<1> QED
  BY <1>1, <1>2, <1>3, QueueShrinks

\* A task that neither takes nor gives up a permit goes on.
LEMMA SlotsMove ==
  ASSUME Slotted(permits, queue, task), NEW r \in Connection, NEW v \in Task,
         task' = [task EXCEPT ![r] = v], UNCHANGED slots,
         task[r] # "queued", v # "queued", v \in HoldsPermit <=> task[r] \in HoldsPermit
  PROVE  Slotted(permits', queue', task')
<1>1. Moves(task, task', r, v)
  BY ExceptMoves DEF Slotted
<1> QED
  BY <1>1, SlotsStay DEF slots

\* The process has ended: nobody holds a permit.
LEMMA NobodySlotted ==
  ASSUME NEW p, NEW q, NEW t, p = Slots, q = <<>>, t = [r \in Connection |-> "none"]
  PROVE  Slotted(p, q, t)
<1>1. t \in [Connection -> Task] /\ \A r \in Connection : t[r] = "none"
  BY DEF Task
<1>2. In(t, HoldsPermit) = {}
  BY <1>1, QueuedHoldNothing DEF In
<1>3. Cardinality(In(t, HoldsPermit)) = 0
  BY <1>2, FS_EmptySet
<1>4. q \in Seq(Connection) /\ Len(q) = 0
  BY EmptySeq
<1>5. Lined(q, t)
  BY <1>1, <1>4 DEF Lined
<1> QED
  BY <1>1, <1>3, <1>5, SlotsAssumption DEF Slotted

LEMMA AbandonKeeps ==
  ASSUME Slotted(permits, queue, task), NEW r \in Connection, Abandon(r)
  PROVE  Slotted(permits', queue', task')
<1>1. CASE LeaveQueue(r)
  BY <1>1, LeaveQueueKeeps
<1>2. CASE task[r] = "granted" /\ HandOver([task EXCEPT ![r] = "none"])
  BY <1>2, HandOverKeeps DEF HoldsPermit
<1>3. CASE task[r] = "inline" /\ task' = [task EXCEPT ![r] = "drop"] /\ UNCHANGED slots
  BY <1>3, SlotsMove DEF HoldsPermit, Task
<1>4. CASE task[r] = "lfs" /\ task' = [task EXCEPT ![r] = "lfsdrop"] /\ UNCHANGED slots
  BY <1>4, SlotsMove DEF HoldsPermit, Task
<1> QED
  BY <1>1, <1>2, <1>3, <1>4 DEF Abandon

\* Every step keeps the balance of the permits.
LEMMA SlottedStep ==
  ASSUME Slotted(permits, queue, task), [SlotsNext]_slotsVars
  PROVE  Slotted(permits', queue', task')
<1>1. CASE UNCHANGED <<slots, task>>
  BY <1>1 DEF slots
<1>2. ASSUME NEW r \in Connection, Client(r) \/ Busy(r) \/ Progress(r)
      PROVE  Slotted(permits', queue', task')
  <2>1. CASE Acquire(r)
    BY <2>1, AcquireKeeps
  <2>2. CASE LfsBegin(r)
    BY <2>2, SlotsMove DEF LfsBegin, HoldsPermit, Task
  <2>3. CASE LfsEnd(r)
    BY <2>3, SlotsMove DEF LfsEnd, HoldsPermit, Task
  <2>4. CASE Disconnect(r)
    BY <1>1, <2>4, AbandonKeeps DEF Disconnect
  <2>5. CASE Busy(r)
    BY <2>5, LeaveQueueKeeps DEF Busy
  <2>6. CASE Begin(r)
    BY <2>6, SlotsMove DEF Begin, HoldsPermit, Task
  <2>7. CASE Detach(r)
    BY <2>7, SlotsMove DEF Detach, HoldsPermit, Task
  <2>8. CASE InlineDone(r)
    BY <2>8, SlotsMove DEF InlineDone, HoldsPermit, Task
  <2>9. CASE ChildExit(r)
    BY <2>9, SlotsMove DEF ChildExit, HoldsPermit, Task
  <2>10. CASE PostReceive(r)
    BY <2>10, SlotsMove DEF PostReceive, HoldsPermit, Task
  <2>11. CASE Release(r)
    BY <2>11, SlotsMove DEF Release, HoldsPermit, Task
  <2>12. CASE Notify(r)
    <3>1. PICK v \in Task : /\ v = IF task[r] = "last" THEN "unpermit" ELSE "none"
                            /\ task' = [task EXCEPT ![r] = v]
      BY <2>12 DEF Notify, Task
    <3> QED
      BY <2>12, <3>1, SlotsMove DEF Notify, HoldsPermit
  <2>13. CASE ReturnPermit(r)
    BY <2>13, HandOverKeeps DEF ReturnPermit, HoldsPermit
  <2>14. CASE Connect(r) \/ CloseConnection(r)
    BY <1>1, <2>14 DEF Connect, CloseConnection
  <2> QED
    BY <1>2, <2>1, <2>2, <2>3, <2>4, <2>5, <2>6, <2>7, <2>8, <2>9, <2>10, <2>11, <2>12,
       <2>13, <2>14 DEF Client, Progress
<1>3. CASE Signal \/ HttpDone \/ Wait \/ GraceExpires
  BY <1>1, <1>3 DEF Signal, HttpDone, Wait, WaitArm, WaitCheck, WaitSleep, WaitWake, GraceExpires
<1>4. CASE Exit
  BY <1>4, NobodySlotted DEF Exit
<1>5. CASE \E s \in Ssh : SshStart(s) \/ SshExit(s)
  BY <1>1, <1>5 DEF SshStart, SshExit
<1>6. CASE UNCHANGED slotsVars
  BY <1>1, <1>6 DEF slotsVars, slots
<1> QED
  BY <1>2, <1>3, <1>4, <1>5, <1>6 DEF SlotsNext

LEMMA AlwaysSlotted == SlotsSpec => []Slotted(permits, queue, task)
<1>1. SlotsInit => Slotted(permits, queue, task)
  BY NobodySlotted DEF SlotsInit
<1>2. Slotted(permits, queue, task) /\ [SlotsNext]_slotsVars => Slotted(permits, queue, task)'
  BY SlottedStep
<1> QED
  BY <1>1, <1>2, PTL DEF SlotsSpec

\* Permits are neither lost nor made, and nobody queues while one is free
\* (AppState::begin_git_operation and the guards it returns).
THEOREM PermitsAlwaysBalance == SlotsSpec => []PermitsBalance
<1>1. Slotted(permits, queue, task) => PermitsBalance
  BY DEF Slotted, PermitsBalance, With, In
<1> QED
  BY <1>1, AlwaysSlotted, PTL

-----------------------------------------------------------------------------
(* The stop.                                                                *)

Notifying == {"last", "lfslast"}

StopTyped ==
  /\ open \subseteq Connection /\ cut \subseteq Connection /\ ssh \subseteq Ssh
  /\ phase \in {"serving", "draining", "waiting", "closing", "closed"}
  /\ waiter \in {"off", "arm", "armed", "checked", "asleep"}
  /\ woken \in BOOLEAN /\ expired \in BOOLEAN

\* Handlers live on open connections.
Handled(t, o) == In(t, InHandler) \subseteq o

\* What main has seen when it gets so far within the grace period.
Drained ==
  ~expired =>
    /\ phase \in {"waiting", "closing"} => open = {}
    /\ phase = "closing" => In(task, Tracked) = {}
    /\ phase = "closed" => cut = {}

\* wait_idle has seen an active operation, or will be told.
Waits ==
  /\ phase # "waiting" => waiter = "off"
  /\ waiter \in {"checked", "asleep"} /\ ~woken => active > 0 \/ In(task, Notifying) # {}

StopInv ==
  /\ StopTyped
  /\ active = Cardinality(In(task, Tracked))
  /\ Handled(task, open)
  /\ Drained
  /\ Waits

\* Nobody begins or ends an operation, and nobody without a connection gets
\* into a handler.
Calm(t, u, o) ==
  \A x \in Connection :
    /\ u[x] \in Tracked <=> t[x] \in Tracked
    /\ u[x] \in Notifying <=> t[x] \in Notifying
    /\ u[x] \in InHandler => t[x] \in InHandler \/ x \in o

LEMMA CalmKeeps ==
  ASSUME NEW t, NEW u, NEW o, Calm(t, u, o)
  PROVE  /\ In(u, Tracked) = In(t, Tracked) /\ In(u, Notifying) = In(t, Notifying)
         /\ Handled(t, o) => Handled(u, o)
BY DEF Calm, In, Handled

LEMMA MoveCalm ==
  ASSUME NEW t, NEW u, NEW r, NEW v, Moves(t, u, r, v), NEW o,
         v \in Tracked <=> t[r] \in Tracked, v \in Notifying <=> t[r] \in Notifying,
         v \in InHandler => t[r] \in InHandler \/ r \in o
  PROVE  Calm(t, u, o)
BY DEF Moves, Calm

\* A permit that changes hands: its new holder was queued.
LEMMA HandOverCalm ==
  ASSUME Slotted(permits, queue, task), NEW r \in Connection, task[r] \in {"granted", "unpermit"},
         HandOver([task EXCEPT ![r] = "none"])
  PROVE  Calm(task, task', {}) /\ task'[r] \notin InHandler
<1> DEFINE t == [task EXCEPT ![r] = "none"]
<1>1. Lined(queue, task) /\ task \in [Connection -> Task] /\ task[r] # "queued"
  BY DEF Slotted
<1>2. Moves(task, t, r, "none")
  BY <1>1, ExceptMoves DEF Task
<1> HIDE DEF t
<1>3. Calm(task, t, {}) /\ t[r] = "none"
  BY <1>2, MoveCalm DEF Tracked, Notifying, InHandler, Moves
<1>4. CASE queue = <<>>
  <2>1. task' = t
    BY <1>4 DEF HandOver, t
  <2> QED
    BY <1>3, <2>1 DEF InHandler
<1>5. CASE queue # <<>>
  <2> DEFINE h == Head(queue)
  <2>1. task' = [t EXCEPT ![h] = "granted"]
    BY <1>5 DEF HandOver, t
  <2>2. 1 \in 1..Len(queue) /\ h = queue[1] /\ h \in Connection
    BY <1>1, <1>5, TailRemoves DEF Lined
  <2> HIDE DEF h
  <2>3. task[h] = "queued" /\ h # r
    BY <1>1, <2>2 DEF Lined
  <2>4. Moves(t, task', h, "granted") /\ t[h] = "queued"
    BY <1>2, <2>1, <2>2, <2>3, ExceptMoves DEF Task, Moves
  <2>5. Calm(t, task', {})
    BY <2>4, MoveCalm DEF Tracked, Notifying, InHandler
  <2>6. task'[r] = "none"
    BY <1>3, <2>3, <2>4 DEF Moves
  <2> QED
    BY <1>3, <2>5, <2>6 DEF Calm, InHandler
<1> QED
  BY <1>4, <1>5

LEMMA LeaveQueueCalm ==
  ASSUME task \in [Connection -> Task], NEW r \in Connection, LeaveQueue(r)
  PROVE  Calm(task, task', {}) /\ task'[r] \notin InHandler
<1>1. Moves(task, task', r, "none") /\ task[r] = "queued"
  BY ExceptMoves DEF LeaveQueue, Task
<1> QED
  BY <1>1, MoveCalm DEF Tracked, Notifying, InHandler, Moves

LEMMA AbandonCalm ==
  ASSUME Slotted(permits, queue, task), NEW r \in Connection, Abandon(r)
  PROVE  Calm(task, task', {}) /\ task'[r] \notin InHandler
<1>0. task \in [Connection -> Task]
  BY DEF Slotted
<1>1. CASE LeaveQueue(r)
  BY <1>0, <1>1, LeaveQueueCalm
<1>2. CASE task[r] = "granted" /\ HandOver([task EXCEPT ![r] = "none"])
  BY <1>2, HandOverCalm
<1>3. CASE task[r] = "inline" /\ task' = [task EXCEPT ![r] = "drop"]
  <2>1. Moves(task, task', r, "drop")
    BY <1>0, <1>3, ExceptMoves DEF Task
  <2> QED
    BY <1>3, <2>1, MoveCalm DEF Tracked, Notifying, InHandler, Moves
<1>4. CASE task[r] = "lfs" /\ task' = [task EXCEPT ![r] = "lfsdrop"]
  <2>1. Moves(task, task', r, "lfsdrop")
    BY <1>0, <1>4, ExceptMoves DEF Task
  <2> QED
    BY <1>4, <2>1, MoveCalm DEF Tracked, Notifying, InHandler, Moves
<1> QED
  BY <1>1, <1>2, <1>3, <1>4 DEF Abandon

\* A step of a task that leaves the rest of the process alone.
LEMMA CalmStep ==
  ASSUME StopInv, Calm(task, task', open), UNCHANGED <<open, active, stop, ssh, cut>>
  PROVE  StopInv'
<1>1. /\ In(task', Tracked) = In(task, Tracked) /\ In(task', Notifying) = In(task, Notifying)
      /\ Handled(task', open)
  BY CalmKeeps DEF StopInv
<1> QED
  BY <1>1 DEF StopInv, StopTyped, Drained, Waits, stop

LEMMA MoveStep ==
  ASSUME StopInv, task \in [Connection -> Task], NEW r \in Connection, NEW v \in Task,
         task' = [task EXCEPT ![r] = v], UNCHANGED <<open, active, stop, ssh, cut>>,
         v \in Tracked <=> task[r] \in Tracked, v \in Notifying <=> task[r] \in Notifying,
         v \in InHandler => task[r] \in InHandler \/ r \in open
  PROVE  StopInv'
<1>1. Moves(task, task', r, v)
  BY ExceptMoves
<1> QED
  BY <1>1, MoveCalm, CalmStep

\* An operation begins: only before the stop has seen them all end.
LEMMA BeginStep ==
  ASSUME StopInv, task \in [Connection -> Task], NEW r \in Connection, NEW v \in {"inline", "lfs"},
         task[r] \notin Tracked \cup Notifying, task[r] \in InHandler \/ r \in open,
         active' = active + 1, task' = [task EXCEPT ![r] = v], UNCHANGED <<open, stop, ssh, cut>>
  PROVE  StopInv'
<1>1. Moves(task, task', r, v)
  BY ExceptMoves DEF Task
<1>2. r \in open
  BY DEF StopInv, Handled, In
<1>3. v \in Tracked /\ v \notin Notifying
  BY DEF Tracked, Notifying
<1>4. active = Cardinality(In(task, Tracked)) /\ active \in Nat
  BY Counted DEF StopInv
<1>5. Cardinality(In(task', Tracked)) = active'
  BY <1>1, <1>3, <1>4, MovedCount
<1>6. Handled(task', open)
  BY <1>1, <1>2 DEF Moves, StopInv, Handled, In
<1>7. Drained'
  BY <1>2 DEF StopInv, Drained, stop
<1>8. Waits'
  <2>1. active' > 0
    BY <1>4
  <2> QED
    BY <2>1 DEF StopInv, Waits, stop
<1> QED
  BY <1>5, <1>6, <1>7, <1>8 DEF StopInv, StopTyped, stop

\* The guard is dropped: if it was the last one, it goes on to notify.
LEMMA ReleaseStep ==
  ASSUME StopInv, task \in [Connection -> Task], NEW r \in Connection, Release(r)
  PROVE  StopInv'
<1>1. PICK v \in Task :
        /\ task' = [task EXCEPT ![r] = v]
        /\ v \notin Tracked /\ v \notin InHandler
        /\ active = 1 => v \in Notifying
        /\ active # 1 => v \notin Notifying
  BY DEF Release, Task, Tracked, InHandler, Notifying
<1>2. Moves(task, task', r, v)
  BY <1>1, ExceptMoves
<1>3. task[r] \in Tracked /\ task[r] \notin Notifying /\ task[r] \notin InHandler
  BY DEF Release, Tracked, Notifying, InHandler
<1>4. active = Cardinality(In(task, Tracked)) /\ active \in Nat /\ active # 0
  <2>1. IsFiniteSet(In(task, Tracked)) /\ r \in In(task, Tracked)
    BY <1>3, Counted DEF In
  <2> QED
    BY <2>1, FS_EmptySet, Counted DEF StopInv
<1>5. Cardinality(In(task', Tracked)) = active - 1
  BY <1>1, <1>2, <1>3, <1>4, MovedCount
<1>6. Handled(task', open)
  BY <1>1, <1>2 DEF Moves, StopInv, Handled, In
<1>7. active' = active - 1 /\ UNCHANGED <<open, stop, ssh, cut>>
  BY DEF Release
<1>8. Drained'
  BY <1>3, <1>7 DEF StopInv, Drained, stop, In
<1>9. Waits'
  <2>1. CASE active = 1
    <3>1. r \in In(task', Notifying)
      BY <1>1, <1>2, <2>1 DEF Moves, In
    <3> QED
      BY <1>7, <3>1 DEF StopInv, Waits, stop
  <2>2. CASE active # 1
    <3>1. active' > 0
      BY <1>4, <1>7, <2>2
    <3> QED
      BY <1>7, <3>1 DEF StopInv, Waits, stop
  <2> QED
    BY <2>1, <2>2
<1> QED
  BY <1>5, <1>6, <1>7, <1>8, <1>9 DEF StopInv, StopTyped, stop

\* Whoever listens is told.
LEMMA NotifyStep ==
  ASSUME StopInv, task \in [Connection -> Task], NEW r \in Connection, Notify(r)
  PROVE  StopInv'
<1>1. PICK v \in Task : task' = [task EXCEPT ![r] = v] /\ v \notin Tracked \cup InHandler
  BY DEF Notify, Task, Tracked, InHandler
<1>2. Moves(task, task', r, v) /\ task[r] \notin Tracked
  BY <1>1, ExceptMoves DEF Notify, Tracked
<1>3. In(task', Tracked) = In(task, Tracked)
  BY <1>1, <1>2, MovedCount
<1>4. Handled(task', open)
  BY <1>1, <1>2 DEF Moves, StopInv, Handled, In
<1>5. UNCHANGED <<open, active, phase, waiter, expired, ssh, cut>>
  BY DEF Notify
<1>6. Waits' /\ woken' \in BOOLEAN
  BY DEF StopInv, StopTyped, Waits, Notify, Listening
<1> QED
  BY <1>3, <1>4, <1>5, <1>6 DEF StopInv, StopTyped, Drained

\* A connection is opened, or closed with nothing left in its handler.
LEMMA OpenStep ==
  ASSUME StopInv, NEW r \in Connection, Connect(r) \/ CloseConnection(r) \/ Disconnect(r),
         Slotted(permits, queue, task)
  PROVE  StopInv'
<1>1. CASE Connect(r)
  BY <1>1 DEF Connect, StopInv, StopTyped, Handled, Drained, Waits, stop
<1>2. CASE CloseConnection(r)
  BY <1>2 DEF CloseConnection, StopInv, StopTyped, Handled, In, Drained, Waits, stop
<1>3. CASE Disconnect(r)
  <2>1. open' = open \ {r} /\ UNCHANGED <<active, stop, ssh, cut>>
    BY <1>3 DEF Disconnect
  <2>2. Calm(task, task', {}) /\ task'[r] \notin InHandler
    BY <1>3, AbandonCalm DEF Disconnect, Calm
  <2>3. In(task', Tracked) = In(task, Tracked) /\ In(task', Notifying) = In(task, Notifying)
    BY <2>2, CalmKeeps
  <2>4. Handled(task', open')
    BY <2>1, <2>2 DEF StopInv, Handled, In, Calm
  <2> QED
    BY <2>1, <2>3, <2>4 DEF StopInv, StopTyped, Drained, Waits, stop
<1> QED
  BY <1>1, <1>2, <1>3

\* The steps of main and of wait_idle.
LEMMA MainStep ==
  ASSUME StopInv, Signal \/ HttpDone \/ Wait \/ GraceExpires
  PROVE  StopInv'
<1>1. CASE Signal
  BY <1>1 DEF Signal, StopInv, StopTyped, Drained, Waits
<1>2. CASE HttpDone
  BY <1>2 DEF HttpDone, StopInv, StopTyped, Drained, Waits
<1>3. CASE WaitArm
  BY <1>3 DEF WaitArm, StopInv, StopTyped, Drained, Waits
<1>4. CASE WaitCheck
  <2>1. CASE active = 0
    <3>1. In(task, Tracked) = {}
      BY <2>1, Counted, FS_EmptySet DEF StopInv
    <3> QED
      BY <1>4, <2>1, <3>1 DEF WaitCheck, StopInv, StopTyped, Drained, Waits
  <2>2. CASE active # 0
    <3>1. active > 0
      BY <2>2, Counted DEF StopInv
    <3> QED
      BY <1>4, <2>2, <3>1 DEF WaitCheck, StopInv, StopTyped, Drained, Waits
  <2> QED
    BY <2>1, <2>2
<1>5. CASE WaitSleep
  BY <1>5 DEF WaitSleep, StopInv, StopTyped, Drained, Waits
<1>6. CASE WaitWake
  BY <1>6 DEF WaitWake, StopInv, StopTyped, Drained, Waits
<1>7. CASE GraceExpires
  BY <1>7 DEF GraceExpires, StopInv, StopTyped, Drained, Waits
<1> QED
  BY <1>1, <1>2, <1>3, <1>4, <1>5, <1>6, <1>7 DEF Wait

\* The process ends: a stop that was not cut short leaves nothing to cut off.
LEMMA ExitStep ==
  ASSUME StopInv, Exit
  PROVE  StopInv'
<1>1. \A r \in Connection : task'[r] = "none"
  BY DEF Exit
<1>2. In(task', Tracked) = {} /\ In(task', InHandler) = {}
  BY <1>1 DEF In, Tracked, InHandler
<1>3. active' = Cardinality(In(task', Tracked))
  BY <1>2, FS_EmptySet DEF Exit
<1>4. ~expired => cut' = {}
  BY DEF Exit, StopInv, Drained, Handled, In, Tracked
<1>5. Drained' /\ Waits' /\ StopTyped'
  BY <1>4 DEF Exit, StopInv, StopTyped, Drained, Waits
<1> QED
  BY <1>2, <1>3, <1>5 DEF StopInv, Handled

LEMMA StopStep ==
  ASSUME StopInv, Slotted(permits, queue, task), [SlotsNext]_slotsVars
  PROVE  StopInv'
<1>0. task \in [Connection -> Task]
  BY DEF Slotted
<1>1. ASSUME NEW r \in Connection, Client(r) \/ Busy(r) \/ Progress(r)
      PROVE  StopInv'
  <2>1. CASE Connect(r) \/ CloseConnection(r) \/ Disconnect(r)
    BY <2>1, OpenStep
  <2>2. CASE Acquire(r)
    BY <1>0, <2>2, MoveStep DEF Acquire, Task, Tracked, Notifying, InHandler
  <2>3. CASE LfsBegin(r)
    BY <1>0, <2>3, BeginStep DEF LfsBegin, Tracked, Notifying
  <2>4. CASE Begin(r)
    BY <1>0, <2>4, BeginStep DEF Begin, Tracked, Notifying, InHandler
  <2>5. CASE LfsEnd(r)
    BY <1>0, <2>5, MoveStep DEF LfsEnd, Task, Tracked, Notifying, InHandler
  <2>6. CASE Busy(r)
    <3>1. Calm(task, task', open)
      BY <1>0, <2>6, LeaveQueueCalm DEF Busy, Calm
    <3> QED
      BY <2>6, <3>1, CalmStep DEF Busy
  <2>7. CASE Detach(r)
    BY <1>0, <2>7, MoveStep DEF Detach, Task, Tracked, Notifying, InHandler
  <2>8. CASE InlineDone(r)
    BY <1>0, <2>8, MoveStep DEF InlineDone, Task, Tracked, Notifying, InHandler
  <2>9. CASE ChildExit(r)
    BY <1>0, <2>9, MoveStep DEF ChildExit, Task, Tracked, Notifying, InHandler
  <2>10. CASE PostReceive(r)
    BY <1>0, <2>10, MoveStep DEF PostReceive, Task, Tracked, Notifying, InHandler
  <2>11. CASE Release(r)
    BY <1>0, <2>11, ReleaseStep
  <2>12. CASE Notify(r)
    BY <1>0, <2>12, NotifyStep
  <2>13. CASE ReturnPermit(r)
    <3>1. Calm(task, task', open)
      BY <2>13, HandOverCalm DEF ReturnPermit, Calm
    <3> QED
      BY <2>13, <3>1, CalmStep DEF ReturnPermit
  <2> QED
    BY <1>1, <2>1, <2>2, <2>3, <2>4, <2>5, <2>6, <2>7, <2>8, <2>9, <2>10, <2>11, <2>12,
       <2>13 DEF Client, Progress
<1>2. CASE Signal \/ HttpDone \/ Wait \/ GraceExpires
  BY <1>2, MainStep
<1>3. CASE Exit
  BY <1>3, ExitStep
<1>4. CASE \E s \in Ssh : SshStart(s) \/ SshExit(s)
  BY <1>4 DEF SshStart, SshExit, StopInv, StopTyped, Drained, Waits, stop
<1>5. CASE UNCHANGED slotsVars
  BY <1>5 DEF slotsVars, StopInv, StopTyped, Drained, Waits
<1> QED
  BY <1>1, <1>2, <1>3, <1>4, <1>5 DEF SlotsNext

LEMMA AlwaysStopInv == SlotsSpec => []StopInv
<1>1. SlotsInit => StopInv
  <2> SUFFICES ASSUME SlotsInit PROVE StopInv
    OBVIOUS
  <2>1. In(task, Tracked) = {} /\ In(task, InHandler) = {}
    BY DEF SlotsInit, In, Tracked, InHandler
  <2>2. active = Cardinality(In(task, Tracked))
    BY <2>1, FS_EmptySet DEF SlotsInit
  <2> QED
    BY <2>1, <2>2 DEF SlotsInit, StopInv, StopTyped, Handled, Drained, Waits
<1>2. StopInv /\ Slotted(permits, queue, task) /\ [SlotsNext]_slotsVars => StopInv'
  BY StopStep
<1> QED
  BY <1>1, <1>2, AlwaysSlotted, PTL DEF SlotsSpec

\* Every variable keeps its type: the permits stay between 0 and Slots and
\* the counter of active operations never wraps below zero.
THEOREM SlotsTyped == SlotsSpec => []SlotsTypeOK
<1>1. Slotted(permits, queue, task) /\ StopInv => SlotsTypeOK
  <2> SUFFICES ASSUME Slotted(permits, queue, task), StopInv PROVE SlotsTypeOK
    OBVIOUS
  <2>1. permits \in 0..Slots
    BY Counted, SlotsAssumption DEF Slotted
  <2>2. active \in 0..Cardinality(Connection)
    <3>1. In(task, Tracked) \in SUBSET Connection
      BY DEF In
    <3>2. /\ Cardinality(In(task, Tracked)) <= Cardinality(Connection)
          /\ Cardinality(In(task, Tracked)) \in Nat /\ Cardinality(Connection) \in Nat
      BY <3>1, ConnectionAssumption, FS_Subset, FS_CardinalityType
    <3> QED
      BY <3>2 DEF StopInv
  <2>3. queue \in Seq(Connection) /\ task \in [Connection -> Task]
    BY DEF Slotted, Lined
  <2> QED
    BY <2>1, <2>2, <2>3 DEF SlotsTypeOK, StopInv, StopTyped
<1> QED
  BY <1>1, AlwaysSlotted, AlwaysStopInv, PTL

\* A stop within the grace period cuts nothing off: no git child is killed
\* and no push misses its post_receive (main's drain, then wait_idle).
THEOREM StopIsGraceful == SlotsSpec => []GracefulStop
<1>1. StopInv => GracefulStop
  BY DEF StopInv, Drained, GracefulStop
<1> QED
  BY <1>1, AlwaysStopInv, PTL

\* The notification of the last operation is not lost between wait_idle's
\* look at the counter and its sleep.
THEOREM WakeUpAlwaysKept == SlotsSpec => []WakeUpKept
<1>1. StopInv => WakeUpKept
  BY DEF StopInv, Waits, WakeUpKept, With, In, Notifying
<1> QED
  BY <1>1, AlwaysStopInv, PTL

-----------------------------------------------------------------------------
(* HEAD and the default branch.                                             *)
(*                                                                          *)
(* HEAD and the recorded branch may be gone for a while: another push has   *)
(* deleted them.  HeadInv says who owes the correction.  For HEAD, a push   *)
(* that has yet to look, has seen a name that is no branch and goes on to   *)
(* look for one, or is about to set one; for the record, any push at work.  *)
(* Where nobody does, torn is still set, and will be until a push has       *)
(* looked after the disturbance.  What a push may set besides a branch is   *)
(* what git prints for one beside a tag of its name (Misnamed).             *)

\* A push that has seen this goes on to look for another branch, and finds
\* one if there is any.
LooksOn(seen) == seen = None \/ (~Born(seen) /\ seen \notin ShortRefs)

\* The push q will move a HEAD that is gone.
Owes(q) ==
  /\ q.kind = "push"
  /\ \/ q.pc \in {"receive", "head", "set"}
     \/ q.pc \in {"check", "master", "main", "recent"} /\ LooksOn(q.seen)

\* HEAD is not what a push may leave in a repository with branches.
Gone == ~Born(head) /\ ~Misnamed(head) /\ refs # {}

HeadOwed ==
  Gone =>
    \/ \E r \in Req : Owes(req[r])
    \/ torn /\ \A r \in Req : ~req[r].mends

RecordOwed ==
  ~Sound("record", recorded) =>
    torn \/ \E r \in Req : req[r].kind = "push" /\ req[r].pc # "idle"

\* What is about to become HEAD or to be recorded is a branch, unless it was
\* deleted since.
PickKnown(q) ==
  /\ q.pc \in {"set", "record"} => Sound(q.pc, q.pick) \/ q.lost
  /\ q.pc = "set" => q.pick # None

HeadInv ==
  /\ TypeOK
  /\ \A r \in Req : PickKnown(req[r])
  /\ HeadOwed /\ RecordOwed

\* The names of a branch, and what git makes of them.
LEMMA NamesOfBranches ==
  /\ None \notin Printed /\ Chosen \subseteq Printed
  /\ \A b \in Branch : Plain(b) \in Chosen /\ Heads(b) \in Chosen
  /\ \A name \in Chosen : \E b \in Branch : name = Plain(b) \/ name = Heads(b)
  /\ \A b, c : (Plain(b) = Plain(c) => b = c) /\ (Heads(b) = Heads(c) => b = c)
  /\ \A b, c : Plain(b) # Heads(c)
BY NameAssumption DEF Printed, Chosen, Plain, Heads

LEMMA ShortOfPlain ==
  ASSUME NEW b
  PROVE  /\ b \in tags => Short(Plain(b)) = Heads(b)
         /\ b \notin tags => Short(Plain(b)) = Plain(b)
BY NamesOfBranches DEF Short, Plain, Heads

\* What for-each-ref prints may become HEAD.
LEMMA ShortIsSound ==
  ASSUME refs \subseteq Branch, NEW name \in ShortRefs
  PROVE  name \in Chosen /\ name # None /\ Sound("set", name)
<1>1. PICK b \in refs : name = Short(Plain(b))
  BY DEF ShortRefs
<1>2. CASE b \in tags
  <2>1. name = Heads(b) /\ Misnamed(name)
    BY <1>1, <1>2, ShortOfPlain DEF Misnamed
  <2> QED
    BY <2>1, NamesOfBranches DEF Sound
<1>3. CASE b \notin tags
  <2>1. name = Plain(b) /\ Born(name)
    BY <1>1, <1>3, ShortOfPlain DEF Born
  <2> QED
    BY <2>1, NamesOfBranches DEF Sound
<1> QED
  BY <1>2, <1>3

\* A look at a HEAD that is gone leads on.
LEMMA LookLeadsOn ==
  ASSUME refs \subseteq Branch, head \in Chosen
  PROVE  Short(head) \in Printed /\ (Gone => LooksOn(Short(head)))
<1>1. PICK b \in Branch : head = Plain(b) \/ head = Heads(b)
  BY NamesOfBranches
<1>2. \A name \in ShortRefs : \E c \in refs :
         \/ c \in tags /\ name = Heads(c)
         \/ c \notin tags /\ name = Plain(c)
  <2> SUFFICES ASSUME NEW name \in ShortRefs
               PROVE  \E c \in refs : \/ c \in tags /\ name = Heads(c)
                                      \/ c \notin tags /\ name = Plain(c)
    OBVIOUS
  <2>1. PICK c \in refs : name = Short(Plain(c))
    BY DEF ShortRefs
  <2> QED
    BY <2>1, ShortOfPlain
<1>3. CASE head = Plain(b)
  <2>1. Short(head) = IF b \in tags THEN Heads(b) ELSE Plain(b)
    BY <1>3, ShortOfPlain
  <2>2. Gone => b \notin refs
    BY <1>3 DEF Gone, Born
  <2> QED
    BY <1>2, <2>1, <2>2, NamesOfBranches DEF LooksOn, Born
<1>4. CASE head = Heads(b)
  <2>1. Short(head) = IF b \in refs THEN <<2, b>> ELSE Heads(b)
    BY <1>4, NamesOfBranches DEF Short, Heads
  <2>2. Gone => b \notin refs \cap tags
    BY <1>4 DEF Gone, Misnamed
  <2>3. <<2, b>> \in Printed /\ \A c : <<2, b>> # Plain(c) /\ <<2, b>> # Heads(c)
    BY DEF Printed, Plain, Heads
  <2> QED
    BY <1>2, <2>1, <2>2, <2>3, NamesOfBranches DEF LooksOn, Born
<1> QED
  BY <1>1, <1>3, <1>4

\* Names mean what they did while no ref changes.
LEMMA SameNames ==
  ASSUME refs' = refs, tags' = tags
  PROVE  /\ ShortRefs' = ShortRefs
         /\ \A n : Born(n)' = Born(n) /\ Misnamed(n)' = Misnamed(n)
         /\ \A n : Resolves(n)' = Resolves(n)
         /\ \A n : LooksOn(n)' = LooksOn(n)
         /\ \A pc, n : Sound(pc, n)' = Sound(pc, n)
<1>1. ShortRefs' = ShortRefs
  BY DEF ShortRefs, Short
<1>2. \A n : Born(n)' = Born(n) /\ Misnamed(n)' = Misnamed(n) /\ Resolves(n)' = Resolves(n)
  BY DEF Born, Misnamed, Resolves
<1> QED
  BY <1>1, <1>2 DEF LooksOn, Sound
\* Request r goes on as a request with these fields.
Becomes(r, kind, pc, seen, pick, mends, lost) ==
  /\ req' \in [Req -> Request]
  /\ \A p \in Req : p # r => req'[p] = req[p]
  /\ req'[r].kind = kind /\ req'[r].pc = pc
  /\ req'[r].seen = seen /\ req'[r].pick = pick
  /\ req'[r].mends = mends /\ req'[r].lost = lost

LEMMA GotoBecomes ==
  ASSUME req \in [Req -> Request], NEW r \in Req, NEW pc \in Pc, Goto(r, pc)
  PROVE  Becomes(r, req[r].kind, pc, req[r].seen, req[r].pick, req[r].mends, req[r].lost)
BY DEF Goto, Becomes, Request

LEMMA ChooseBecomes ==
  ASSUME req \in [Req -> Request], NEW r \in Req, NEW b \in Chosen \cup {None},
         NEW pc \in Pc, Choose(r, b, pc)
  PROVE  Becomes(r, req[r].kind, pc, req[r].seen, b, req[r].mends, req[r].lost)
BY DEF Choose, Becomes, Request

LEMMA LookBecomes ==
  ASSUME req \in [Req -> Request], NEW r \in Req, NEW b \in Printed \cup {None}, NEW pc \in Pc,
         req' = [req EXCEPT ![r].seen = b, ![r].mends = TRUE, ![r].pc = pc]
  PROVE  Becomes(r, req[r].kind, pc, b, req[r].pick, TRUE, req[r].lost)
<1>1. PICK q : q = [req[r] EXCEPT !.seen = b, !.mends = TRUE, !.pc = pc]
  OBVIOUS
<1>2. /\ q \in Request /\ q.kind = req[r].kind /\ q.pc = pc /\ q.seen = b
      /\ q.pick = req[r].pick /\ q.mends = TRUE /\ q.lost = req[r].lost
  BY <1>1 DEF Request
<1>3. req' = [req EXCEPT ![r] = q]
  BY <1>1
<1> HIDE DEF Request
<1>4. req' \in [Req -> Request]
  BY <1>2, <1>3
<1>5. req'[r] = q /\ \A p \in Req : p # r => req'[p] = req[p]
  BY <1>3
<1> QED
  BY <1>2, <1>4, <1>5 DEF Becomes

LEMMA IdleIsRequest ==
  /\ Idle \in Request
  /\ Idle.kind = "push" /\ Idle.pc = "idle" /\ Idle.seen = None /\ Idle.pick = None
  /\ Idle.mends = FALSE /\ Idle.lost = FALSE
BY DEF Idle, Request, Pc

LEMMA IdleBecomes ==
  ASSUME req \in [Req -> Request], NEW r \in Req, req' = [req EXCEPT ![r] = Idle]
  PROVE  Becomes(r, "push", "idle", None, None, FALSE, FALSE)
BY IdleIsRequest DEF Becomes

LEMMA UpdateBecomes ==
  ASSUME req \in [Req -> Request], NEW r \in Req, NEW b \in Chosen,
         req' = [req EXCEPT ![r] = [Idle EXCEPT !.kind = "update", !.pc = "verify", !.pick = b]]
  PROVE  Becomes(r, "update", "verify", None, b, FALSE, FALSE)
<1> DEFINE q == [Idle EXCEPT !.kind = "update", !.pc = "verify", !.pick = b]
<1>1. /\ q \in Request /\ q.kind = "update" /\ q.pc = "verify" /\ q.seen = None
      /\ q.pick = b /\ q.mends = FALSE /\ q.lost = FALSE
  BY DEF Idle, Request, Pc
<1>2. req' = [req EXCEPT ![r] = q]
  OBVIOUS
<1> HIDE DEF q
<1> QED
  BY <1>1, <1>2 DEF Becomes

\* A request moves on and touches neither the repository nor the row: it
\* keeps what it owes, and a look at an unborn HEAD makes it owe.
LEMMA Moved ==
  ASSUME HeadInv, NEW r \in Req, req' \in [Req -> Request],
         \A p \in Req : p # r => req'[p] = req[p],
         UNCHANGED <<refs, tags, head, recorded, archived, torn>>, PickKnown(req[r])',
         Gone => (Owes(req[r]) => Owes(req[r])'),
         Gone => (req'[r].mends => req[r].mends \/ Owes(req[r])'),
         req[r].kind = "push" /\ req[r].pc # "idle" => req'[r].kind = "push" /\ req'[r].pc # "idle"
  PROVE  HeadInv'
<1>1. TypeOK'
  BY DEF HeadInv, TypeOK
<1>0. Gone' = Gone
  BY SameNames DEF Gone
<1>2. \A p \in Req : PickKnown(req[p])'
  BY SameNames DEF HeadInv, PickKnown
<1>3. HeadOwed'
  <2> SUFFICES ASSUME Gone
               PROVE  \/ \E p \in Req : Owes(req[p])'
                      \/ torn /\ \A p \in Req : ~req'[p].mends
    BY <1>0 DEF HeadOwed
  <2>1. \A p \in Req : Owes(req[p]) => Owes(req[p])'
    BY SameNames DEF Owes
  <2>2. CASE \E p \in Req : Owes(req[p])
    BY <2>1, <2>2
  <2>3. CASE torn /\ \A p \in Req : ~req[p].mends
    BY <2>3
  <2> QED
    BY <2>2, <2>3 DEF HeadInv, HeadOwed
<1>4. RecordOwed'
  BY SameNames DEF HeadInv, RecordOwed
<1> QED
  BY <1>1, <1>2, <1>3, <1>4 DEF HeadInv

LEMMA MovesOn ==
  ASSUME HeadInv, NEW r \in Req, NEW pc, NEW seen, NEW pick, NEW mends,
         Becomes(r, req[r].kind, pc, seen, pick, mends, req[r].lost),
         UNCHANGED <<refs, tags, head, recorded, archived, torn>>,
         pc \in {"set", "record"} => Sound(pc, pick) \/ req[r].lost,
         pc = "set" => pick # None,
         Gone /\ (Owes(req[r]) \/ (mends /\ ~req[r].mends))
           => /\ req[r].kind = "push"
              /\ \/ pc \in {"receive", "head", "set"}
                 \/ pc \in {"check", "master", "main", "recent"} /\ LooksOn(seen),
         req[r].kind = "push" => pc # "idle"
  PROVE  HeadInv'
<1>1. /\ req' \in [Req -> Request] /\ \A p \in Req : p # r => req'[p] = req[p]
      /\ req'[r].kind = req[r].kind /\ req'[r].pc = pc /\ req'[r].seen = seen
      /\ req'[r].pick = pick /\ req'[r].mends = mends /\ req'[r].lost = req[r].lost
  BY DEF Becomes
<1>2. PickKnown(req[r])'
  BY <1>1, SameNames DEF PickKnown
<1>3. Gone /\ (Owes(req[r]) \/ (mends /\ ~req[r].mends)) => Owes(req[r])'
  BY <1>1, SameNames DEF Owes
<1> QED
  BY <1>1, <1>2, <1>3, Moved

\* A request that owes nothing ends, or an update begins.
LEMMA Settles ==
  ASSUME HeadInv, NEW r \in Req, NEW kind, NEW pc, NEW pick,
         Becomes(r, kind, pc, None, pick, FALSE, FALSE), pc \in {"idle", "verify"},
         UNCHANGED <<refs, tags, head, recorded, archived, torn>>,
         ~(req[r].kind = "push" /\ req[r].pc # "idle")
  PROVE  HeadInv'
<1>1. /\ req' \in [Req -> Request] /\ \A p \in Req : p # r => req'[p] = req[p]
      /\ req'[r].pc = pc /\ req'[r].mends = FALSE
  BY DEF Becomes
<1>2. PickKnown(req[r])'
  BY <1>1 DEF PickKnown
<1>3. ~Owes(req[r])
  BY DEF Owes
<1> QED
  BY <1>1, <1>2, <1>3, Moved

\* A request becomes q, and nobody who has looked so far mends anything.
LEMMA DisturbStep ==
  ASSUME HeadInv, NEW r \in Req, NEW q \in Request, Disturb(r, q), ~q.mends, PickKnown(q),
         refs' = refs, tags' = tags, head' \in Chosen, recorded' \in Chosen \cup {None},
         archived' = archived
  PROVE  HeadInv'
<1>1. req \in [Req -> Request]
  BY DEF HeadInv, TypeOK
<1>2. \A p \in Req : [req[p] EXCEPT !.mends = FALSE] \in Request
  BY <1>1 DEF Request
<1>3. req' \in [Req -> Request]
  BY <1>1, <1>2 DEF Disturb
<1>4. \A p \in Req : /\ ~[req[p] EXCEPT !.mends = FALSE].mends
                     /\ [req[p] EXCEPT !.mends = FALSE].pc = req[p].pc
                     /\ [req[p] EXCEPT !.mends = FALSE].pick = req[p].pick
                     /\ [req[p] EXCEPT !.mends = FALSE].lost = req[p].lost
  BY <1>1 DEF Request
<1>5. \A p \in Req : req'[p] = IF p = r THEN q ELSE [req[p] EXCEPT !.mends = FALSE]
  BY DEF Disturb
<1>6. torn' = TRUE /\ \A p \in Req : ~req'[p].mends
  BY <1>4, <1>5 DEF Disturb
<1>7. \A p \in Req : PickKnown(req[p])'
  <2> SUFFICES ASSUME NEW p \in Req PROVE PickKnown(req[p])'
    OBVIOUS
  <2>1. CASE p = r
    BY <1>5, <2>1, SameNames DEF PickKnown
  <2>2. CASE p # r
    <3>1. PickKnown(req[p])
      BY DEF HeadInv
    <3>2. /\ req'[p].pc = req[p].pc /\ req'[p].pick = req[p].pick
          /\ req'[p].lost = req[p].lost
      BY <1>4, <1>5, <2>2
    <3> QED
      BY <3>1, <3>2, SameNames DEF PickKnown
  <2> QED
    BY <2>1, <2>2
<1> QED
  BY <1>3, <1>6, <1>7 DEF HeadInv, TypeOK, HeadOwed, RecordOwed

\* A name that is chosen stays sound while refs come; while one goes, unless it
\* is of that branch or tag.
LEMMA SoundStays ==
  ASSUME NEW pc, NEW pick \in Chosen \cup {None}, Sound(pc, pick), NEW b,
         \/ refs \subseteq refs' /\ tags \subseteq tags'
         \/ /\ refs \ {b} \subseteq refs' /\ tags \ {b} \subseteq tags'
            /\ pick \notin {Plain(b), Heads(b)}
  PROVE  Sound(pc, pick)'
<1>1. CASE pick = None
  BY <1>1 DEF Sound
<1>2. CASE pick # None
  <2>1. pick = <<pick[1], pick[2]>> /\ pick[1] \in {0, 1}
    BY <1>2 DEF Chosen
  <2>2. pick[2] = b => pick \in {Plain(b), Heads(b)}
    BY <2>1 DEF Plain, Heads
  <2>3. /\ pick[2] \in refs => pick[2] \in refs'
        /\ pick[2] \in tags => pick[2] \in tags'
    BY <2>2
  <2> QED
    BY <1>2, <2>1, <2>3 DEF Sound, Born, Misnamed, Resolves
<1> QED
  BY <1>1, <1>2

\* A push creates or deletes a branch or a tag: it is still to look, so it owes
\* all.
LEMMA ReceiveStep ==
  ASSUME HeadInv, NEW r \in Req, Receive(r)
  PROVE  HeadInv'
<1>1. /\ req \in [Req -> Request] /\ refs \subseteq Branch /\ tags \subseteq Tags
      /\ \A p \in Req : req[p].pick \in Chosen \cup {None}
  BY DEF HeadInv, TypeOK, Request
<1>2. /\ req[r].kind = "push" /\ req[r].pc = "receive"
      /\ UNCHANGED <<head, recorded, archived, torn>>
  BY DEF Receive, At, row
<1>3. PICK b \in Branch :
        /\ refs' \subseteq Branch /\ tags' \subseteq Tags
        /\ \/ refs \subseteq refs' /\ tags \subseteq tags' /\ UNCHANGED req
           \/ refs \ {b} \subseteq refs' /\ tags \ {b} \subseteq tags' /\ Lose(b)
  <2>1. CASE /\ \E b \in Branch : \/ refs' = refs \cup {b} /\ UNCHANGED req
                                  \/ Deletes /\ refs' = refs \ {b} /\ Lose(b)
             /\ UNCHANGED tags
    BY <1>1, <2>1
  <2>2. CASE /\ \E b \in Tags : \/ tags' = tags \cup {b} /\ UNCHANGED req
                                \/ Deletes /\ tags' = tags \ {b} /\ Lose(b)
             /\ UNCHANGED refs
    BY <1>1, <2>2, NameAssumption
  <2> QED
    BY <2>1, <2>2 DEF Receive
<1>4. CASE refs \subseteq refs' /\ tags \subseteq tags' /\ UNCHANGED req
  <2>1. Owes(req[r])'
    BY <1>2, <1>4 DEF Owes
  <2>2. \A p \in Req : PickKnown(req[p])'
    <3> SUFFICES ASSUME NEW p \in Req PROVE PickKnown(req[p])'
      OBVIOUS
    <3>1. PickKnown(req[p]) /\ req'[p] = req[p]
      BY <1>4 DEF HeadInv
    <3> QED
      BY <1>1, <1>4, <3>1, SoundStays DEF PickKnown
  <2> QED
    BY <1>1, <1>2, <1>3, <1>4, <2>1, <2>2 DEF HeadInv, TypeOK, HeadOwed, RecordOwed
<1>5. CASE refs \ {b} \subseteq refs' /\ tags \ {b} \subseteq tags' /\ Lose(b)
  <2>1. \A p \in Req :
          LET q == [req[p] EXCEPT !.lost = TRUE]
          IN  /\ q \in Request /\ q.kind = req[p].kind /\ q.pc = req[p].pc
              /\ q.pick = req[p].pick /\ q.lost
    BY <1>1 DEF Request
  <2> DEFINE Lost(p) == req[p].pc \in {"set", "record"} /\ req[p].pick \in {Plain(b), Heads(b)}
  <2>2. \A p \in Req : req'[p] = IF Lost(p) THEN [req[p] EXCEPT !.lost = TRUE] ELSE req[p]
    BY <1>5 DEF Lose
  <2>3. req' \in [Req -> Request]
    BY <1>1, <1>5, <2>1 DEF Lose
  <2>4. req'[r] = req[r]
    BY <1>2, <2>2
  <2>5. Owes(req[r])'
    BY <1>2, <2>4 DEF Owes
  <2>6. \A p \in Req : PickKnown(req[p])'
    <3> SUFFICES ASSUME NEW p \in Req PROVE PickKnown(req[p])'
      OBVIOUS
    <3>1. PickKnown(req[p])
      BY DEF HeadInv
    <3>2. CASE Lost(p)
      <4>1. req'[p].pc = req[p].pc /\ req'[p].pick = req[p].pick /\ req'[p].lost
        BY <2>1, <2>2, <3>2
      <4> QED
        BY <3>1, <4>1 DEF PickKnown
    <3>3. CASE ~Lost(p)
      <4>1. req'[p] = req[p]
        BY <2>2, <3>3
      <4>2. PICK pc, pick : pc = req[p].pc /\ pick = req[p].pick
        OBVIOUS
      <4>3. pc \in {"set", "record"} /\ Sound(pc, pick) => Sound(pc, pick)'
        BY <1>1, <1>5, <3>3, <4>2, SoundStays
      <4> QED
        BY <3>1, <4>1, <4>2, <4>3 DEF PickKnown
    <3> QED
      BY <3>2, <3>3
  <2>7. HeadOwed' /\ RecordOwed'
    BY <1>2, <2>4, <2>5 DEF HeadOwed, RecordOwed
  <2> QED
    BY <1>1, <1>2, <1>3, <2>3, <2>6, <2>7 DEF HeadInv, TypeOK
<1> QED
  BY <1>3, <1>4, <1>5

\* A probe for a fallback branch: what it finds is about to become HEAD.
LEMMA ProbeStep ==
  ASSUME HeadInv, NEW r \in Req, NEW pc \in {"master", "main"}, NEW b \in Branch,
         NEW next \in {"main", "recent"}, Probe(r, pc, b, next)
  PROVE  HeadInv'
<1>1. /\ req \in [Req -> Request] /\ req[r].kind = "push" /\ req[r].pc = pc
      /\ UNCHANGED <<refs, tags, head, recorded, archived, torn>> /\ None \notin Branch
  BY BranchAssumption DEF HeadInv, TypeOK, Probe, At, repo, row
<1>2. CASE Born(Plain(b)) /\ Choose(r, Plain(b), "set")
  <2>1. Becomes(r, req[r].kind, "set", req[r].seen, Plain(b), req[r].mends, req[r].lost)
    BY <1>1, <1>2, ChooseBecomes, NamesOfBranches DEF Pc
  <2>2. Sound("set", Plain(b)) /\ Plain(b) # None
    BY <1>2, NamesOfBranches DEF Sound
  <2> QED
    BY <1>1, <2>1, <2>2, MovesOn
<1>3. CASE Goto(r, next)
  <2>1. Becomes(r, req[r].kind, next, req[r].seen, req[r].pick, req[r].mends, req[r].lost)
    BY <1>1, <1>3, GotoBecomes DEF Pc
  <2> QED
    BY <1>1, <2>1, MovesOn DEF Owes
<1> QED
  BY <1>2, <1>3 DEF Probe, Answers

LEMMA RecentStep ==
  ASSUME HeadInv, NEW r \in Req, Recent(r)
  PROVE  HeadInv'
<1>1. /\ req \in [Req -> Request] /\ req[r].kind = "push" /\ req[r].pc = "recent"
      /\ UNCHANGED <<refs, tags, head, recorded, archived, torn>>
      /\ refs \subseteq Branch /\ None \notin Branch
  BY BranchAssumption DEF HeadInv, TypeOK, Recent, At, repo, row
<1>2. CASE ShortRefs \ {req[r].seen} = {}
  <2>1. Choose(r, None, "record")
    BY <1>2 DEF Recent
  <2>2. Becomes(r, req[r].kind, "record", req[r].seen, None, req[r].mends, req[r].lost)
    BY <1>1, <2>1, ChooseBecomes DEF Pc
  <2>3. ~(Gone /\ (Owes(req[r]) \/ (req[r].mends /\ ~req[r].mends)))
    <3>1. refs # {} => ShortRefs # {}
      BY DEF ShortRefs
    <3>2. ShortRefs # {} => req[r].seen \in ShortRefs
      BY <1>2
    <3>3. None \notin ShortRefs
      BY <1>1, ShortIsSound
    <3> QED
      BY <1>1, <3>1, <3>2, <3>3 DEF Owes, LooksOn, Gone
  <2>4. /\ "record" \in {"set", "record"} => Sound("record", None) \/ req[r].lost
        /\ "record" # "set" /\ "record" # "idle"
    BY DEF Sound
  <2> QED
    BY <1>1, <2>2, <2>3, <2>4, MovesOn
<1>3. CASE ShortRefs \ {req[r].seen} # {}
  <2>1. PICK name \in ShortRefs : Choose(r, name, "set")
    BY <1>3 DEF Recent
  <2>2. name \in Chosen /\ name # None /\ Sound("set", name)
    BY <1>1, ShortIsSound
  <2>3. Becomes(r, req[r].kind, "set", req[r].seen, name, req[r].mends, req[r].lost)
    BY <1>1, <2>1, <2>2, ChooseBecomes DEF Pc
  <2> QED
    BY <1>1, <2>2, <2>3, MovesOn
<1> QED
  BY <1>2, <1>3

LEMMA PushStep ==
  ASSUME HeadInv, NEW r \in Req, Push(r)
  PROVE  HeadInv'
<1>0. /\ req \in [Req -> Request] /\ head \in Chosen /\ refs \subseteq Branch
      /\ None \notin Branch /\ req[r].seen \in Printed \cup {None}
  BY BranchAssumption DEF HeadInv, TypeOK, Request
<1>1. CASE BeginPush(r)
  <2>1. /\ req[r].kind = "push" /\ Goto(r, "receive")
        /\ UNCHANGED <<refs, tags, head, recorded, archived, torn>>
    BY <1>1, IdleIsRequest DEF BeginPush, repo, row
  <2>2. Becomes(r, req[r].kind, "receive", req[r].seen, req[r].pick, req[r].mends, req[r].lost)
    BY <1>0, <2>1, GotoBecomes DEF Pc
  <2> QED
    BY <2>1, <2>2, MovesOn
<1>2. CASE ReceiveDone(r)
  <2>1. /\ req[r].kind = "push" /\ Goto(r, "head")
        /\ UNCHANGED <<refs, tags, head, recorded, archived, torn>>
    BY <1>2 DEF ReceiveDone, At, repo, row
  <2>2. Becomes(r, req[r].kind, "head", req[r].seen, req[r].pick, req[r].mends, req[r].lost)
    BY <1>0, <2>1, GotoBecomes DEF Pc
  <2> QED
    BY <2>1, <2>2, MovesOn
<1>3. CASE ReadHead(r)
  <2>1. PICK b \in {Short(head), None} :
          req' = [req EXCEPT ![r].seen = b, ![r].mends = TRUE,
                             ![r].pc = IF b = None THEN "master" ELSE "check"]
    BY <1>3 DEF ReadHead
  <2>2. req[r].kind = "push" /\ UNCHANGED <<refs, tags, head, recorded, archived, torn>>
    BY <1>3 DEF ReadHead, At, repo, row
  <2> DEFINE pc == IF b = None THEN "master" ELSE "check"
  <2>3. pc \in Pc /\ pc \in {"check", "master"} /\ b \in Printed \cup {None}
    BY <1>0, <2>1, LookLeadsOn DEF Pc
  <2>4. req' = [req EXCEPT ![r].seen = b, ![r].mends = TRUE, ![r].pc = pc]
    BY <2>1
  <2> HIDE DEF pc
  <2>5. Becomes(r, req[r].kind, pc, b, req[r].pick, TRUE, req[r].lost)
    BY <1>0, <2>3, <2>4, LookBecomes
  <2>6. /\ req' \in [Req -> Request] /\ \A p \in Req : p # r => req'[p] = req[p]
        /\ req'[r].kind = "push" /\ req'[r].pc = pc /\ req'[r].seen = b
    BY <2>2, <2>5 DEF Becomes
  <2>a. Gone => LooksOn(b)
    BY <1>0, <2>1, LookLeadsOn DEF LooksOn
  <2>7. (Gone => Owes(req[r])') /\ PickKnown(req[r])'
    BY <2>2, <2>3, <2>6, <2>a, SameNames DEF Owes, PickKnown
  <2> QED
    BY <2>2, <2>3, <2>6, <2>7, Moved
<1>4. CASE CheckHead(r)
  <2>1. /\ req[r].kind = "push" /\ req[r].pc = "check"
        /\ UNCHANGED <<refs, tags, head, recorded, archived, torn>>
    BY <1>4 DEF CheckHead, At, repo, row
  <2>2. CASE Born(req[r].seen) /\ Choose(r, req[r].seen, "record")
    <3>0. req[r].seen \in Chosen /\ req[r].seen # None
      BY <1>0, <2>2, NamesOfBranches DEF Born
    <3>1. Becomes(r, req[r].kind, "record", req[r].seen, req[r].seen, req[r].mends, req[r].lost)
      BY <1>0, <2>2, <3>0, ChooseBecomes DEF Pc
    <3>2. ~Owes(req[r]) /\ Sound("record", req[r].seen)
      BY <2>1, <2>2, <3>0 DEF Owes, LooksOn, Sound, Born, Resolves
    <3> QED
      BY <2>1, <3>1, <3>2, MovesOn
  <2>3. CASE Goto(r, "master")
    <3>1. Becomes(r, req[r].kind, "master", req[r].seen, req[r].pick, req[r].mends, req[r].lost)
      BY <1>0, <2>3, GotoBecomes DEF Pc
    <3>2. Owes(req[r]) => LooksOn(req[r].seen)
      BY <2>1 DEF Owes
    <3>3. /\ "master" \notin {"set", "record", "idle"}
          /\ "master" \in {"check", "master", "main", "recent"}
      OBVIOUS
    <3> QED
      BY <2>1, <3>1, <3>2, <3>3, MovesOn
  <2>4. Born(req[r].seen) \in BOOLEAN
    BY DEF Born
  <2> QED
    BY <1>4, <2>2, <2>3, <2>4 DEF CheckHead, Answers
<1>5. CASE Probe(r, "master", Master, "main") \/ Probe(r, "main", Main, "recent")
  BY <1>5, ProbeStep, BranchAssumption
<1> QED
  BY <1>1, <1>2, <1>3, <1>4, <1>5, ReceiveStep, RecentStep DEF Push

LEMMA UpdateStep ==
  ASSUME HeadInv, NEW r \in Req, BeginUpdate(r) \/ Verify(r)
  PROVE  HeadInv'
<1>0. req \in [Req -> Request] /\ refs \subseteq Branch /\ None \notin Branch
  BY BranchAssumption DEF HeadInv, TypeOK
<1>1. CASE BeginUpdate(r)
  <2>1. PICK b \in Branch :
          req' = [req EXCEPT ![r] = [Idle EXCEPT !.kind = "update", !.pc = "verify",
                                                 !.pick = Plain(b)]]
    BY <1>1 DEF BeginUpdate
  <2>2. /\ req[r].pc = "idle" /\ req[r].kind = "push"
        /\ UNCHANGED <<refs, tags, head, recorded, archived, torn>>
    BY <1>1, IdleIsRequest DEF BeginUpdate, repo, row
  <2>3. Becomes(r, "update", "verify", None, Plain(b), FALSE, FALSE)
    BY <1>0, <2>1, UpdateBecomes, NamesOfBranches
  <2> QED
    BY <2>2, <2>3, Settles
<1>2. CASE Verify(r)
  <2>1. /\ req[r].kind = "update" /\ req[r].pc = "verify"
        /\ UNCHANGED <<refs, tags, head, recorded, archived, torn>>
    BY <1>2 DEF Verify, At, repo, row
  <2>2. CASE Born(req[r].pick)
    <3>1. Becomes(r, req[r].kind, "set", req[r].seen, req[r].pick, req[r].mends, req[r].lost)
      BY <1>0, <1>2, <2>2, GotoBecomes DEF Verify, Pc
    <3>2. Sound("set", req[r].pick) /\ req[r].pick # None
      BY <1>0, <2>2, NamesOfBranches DEF Sound, Born
    <3> QED
      BY <1>0, <2>1, <3>1, <3>2, MovesOn DEF Owes
  <2>3. CASE ~Born(req[r].pick)
    <3>1. Becomes(r, "push", "idle", None, None, FALSE, FALSE)
      BY <1>0, <1>2, <2>3, IdleBecomes DEF Verify
    <3> QED
      BY <2>1, <3>1, Settles
  <2> QED
    BY <2>2, <2>3
<1> QED
  BY <1>1, <1>2

\* HEAD becomes a branch, or what was deleted since it was chosen.
LEMMA SetHeadStep ==
  ASSUME HeadInv, NEW r \in Req, SetHead(r)
  PROVE  HeadInv'
<1>1. /\ req \in [Req -> Request] /\ req[r] \in Request /\ req[r].pc = "set"
      /\ head' = req[r].pick /\ UNCHANGED <<refs, tags, recorded, archived>>
      /\ recorded \in Chosen \cup {None} /\ refs \subseteq Branch /\ tags \subseteq Tags
      /\ torn \in BOOLEAN
  BY DEF HeadInv, TypeOK, SetHead, row
<1>2. PickKnown(req[r]) /\ req[r].pick # None /\ req[r].pick \in Chosen
  BY <1>1 DEF HeadInv, PickKnown, Request
<1>3. CASE Stale(r)
  <2> DEFINE q == [req[r] EXCEPT !.pc = "record", !.mends = FALSE]
  <2>1. q \in Request /\ q.mends = FALSE /\ q.pc = "record" /\ q.lost = req[r].lost
    BY <1>1 DEF Request, Pc
  <2>2. Disturb(r, q)
    BY <1>3 DEF SetHead
  <2>3. q.lost
    BY <1>3, <2>1 DEF Stale
  <2> HIDE DEF q
  <2>4. PickKnown(q)
    BY <2>1, <2>3 DEF PickKnown
  <2> QED
    BY <1>1, <1>2, <2>1, <2>2, <2>4, DisturbStep
<1>4. CASE ~Stale(r)
  <2>1. Becomes(r, req[r].kind, "record", req[r].seen, req[r].pick, req[r].mends, req[r].lost)
    BY <1>1, <1>4, GotoBecomes DEF SetHead, Pc
  <2>2. /\ Sound("set", req[r].pick) /\ Sound("record", req[r].pick)
        /\ head' \in Chosen /\ ~Gone'
    <3>1. Sound("set", req[r].pick)
      BY <1>1, <1>2, <1>4 DEF Stale, PickKnown
    <3>2. Born(req[r].pick) \/ Misnamed(req[r].pick)
      BY <1>2, <3>1 DEF Sound
    <3>3. Born(head)' \/ Misnamed(head)'
      BY <1>1, <3>2 DEF Born, Misnamed
    <3> QED
      BY <1>1, <1>2, <3>1, <3>2, <3>3 DEF Gone, Sound, Born, Misnamed, Resolves
  <2>3. torn' = torn
    BY <1>4 DEF SetHead
  <2>4. \A p \in Req : PickKnown(req[p])'
    BY <1>1, <2>1, <2>2, SameNames DEF Becomes, HeadInv, PickKnown
  <2>5. TypeOK'
    BY <1>1, <2>1, <2>2, <2>3 DEF Becomes, HeadInv, TypeOK
  <2>6. RecordOwed'
    BY <1>1, <2>1, <2>3, SameNames DEF Becomes, HeadInv, RecordOwed
  <2> QED
    BY <1>1, <2>2, <2>4, <2>5, <2>6 DEF HeadInv, HeadOwed
<1> QED
  BY <1>3, <1>4

LEMMA RecordStep ==
  ASSUME HeadInv, NEW r \in Req, Record(r)
  PROVE  HeadInv'
<1>1. /\ req \in [Req -> Request] /\ req[r] \in Request /\ req[r].pc = "record"
      /\ recorded' = req[r].pick /\ UNCHANGED <<refs, tags, head, archived>>
      /\ head \in Chosen /\ torn \in BOOLEAN
  BY DEF HeadInv, TypeOK, Record, repo
<1>2. PickKnown(req[r]) /\ req[r].pick \in Chosen \cup {None} /\ req[r].mends \in BOOLEAN
  BY <1>1 DEF HeadInv, Request
<1>3. CASE Stale(r)
  <2>1. Disturb(r, Idle) /\ PickKnown(Idle) /\ ~Idle.mends /\ Idle \in Request
    BY <1>3, IdleIsRequest DEF Record, PickKnown
  <2> QED
    BY <1>1, <1>2, <2>1, DisturbStep
<1>4. CASE ~Stale(r)
  <2>1. Becomes(r, "push", "idle", None, None, FALSE, FALSE)
    BY <1>1, <1>4, IdleBecomes DEF Record
  <2>2. Sound("record", recorded)'
    <3>1. Sound("record", req[r].pick)
      BY <1>1, <1>2, <1>4 DEF Stale, PickKnown
    <3> QED
      BY <1>1, <3>1 DEF Sound, Resolves
  <2>3. torn' = (torn /\ ~req[r].mends)
    BY <1>4 DEF Record
  <2>4. \A p \in Req : PickKnown(req[p])'
    BY <1>1, <2>1, SameNames DEF Becomes, HeadInv, PickKnown
  <2>5. TypeOK'
    BY <1>1, <1>2, <2>1, <2>3 DEF Becomes, HeadInv, TypeOK
  <2>6. HeadOwed'
    <3>1. Gone' = Gone
      BY <1>1, SameNames DEF Gone
    <3>2. ~Owes(req[r])
      BY <1>1 DEF Owes
    <3>3. \A p \in Req : p # r /\ Owes(req[p]) => Owes(req[p])'
      BY <1>1, <2>1, SameNames DEF Becomes, Owes
    <3>4. torn /\ (\A p \in Req : ~req[p].mends) => torn' /\ \A p \in Req : ~req'[p].mends
      BY <2>1, <2>3 DEF Becomes
    <3> QED
      BY <3>1, <3>2, <3>3, <3>4 DEF HeadInv, HeadOwed
  <2> QED
    BY <1>1, <2>2, <2>4, <2>5, <2>6 DEF HeadInv, RecordOwed
<1> QED
  BY <1>3, <1>4

LEMMA CutOffStep ==
  ASSUME HeadInv, NEW r \in Req, CutOff(r)
  PROVE  HeadInv'
<1>1. /\ req \in [Req -> Request] /\ UNCHANGED <<refs, tags, head, recorded, archived>>
      /\ head \in Chosen /\ recorded \in Chosen \cup {None}
  BY DEF HeadInv, TypeOK, CutOff, repo, row
<1>2. CASE req[r].kind = "push"
  <2>1. Disturb(r, Idle) /\ PickKnown(Idle) /\ ~Idle.mends /\ Idle \in Request
    BY <1>2, IdleIsRequest DEF CutOff, PickKnown
  <2> QED
    BY <1>1, <2>1, DisturbStep
<1>3. CASE req[r].kind # "push"
  <2>1. Becomes(r, "push", "idle", None, None, FALSE, FALSE) /\ torn' = torn
    BY <1>1, <1>3, IdleBecomes DEF CutOff
  <2> QED
    BY <1>1, <1>3, <2>1, Settles
<1> QED
  BY <1>2, <1>3

LEMMA OtherStep ==
  ASSUME HeadInv, SetArchived \/ UNCHANGED vars
  PROVE  HeadInv'
<1>1. /\ UNCHANGED <<refs, tags, head, recorded, req, torn>>
      /\ archived' \in BOOLEAN
  BY DEF SetArchived, vars, repo, HeadInv, TypeOK
<1>2. Gone' = Gone /\ Sound("record", recorded)' = Sound("record", recorded)
  BY <1>1, SameNames DEF Gone
<1>3. \A p \in Req : /\ PickKnown(req[p]) => PickKnown(req[p])'
                     /\ Owes(req[p]) => Owes(req[p])'
  BY <1>1, SameNames DEF PickKnown, Owes
<1> QED
  BY <1>1, <1>2, <1>3 DEF HeadInv, TypeOK, HeadOwed, RecordOwed

LEMMA AlwaysHeadInv == Spec => []HeadInv
<1>1. Init => HeadInv
  <2> SUFFICES ASSUME Init PROVE HeadInv
    OBVIOUS
  <2>1. \A r \in Req : req[r] = Idle
    BY DEF Init
  <2> QED
    BY <2>1, BranchAssumption, IdleIsRequest, NamesOfBranches
    DEF Init, HeadInv, TypeOK, PickKnown, HeadOwed, RecordOwed, Gone, Sound
<1>2. HeadInv /\ [Next]_vars => HeadInv'
  BY PushStep, UpdateStep, SetHeadStep, RecordStep, CutOffStep, OtherStep DEF Next
<1> QED
  BY <1>1, <1>2, PTL DEF Spec

LEMMA NothingOwed == HeadInv => HeadBorn /\ BrowsedBorn
<1> SUFFICES ASSUME HeadInv, Quiescent, refs # {}
             PROVE  /\ Born(head) \/ Misnamed(head)
                    /\ DefaultFound \/ (recorded = None /\ Misnamed(head))
  BY DEF HeadBorn, BrowsedBorn
<1>1. ~torn /\ \A r \in Req : req[r].kind = "push" /\ req[r].pc = "idle"
  BY IdleIsRequest DEF Quiescent
<1>2. Born(head) \/ Misnamed(head)
  BY <1>1 DEF HeadInv, HeadOwed, Owes, Gone
<1>3. recorded = None \/ Resolves(recorded)
  BY <1>1 DEF HeadInv, RecordOwed, Sound
<1> QED
  BY <1>2, <1>3 DEF DefaultFound

\* Every variable keeps its type.
THEOREM HeadTyped == Spec => []TypeOK
<1>1. HeadInv => TypeOK
  BY DEF HeadInv
<1> QED
  BY <1>1, AlwaysHeadInv, PTL

\* For any number of concurrent pushes that create and delete branches and
\* tags, settings updates and failing git children, HEAD of a repository with
\* branches is one of them once its pushes are done, with the two exceptions
\* HeadBorn names: no push has run to its end since a disturbance (torn), or a
\* tag has the branch's name (refresh_head_branch_after_push).
THEOREM HeadIsBorn == Spec => []HeadBorn
<1> QED
  BY AlwaysHeadInv, NothingOwed, PTL

\* The branch that browsing shows without a ref exists then, but where nothing
\* is recorded and HEAD has such a tag's name (default_ref).
THEOREM BrowsedIsBorn == Spec => []BrowsedBorn
<1> QED
  BY AlwaysHeadInv, NothingOwed, PTL
=============================================================================
