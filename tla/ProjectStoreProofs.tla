------------------------- MODULE ProjectStoreProofs -------------------------
(***************************************************************************)
(* Safety of the project store for every set of requests, namespaces,      *)
(* paths, faults and imported rows.  The second half adds what holds of an *)
(* installation whose database started empty: disk ids are never reused    *)
(* and repositories stay in place.  With imported rows both are false, as  *)
(* no allocation is on record for an imported disk id.                     *)
(***************************************************************************)
EXTENDS ProjectStore, TLAPS

-----------------------------------------------------------------------------
(* Requests and what they hold.                                             *)

\* The program counters between the reservation of a disk id and its row.
HoldPc == {"slot", "init", "insert"}

Holds(h) == req[h].pc \in HoldPc

\* The requests the handlers really build.
Formed ==
  {q \in Request :
     /\ q.pc \in {"mkns", "find", "reserve"} \cup HoldPc =>
          q.op \in {"create", "fork", "push"} /\ q.ns \in Namespace /\ q.path \in Path
     /\ q.pc \in {"transfer", "rmns"} => q.ns \in Namespace
     /\ q.pc \in HoldPc \cup {"check", "gone", "move", "purge"} => q.disk \in DiskId
     /\ q.moved # 0 => q.pc = "purge" /\ q.moved = q.disk}

\* A reserved disk id is on record, has no row yet, and is nobody else's;
\* once the repository is built it is not destroyed.
Reserved(q) ==
  q.pc \in HoldPc => /\ q.disk \in allocated /\ q.disk \notin RowDisks
                     /\ q.pc = "insert" => q.disk \in dirs \cup trash

Apart == \A g, h \in Handler : Holds(g) /\ Holds(h) /\ req[g].disk = req[h].disk => g = h

Tables ==
  /\ projects \subseteq Row
  /\ allocated \subseteq DiskId
  /\ namespaces \subseteq Namespace
  /\ dirs \subseteq DiskId
  /\ trash \subseteq DiskId

History ==
  /\ retired \subseteq DiskId
  /\ torn \subseteq DiskId
  /\ astray \subseteq DiskId
  /\ left \subseteq DiskId

\* The inductive invariant.
StoreInv ==
  /\ Tables
  /\ History
  /\ req \in [Handler -> Formed]
  /\ \A h \in Handler : Reserved(req[h])
  /\ Apart
  /\ RepoKept
  /\ NoStrandedProject

LEMMA IdleFormed == Idle \in Formed
BY ConstantsAssumption DEF Idle, Formed, Request, Pc, HoldPc

\* What a step of request h has to respect so that the invariant survives:
\* the ids and repositories other requests hold, and its own new state q.
LEMMA Frame ==
  ASSUME StoreInv, NEW h \in Handler, NEW q \in Formed,
         req' = [req EXCEPT ![h] = q],
         Tables', History', RepoKept', NoStrandedProject',
         \A g \in Handler \ {h} : Holds(g) => Reserved(req[g])',
         Reserved(q)',
         q.pc \in HoldPc => \A g \in Handler \ {h} : Holds(g) => req[g].disk # q.disk
  PROVE  StoreInv'
<1>1. req' \in [Handler -> Formed]
  BY DEF StoreInv
<1>2. /\ req'[h] = q
      /\ \A g \in Handler \ {h} : req'[g] = req[g]
  BY DEF StoreInv
<1>3. \A g \in Handler : Reserved(req[g])'
  BY <1>2 DEF Reserved, Holds
<1>4. Apart'
  BY <1>2 DEF StoreInv, Apart, Holds
<1> QED BY <1>1, <1>3, <1>4 DEF StoreInv

\* A step that leaves the tables and the disk alone.
LEMMA Quiet ==
  ASSUME StoreInv, NEW h \in Handler, NEW q \in Formed,
         req' = [req EXCEPT ![h] = q],
         UNCHANGED <<projects, allocated, namespaces, dirs, trash>>, History',
         q.pc \in HoldPc => Holds(h) /\ q.disk = req[h].disk /\ q.pc # "insert"
  PROVE  StoreInv'
<1>1. Tables' /\ RepoKept' /\ NoStrandedProject'
  BY DEF StoreInv, Tables, RepoKept, RowDisks, NoStrandedProject
<1>2. \A g \in Handler \ {h} : Holds(g) => Reserved(req[g])'
  BY DEF StoreInv, Reserved, RowDisks
<1>3. Reserved(q)'
  BY DEF StoreInv, Reserved, RowDisks, Holds
<1>4. q.pc \in HoldPc => \A g \in Handler \ {h} : Holds(g) => req[g].disk # q.disk
  BY DEF StoreInv, Apart
<1> QED BY <1>1, <1>2, <1>3, <1>4, Frame

\* The requests a first step builds; a delete names a row it has read.
LEMMA StartForm ==
  ASSUME StoreInv, NEW h \in Handler, Start(h)
  PROVE  \E q \in Formed : /\ req' = [req EXCEPT ![h] = q]
                           /\ q.pc \notin HoldPc \cup {"purge", "check", "gone"}
                           /\ q.pc = "move" => \E r \in projects : q.id = r.id /\ q.disk = r.disk
<1> DEFINE Begins(q) == /\ q \in Formed
                        /\ req' = [req EXCEPT ![h] = q]
                        /\ q.pc \notin HoldPc \cup {"purge", "check", "gone"}
                        /\ q.pc = "move" => \E r \in projects : q.id = r.id /\ q.disk = r.disk
<1> projects \subseteq Row
  BY DEF StoreInv, Tables
<1> USE ConstantsAssumption DEF Formed, Request, Pc, HoldPc, Idle, Row
<1>1. \E q : Begins(q)
  <2>1. CASE \E ns \in Namespace, p \in Path : Create(h, ns, p)
    <3> PICK ns \in Namespace, p \in Path : Create(h, ns, p)
      BY <2>1
    <3> DEFINE q == [Idle EXCEPT !.op = "create", !.pc = "reserve", !.ns = ns, !.path = p]
    <3>1. Begins(q)
      BY DEF Create
    <3> HIDE DEF q, Begins
    <3> QED BY <3>1
  <2>2. CASE \E ns \in Namespace, p \in Path : Push(h, ns, p)
    <3> PICK ns \in Namespace, p \in Path : Push(h, ns, p)
      BY <2>2
    <3> DEFINE q == [Idle EXCEPT !.op = "push",
                       !.pc = IF ns \in namespaces THEN "find" ELSE "mkns", !.ns = ns, !.path = p]
    <3>1. Begins(q)
      BY DEF Push
    <3> HIDE DEF q, Begins
    <3> QED BY <3>1
  <2>3. CASE \E r \in projects, ns \in Namespace, p \in Path : Fork(h, r, ns, p)
    <3> PICK r \in projects, ns \in Namespace, p \in Path : Fork(h, r, ns, p)
      BY <2>3
    <3> DEFINE q == [Idle EXCEPT !.op = "fork", !.pc = "reserve", !.ns = ns, !.path = p,
                                 !.id = r.id, !.from = r.disk]
    <3>1. Begins(q)
      BY DEF Fork
    <3> HIDE DEF q, Begins
    <3> QED BY <3>1
  <2>4. CASE \E r \in projects : Delete(h, r)
    <3> PICK r \in projects : Delete(h, r)
      BY <2>4
    <3> DEFINE q == [Idle EXCEPT !.op = "delete", !.pc = "move", !.id = r.id, !.disk = r.disk]
    <3>1. Begins(q)
      BY DEF Delete
    <3> HIDE DEF q, Begins
    <3> QED BY <3>1
  <2>5. CASE \E r \in projects, ns \in Namespace : Transfer(h, r, ns)
    <3> PICK r \in projects, ns \in Namespace : Transfer(h, r, ns)
      BY <2>5
    <3> DEFINE q == [Idle EXCEPT !.op = "transfer", !.pc = "transfer", !.id = r.id, !.ns = ns]
    <3>1. Begins(q)
      BY DEF Transfer
    <3> HIDE DEF q, Begins
    <3> QED BY <3>1
  <2>6. CASE \E ns \in Namespace : NsDelete(h, ns)
    <3> PICK ns \in Namespace : NsDelete(h, ns)
      BY <2>6
    <3> DEFINE q == [Idle EXCEPT !.op = "rmns", !.pc = "rmns", !.ns = ns]
    <3>1. Begins(q)
      BY DEF NsDelete
    <3> HIDE DEF q, Begins
    <3> QED BY <3>1
  <2> QED BY <2>1, <2>2, <2>3, <2>4, <2>5, <2>6 DEF Start
<1> QED BY <1>1

\* The first step of a request only reads.
LEMMA StartKeeps ==
  ASSUME StoreInv, NEW h \in Handler, Start(h)
  PROVE  StoreInv'
<1>1. UNCHANGED <<db, disk, hist>>
  BY DEF Start, Create, Push, Fork, Delete, Transfer, NsDelete
<1>2. History'
  BY <1>1 DEF hist, History, StoreInv
<1> PICK q \in Formed : req' = [req EXCEPT ![h] = q] /\ q.pc \notin HoldPc
  BY StartForm
<1> QED BY <1>1, <1>2, Quiet DEF db, disk

\* A request ends without changing the tables or the disk.
LEMMA EndsQuietly ==
  ASSUME StoreInv, NEW h \in Handler, Finish(h), History',
         UNCHANGED <<projects, allocated, namespaces, dirs, trash>>
  PROVE  StoreInv'
<1> Idle \in Formed /\ Idle.pc \notin HoldPc
  BY IdleFormed DEF Idle, HoldPc
<1> QED BY Quiet DEF Finish

\* A request moves on to another program counter and stays well formed.
LEMMA GotoForm ==
  ASSUME StoreInv, NEW h \in Handler, NEW p, Goto(h, p),
         \/ req[h].pc \in {"mkns", "find"} /\ p \in {"find", "reserve"}
         \/ req[h].pc \in HoldPc /\ p \in HoldPc
         \/ req[h].pc = "check" /\ p = "gone"
  PROVE  \E q \in Formed : /\ q.pc = p /\ q.disk = req[h].disk
                           /\ req' = [req EXCEPT ![h] = q]
<1> DEFINE q == [req[h] EXCEPT !.pc = p]
<1> req[h] \in Formed
  BY DEF StoreInv
<1>1. q \in Formed
  BY DEF Formed, Request, Pc, HoldPc
<1>2. q.pc = p /\ q.disk = req[h].disk
  BY DEF Formed, Request
<1>3. req' = [req EXCEPT ![h] = q]
  BY DEF Goto
<1> QED BY <1>1, <1>2, <1>3

\* What create's last check removes was not there.
LEMMA CheckRepoRemovesNothing ==
  ASSUME NEW h \in Handler, CheckRepo(h)
  PROVE  UNCHANGED <<projects, allocated, namespaces, dirs, trash>> /\ UNCHANGED hist
<1>1. dirs' = dirs
  BY DEF CheckRepo
<1> QED BY <1>1 DEF CheckRepo, db

\* find_project, the git slot and create's last check touch only the request.
LEMMA LookupKeeps ==
  ASSUME StoreInv, NEW h \in Handler, Find(h) \/ Slot(h) \/ CheckRepo(h)
  PROVE  StoreInv'
<1>1. UNCHANGED <<projects, allocated, namespaces, dirs, trash>> /\ History'
  BY CheckRepoRemovesNothing DEF Find, Slot, db, disk, hist, StoreInv, History
<1>2. CASE Finish(h)
  BY <1>1, <1>2, EndsQuietly
<1>3. CASE ~Finish(h)
  <2>1. CASE Find(h)
    <3> At(h, "find") /\ Goto(h, "reserve")
      BY <1>3, <2>1 DEF Find
    <3> PICK q \in Formed : q.pc = "reserve" /\ req' = [req EXCEPT ![h] = q]
      BY GotoForm DEF At
    <3> QED BY <1>1, Quiet DEF HoldPc
  <2>2. CASE Slot(h)
    <3> At(h, "slot") /\ Goto(h, "init")
      BY <1>3, <2>2 DEF Slot
    <3> PICK q \in Formed : /\ q.pc = "init" /\ q.disk = req[h].disk
                            /\ req' = [req EXCEPT ![h] = q]
      BY GotoForm DEF At, HoldPc
    <3> QED BY <1>1, Quiet DEF At, HoldPc, Holds
  <2>3. CASE CheckRepo(h)
    <3> At(h, "check") /\ Goto(h, "gone")
      BY <1>3, <2>3 DEF CheckRepo
    <3> PICK q \in Formed : q.pc = "gone" /\ req' = [req EXCEPT ![h] = q]
      BY GotoForm DEF At
    <3> QED BY <1>1, Quiet DEF HoldPc
  <2> QED BY <2>1, <2>2, <2>3
<1> QED BY <1>2, <1>3

\* A new namespace disturbs nothing.
LEMMA NamespacesGrow ==
  ASSUME StoreInv, NEW h \in Handler, NEW q \in Formed, q.pc \notin HoldPc,
         req' = [req EXCEPT ![h] = q], NEW ns \in Namespace,
         namespaces' = namespaces \cup {ns}, History',
         UNCHANGED <<projects, allocated, dirs, trash>>
  PROVE  StoreInv'
<1>1. Tables' /\ RepoKept' /\ NoStrandedProject'
  BY DEF StoreInv, Tables, RepoKept, RowDisks, NoStrandedProject
<1>2. \A g \in Handler \ {h} : Holds(g) => Reserved(req[g])'
  BY DEF StoreInv, Reserved, RowDisks
<1>3. Reserved(q)'
  BY DEF Reserved
<1> QED BY <1>1, <1>2, <1>3, Frame

\* The group a push auto-creates.
LEMMA MakeNsKeeps ==
  ASSUME StoreInv, NEW h \in Handler, MakeNs(h)
  PROVE  StoreInv'
<1>1. UNCHANGED <<projects, allocated, dirs, trash>> /\ History'
  BY DEF MakeNs, disk, hist, StoreInv, History
<1>2. CASE Finish(h) /\ UNCHANGED namespaces
  BY <1>1, <1>2, EndsQuietly
<1>3. CASE namespaces' = namespaces \cup {req[h].ns} /\ Goto(h, "find")
  <2> req \in [Handler -> Formed] /\ At(h, "mkns")
    BY DEF StoreInv, MakeNs
  <2> req[h].ns \in Namespace
    BY DEF At, Formed
  <2> PICK q \in Formed : q.pc = "find" /\ req' = [req EXCEPT ![h] = q]
    BY <1>3, GotoForm DEF At
  <2> QED BY <1>1, <1>3, NamespacesGrow DEF HoldPc
<1> QED BY <1>2, <1>3 DEF MakeNs

\* The allocator's answer is above every row and every allocation.
LEMMA NextIsFresh ==
  ASSUME NEW n \in DiskId, NEW S, IsNext(n, S)
  PROVE  n \notin S
BY ConstantsAssumption DEF IsNext, DiskId

\* reserve_disk_id puts a new id on record for the request.
LEMMA ReserveForm ==
  ASSUME StoreInv, NEW h \in Handler, Reserve(h), ~(Finish(h) /\ UNCHANGED allocated)
  PROVE  \E q \in Formed : /\ req' = [req EXCEPT ![h] = q] /\ q.pc \in {"init", "slot"}
                           /\ q.disk \in DiskId /\ q.disk \notin RowDisks \cup allocated
                           /\ allocated' = allocated \cup {q.disk}
<1> PICK d \in DiskId :
      /\ NextDisk(d)
      /\ allocated' = allocated \cup {d}
      /\ req' = [req EXCEPT ![h].disk = d,
                            ![h].pc = IF req[h].op = "push" THEN "init" ELSE "slot"]
  BY DEF Reserve
<1> DEFINE q == [req[h] EXCEPT !.disk = d,
                               !.pc = IF req[h].op = "push" THEN "init" ELSE "slot"]
<1>1. req[h] \in Formed /\ req[h].pc = "reserve"
  BY DEF StoreInv, Reserve, At
<1>2. q \in Request /\ q.disk = d /\ q.pc \in {"init", "slot"}
  BY <1>1 DEF Formed, Request, Pc
<1>3. q.op = req[h].op /\ q.ns = req[h].ns /\ q.path = req[h].path /\ q.moved = req[h].moved
  BY <1>1 DEF Formed, Request
<1>4. req' = [req EXCEPT ![h] = q]
  BY DEF StoreInv
<1> HIDE DEF q
<1>5. q \in Formed
  BY <1>1, <1>2, <1>3 DEF Formed, HoldPc
<1>6. d \notin RowDisks \cup allocated
  BY NextIsFresh DEF NextDisk
<1> QED BY <1>2, <1>4, <1>5, <1>6

\* The id a request reserves is nobody else's.
LEMMA ReserveKeeps ==
  ASSUME StoreInv, NEW h \in Handler, Reserve(h)
  PROVE  StoreInv'
<1>1. UNCHANGED <<projects, namespaces, dirs, trash>> /\ History'
  BY DEF Reserve, disk, hist, StoreInv, History
<1>2. CASE Finish(h) /\ UNCHANGED allocated
  BY <1>1, <1>2, EndsQuietly
<1>3. CASE ~(Finish(h) /\ UNCHANGED allocated)
  <2>1. PICK q \in Formed : /\ req' = [req EXCEPT ![h] = q] /\ q.pc \in {"init", "slot"}
                            /\ q.disk \in DiskId /\ q.disk \notin RowDisks \cup allocated
                            /\ allocated' = allocated \cup {q.disk}
    BY <1>3, ReserveForm
  <2>2. Tables' /\ RepoKept' /\ NoStrandedProject'
    BY <1>1, <2>1 DEF StoreInv, Tables, RepoKept, RowDisks, NoStrandedProject
  <2>3. \A g \in Handler \ {h} : Holds(g) => Reserved(req[g])' /\ req[g].disk # q.disk
    BY <1>1, <2>1 DEF StoreInv, Reserved, RowDisks, Holds
  <2>4. Reserved(q)'
    BY <1>1, <2>1 DEF Reserved, RowDisks
  <2> QED BY <1>1, <2>1, <2>2, <2>3, <2>4, Frame
<1> QED BY <1>2, <1>3

\* A request ends and leaves what the others hold alone.
LEMMA Ends ==
  ASSUME StoreInv, NEW h \in Handler, Finish(h),
         Tables', History', RepoKept', NoStrandedProject',
         \A g \in Handler \ {h} : Holds(g) => Reserved(req[g])'
  PROVE  StoreInv'
<1> Idle \in Formed /\ Idle.pc \notin HoldPc
  BY IdleFormed DEF Idle, HoldPc
<1> Reserved(Idle)'
  BY DEF Reserved
<1> QED BY Frame DEF Finish

\* The removal of a directory that a failing request still holds.
LEMMA CleanUpKeeps ==
  ASSUME StoreInv, NEW h \in Handler, Holds(h), Finish(h), CleanUp(req[h].disk),
         UNCHANGED <<projects, allocated, namespaces>>, History'
  PROVE  StoreInv'
<1> DEFINE d == req[h].disk
<1>1. d \notin RowDisks /\ \A g \in Handler \ {h} : Holds(g) => req[g].disk # d
  BY DEF StoreInv, Reserved, Holds, Apart
<1>2. dirs' \subseteq dirs /\ dirs \ {d} \subseteq dirs' /\ trash' = trash
  BY DEF CleanUp
<1> HIDE DEF d
<1>3. Tables' /\ RepoKept' /\ NoStrandedProject'
  BY <1>1, <1>2 DEF StoreInv, Tables, RepoKept, RowDisks, NoStrandedProject
<1>4. \A g \in Handler \ {h} : Holds(g) => Reserved(req[g])'
  BY <1>1, <1>2 DEF StoreInv, Reserved, RowDisks, Holds, Finish
<1> QED BY <1>3, <1>4, Ends

\* init_bare and fork_local: build the repository, or clean up.
LEMMA InitRepoKeeps ==
  ASSUME StoreInv, NEW h \in Handler, InitRepo(h)
  PROVE  StoreInv'
<1>a. req[h].pc = "init" /\ req[h] \in Formed
  BY DEF InitRepo, StoreInv, At
<1>1. /\ UNCHANGED <<projects, allocated, namespaces>> /\ History'
      /\ req[h].pc = "init" /\ req[h] \in Formed
  <2>1. req[h].disk \in DiskId
    BY <1>a DEF Formed, HoldPc
  <2> QED BY <1>a, <2>1 DEF InitRepo, CleanUp, db, StoreInv, History
<1>2. CASE CleanUp(req[h].disk) /\ Finish(h)
  BY <1>1, <1>2, CleanUpKeeps DEF Holds, HoldPc
<1>3. CASE /\ dirs' = dirs \cup {req[h].disk}
           /\ UNCHANGED trash
           /\ Goto(h, "insert")
  <2> PICK q \in Formed : /\ q.pc = "insert" /\ q.disk = req[h].disk
                          /\ req' = [req EXCEPT ![h] = q]
    BY <1>1, <1>3, GotoForm DEF HoldPc
  <2>0. q.disk \in DiskId
    BY DEF Formed, HoldPc
  <2>1. Tables' /\ RepoKept' /\ NoStrandedProject'
    BY <1>1, <1>3, <2>0 DEF StoreInv, Tables, RepoKept, RowDisks, NoStrandedProject
  <2>2. \A g \in Handler \ {h} : Holds(g) => Reserved(req[g])'
    BY <1>1, <1>3 DEF StoreInv, Reserved, RowDisks
  <2>3. Reserved(q)'
    BY <1>1, <1>3 DEF StoreInv, Reserved, RowDisks, HoldPc
  <2>4. \A g \in Handler \ {h} : Holds(g) => req[g].disk # q.disk
    BY <1>1 DEF StoreInv, Apart, Holds, HoldPc
  <2> QED BY <1>1, <2>1, <2>2, <2>3, <2>4, Frame
<1> QED BY <1>2, <1>3 DEF InitRepo

\* The row a request inserts, and the request afterwards.
LEMMA InsertForm ==
  ASSUME StoreInv, NEW h \in Handler, Insert(h),
         ~(CleanUp(req[h].disk) /\ Finish(h) /\ UNCHANGED projects)
  PROVE  /\ CanInsert(req[h]) /\ UNCHANGED <<disk, left>>
         /\ \E r \in Row : projects' = projects \cup {r} /\ r.disk = req[h].disk /\ r.ns = req[h].ns
         /\ \E q \in Formed : /\ req' = [req EXCEPT ![h] = q] /\ q.pc \in {"idle", "check"}
                              /\ q.pc = "check" => q.disk = req[h].disk
<1>1. req[h].pc = "insert" /\ req[h] \in Formed
  BY DEF Insert, StoreInv, At
<1> PICK n \in RowId :
      /\ CanInsert(req[h])
      /\ projects' = projects \cup {[id |-> n, ns |-> req[h].ns,
                                     path |-> req[h].path, disk |-> req[h].disk]}
      /\ IF req[h].op = "create"
         THEN req' = [req EXCEPT ![h].pc = "check", ![h].id = n]
         ELSE Finish(h)
      /\ UNCHANGED <<disk, left>>
  BY DEF Insert
<1>2. req[h].disk \in DiskId /\ req[h].ns \in Namespace /\ req[h].path \in Path
  BY <1>1 DEF Formed, HoldPc
<1>3. \E r \in Row : projects' = projects \cup {r} /\ r.disk = req[h].disk /\ r.ns = req[h].ns
  <2> DEFINE row == [id |-> n, ns |-> req[h].ns, path |-> req[h].path, disk |-> req[h].disk]
  <2> row \in Row /\ row.disk = req[h].disk /\ row.ns = req[h].ns
    BY <1>2 DEF Row
  <2> QED BY Zenon
<1>4. CASE Finish(h)
  BY <1>3, <1>4, IdleFormed DEF Finish, Idle
<1>5. CASE req' = [req EXCEPT ![h].pc = "check", ![h].id = n]
  <2> DEFINE q == [req[h] EXCEPT !.pc = "check", !.id = n]
  <2>1. q \in Request /\ q.pc = "check" /\ q.disk = req[h].disk /\ q.moved = req[h].moved
    BY <1>1 DEF Formed, Request, Pc
  <2>2. req' = [req EXCEPT ![h] = q]
    BY <1>5 DEF StoreInv
  <2> HIDE DEF q
  <2>3. q \in Formed
    BY <1>1, <1>2, <2>1 DEF Formed, HoldPc
  <2> QED BY <1>3, <2>1, <2>2, <2>3
<1> QED BY <1>4, <1>5

\* The row of a new project, or the clean-up after a refused insert.
LEMMA InsertKeeps ==
  ASSUME StoreInv, NEW h \in Handler, Insert(h)
  PROVE  StoreInv'
<1>a. req[h].pc = "insert" /\ req[h] \in Formed
  BY DEF Insert, StoreInv, At
<1>1. /\ UNCHANGED <<allocated, namespaces>> /\ History'
      /\ req[h].pc = "insert" /\ req[h] \in Formed
  <2>1. req[h].disk \in DiskId
    BY <1>a DEF Formed, HoldPc
  <2> QED BY <1>a, <2>1 DEF Insert, CleanUp, StoreInv, History
<1>2. CASE CleanUp(req[h].disk) /\ Finish(h) /\ UNCHANGED projects
  BY <1>1, <1>2, CleanUpKeeps DEF Holds, HoldPc
<1>3. CASE ~(CleanUp(req[h].disk) /\ Finish(h) /\ UNCHANGED projects)
  <2>1. PICK r \in Row : projects' = projects \cup {r} /\ r.disk = req[h].disk /\ r.ns = req[h].ns
    BY <1>3, InsertForm
  <2>2. PICK q \in Formed : req' = [req EXCEPT ![h] = q] /\ q.pc \in {"idle", "check"}
    BY <1>3, InsertForm
  <2>3. CanInsert(req[h]) /\ UNCHANGED disk /\ RowDisks' = RowDisks \cup {req[h].disk}
    BY <1>3, <2>1, InsertForm DEF RowDisks
  <2>4. req[h].ns \in namespaces /\ req[h].disk \in dirs \cup trash
    BY <1>1, <2>3 DEF HoldPc, CanInsert, StoreInv, Reserved
  <2>5. Tables' /\ RepoKept' /\ NoStrandedProject'
    BY <1>1, <2>1, <2>3, <2>4 DEF StoreInv, Tables, RepoKept, NoStrandedProject, disk
  <2>6. \A g \in Handler \ {h} : Holds(g) => req[g].disk # req[h].disk /\ req'[g] = req[g]
    BY <1>1, <2>2 DEF StoreInv, Apart, Holds, HoldPc
  <2>7. \A g \in Handler \ {h} : Holds(g) => Reserved(req[g])'
    BY <1>1, <2>3, <2>6 DEF StoreInv, Reserved, disk
  <2>8. q.pc \notin HoldPc /\ Reserved(q)'
    BY <2>2 DEF Reserved, HoldPc
  <2> QED BY <1>1, <2>2, <2>5, <2>7, <2>8, Frame
<1> QED BY <1>2, <1>3

\* A row disappears: nothing anybody holds depends on it.
LEMMA DeleteRowKeeps ==
  ASSUME StoreInv, NEW h \in Handler, DeleteRow(h), Finish(h),
         UNCHANGED <<allocated, namespaces, dirs, trash, torn, left>>
  PROVE  StoreInv'
<1>1. projects' \subseteq projects /\ RowDisks' \subseteq RowDisks
  BY DEF DeleteRow, RowDisks
<1>2. {r.disk : r \in {r \in projects : r.id = req[h].id}} \subseteq DiskId
  BY DEF StoreInv, Tables, Row
<1>3. History'
  BY <1>2 DEF DeleteRow, StoreInv, History
<1>4. Tables' /\ RepoKept' /\ NoStrandedProject'
  BY <1>1 DEF StoreInv, Tables, RepoKept, NoStrandedProject
<1>5. \A g \in Handler \ {h} : Holds(g) => Reserved(req[g])'
  BY <1>1 DEF StoreInv, Reserved, Finish
<1> QED BY <1>3, <1>4, <1>5, Ends

\* create takes its row back.
LEMMA UndoInsertKeeps ==
  ASSUME StoreInv, NEW h \in Handler, UndoInsert(h)
  PROVE  StoreInv'
<1>1. CASE DeleteRow(h)
  BY <1>1, DeleteRowKeeps DEF UndoInsert, disk
<1>2. CASE UNCHANGED <<projects, retired, astray>>
  <2> History'
    BY <1>2 DEF UndoInsert, StoreInv, History
  <2> QED BY <1>2, EndsQuietly DEF UndoInsert, disk
<1> QED BY <1>1, <1>2 DEF UndoInsert

\* Renaming a directory away or back never loses it.
LEMMA RenameKeeps ==
  ASSUME StoreInv, NEW h \in Handler, NEW q \in Formed, q.pc \notin HoldPc,
         req' = [req EXCEPT ![h] = q], History',
         UNCHANGED <<projects, allocated, namespaces>>,
         dirs \cup trash \subseteq dirs' \cup trash',
         dirs' \subseteq DiskId, trash' \subseteq DiskId
  PROVE  StoreInv'
<1>1. Tables' /\ RepoKept' /\ NoStrandedProject'
  BY DEF StoreInv, Tables, RepoKept, RowDisks, NoStrandedProject
<1>2. \A g \in Handler \ {h} : Holds(g) => Reserved(req[g])'
  BY DEF StoreInv, Reserved, RowDisks
<1>3. Reserved(q)'
  BY DEF Reserved
<1> QED BY <1>1, <1>2, <1>3, Frame

\* soft_delete remembers the directory it has renamed.
LEMMA MoveForm ==
  ASSUME StoreInv, NEW h \in Handler, MoveToTrash(h), ~(Finish(h) /\ UNCHANGED disk)
  PROVE  /\ dirs' = dirs \ {req[h].disk}
         /\ trash' = IF req[h].disk \in dirs THEN trash \cup {req[h].disk} ELSE trash
         /\ left' = left \ {req[h].disk}
         /\ \E q \in Formed : /\ req' = [req EXCEPT ![h] = q]
                              /\ q.pc = "purge" /\ q.disk = req[h].disk /\ q.id = req[h].id
                              /\ req[h].disk \in dirs => q.moved = req[h].disk
<1> DEFINE d == req[h].disk
           m == IF d \in dirs THEN d ELSE 0
           q == [req[h] EXCEPT !.pc = "purge", !.moved = m]
<1>1. req[h].pc = "move" /\ req[h] \in Formed
  BY DEF MoveToTrash, StoreInv, At
<1>2. /\ dirs' = dirs \ {d}
      /\ trash' = IF d \in dirs THEN trash \cup {d} ELSE trash
      /\ left' = left \ {d}
      /\ req' = [req EXCEPT ![h].pc = "purge", ![h].moved = m]
  BY DEF MoveToTrash
<1>3. d \in DiskId /\ m \in DiskId \cup {0} /\ (m # 0 => m = d) /\ (d \in dirs => m = d)
  BY <1>1 DEF Formed
<1>4. req' = [req EXCEPT ![h] = q]
  BY <1>2 DEF StoreInv
<1> HIDE DEF m
<1>5. q \in Request /\ q.pc = "purge" /\ q.disk = d /\ q.moved = m /\ q.id = req[h].id
  BY <1>1, <1>3 DEF Formed, Request, Pc
<1> HIDE DEF q
<1>6. q \in Formed
  BY <1>3, <1>5 DEF Formed, HoldPc
<1> QED BY <1>2, <1>3, <1>4, <1>5, <1>6

\* soft_delete.
LEMMA MoveToTrashKeeps ==
  ASSUME StoreInv, NEW h \in Handler, MoveToTrash(h)
  PROVE  StoreInv'
<1>1. /\ UNCHANGED <<projects, allocated, namespaces>> /\ History'
      /\ req[h].pc = "move" /\ req[h] \in Formed
  BY DEF MoveToTrash, db, hist, StoreInv, History, At
<1>2. CASE Finish(h) /\ UNCHANGED disk
  BY <1>1, <1>2, EndsQuietly DEF disk
<1>3. CASE ~(Finish(h) /\ UNCHANGED disk)
  <2>1. PICK q \in Formed : q.pc = "purge" /\ req' = [req EXCEPT ![h] = q]
    BY <1>3, MoveForm
  <2>2. req[h].disk \in DiskId
    BY <1>1 DEF Formed
  <2>3. /\ dirs \cup trash \subseteq dirs' \cup trash'
        /\ dirs' \subseteq DiskId /\ trash' \subseteq DiskId
    BY <1>3, <2>2, MoveForm DEF StoreInv, Tables
  <2> QED BY <1>1, <2>1, <2>3, RenameKeeps DEF HoldPc
<1> QED BY <1>2, <1>3

\* delete's last step: the row goes, or the directory comes back.
LEMMA PurgeKeeps ==
  ASSUME StoreInv, NEW h \in Handler, Purge(h)
  PROVE  StoreInv'
<1>1. /\ UNCHANGED <<allocated, namespaces>> /\ Finish(h)
      /\ req[h].pc = "purge" /\ req[h] \in Formed
  BY DEF Purge, StoreInv, At
<1>2. CASE DeleteRow(h) /\ UNCHANGED <<disk, torn, left>>
  BY <1>1, <1>2, DeleteRowKeeps DEF disk
<1>3. CASE Restore(h) /\ UNCHANGED <<projects, retired, astray>>
  <2>1. req[h].disk \in DiskId
    BY <1>1 DEF Formed
  <2>2. /\ dirs \cup trash \subseteq dirs' \cup trash'
        /\ dirs' \subseteq DiskId /\ trash' \subseteq DiskId
        /\ torn' \subseteq DiskId /\ left' \subseteq DiskId
    BY <1>3, <2>1 DEF Restore, disk, StoreInv, Tables, History
  <2>3. History'
    BY <1>3, <2>2 DEF StoreInv, History
  <2>4. Idle \in Formed /\ Idle.pc \notin HoldPc
    BY IdleFormed DEF Idle, HoldPc
  <2> QED BY <1>1, <1>3, <2>2, <2>3, <2>4, RenameKeeps DEF Finish
<1> QED BY <1>2, <1>3 DEF Purge

\* transfer keeps disk ids and moves into a namespace that exists.
LEMMA TransferCommitKeeps ==
  ASSUME StoreInv, NEW h \in Handler, TransferCommit(h)
  PROVE  StoreInv'
<1>1. UNCHANGED <<allocated, namespaces, dirs, trash>> /\ Finish(h) /\ History'
  BY DEF TransferCommit, disk, hist, StoreInv, History
<1>2. CASE UNCHANGED projects
  BY <1>1, <1>2, EndsQuietly
<1>3. CASE \E r \in projects :
             /\ req[h].ns \in namespaces
             /\ projects' = (projects \ {r}) \cup {[r EXCEPT !.ns = req[h].ns]}
  <2> PICK r \in projects :
             /\ req[h].ns \in namespaces
             /\ projects' = (projects \ {r}) \cup {[r EXCEPT !.ns = req[h].ns]}
    BY <1>3
  <2> PICK s : s = [r EXCEPT !.ns = req[h].ns]
    OBVIOUS
  <2>1. s \in Row /\ s.disk = r.disk /\ s.ns \in namespaces
    BY DEF StoreInv, Tables, Row
  <2>2. projects' = (projects \ {r}) \cup {s}
    OBVIOUS
  <2>3. RowDisks' = RowDisks
    BY <2>1, <2>2 DEF RowDisks
  <2>4. Tables' /\ RepoKept' /\ NoStrandedProject'
    BY <1>1, <2>1, <2>2, <2>3 DEF StoreInv, Tables, RepoKept, NoStrandedProject
  <2>5. \A g \in Handler \ {h} : Holds(g) => Reserved(req[g])'
    BY <1>1, <2>3 DEF StoreInv, Reserved, Finish
  <2> QED BY <1>1, <2>4, <2>5, Ends
<1> QED BY <1>2, <1>3 DEF TransferCommit

\* The foreign key keeps the namespaces of projects.
LEMMA NsRemoveKeeps ==
  ASSUME StoreInv, NEW h \in Handler, NsRemove(h)
  PROVE  StoreInv'
<1>1. UNCHANGED <<projects, allocated, dirs, trash>> /\ Finish(h) /\ History'
  BY DEF NsRemove, disk, hist, StoreInv, History
<1>2. Tables' /\ RepoKept' /\ NoStrandedProject'
  BY <1>1 DEF NsRemove, Unused, StoreInv, Tables, RepoKept, RowDisks, NoStrandedProject
<1>3. \A g \in Handler \ {h} : Holds(g) => Reserved(req[g])'
  BY <1>1 DEF StoreInv, Reserved, RowDisks, Finish
<1> QED BY <1>1, <1>2, <1>3, Ends

\* A dropped request undoes nothing and destroys nothing.
LEMMA CancelKeeps ==
  ASSUME StoreInv, NEW h \in Handler, Cancel(h)
  PROVE  StoreInv'
<1>1. UNCHANGED <<projects, allocated, namespaces, dirs, trash>> /\ Finish(h)
  BY DEF Cancel, db, disk
<1>2. req[h] \in Formed
  BY DEF StoreInv
<1>3. req[h].moved # 0 => req[h].disk \in DiskId
  BY <1>2 DEF Formed
<1>a. At(h, "insert") => req[h].disk \in DiskId
  BY <1>2 DEF Formed, At, HoldPc
<1>4. History'
  BY <1>3, <1>a DEF Cancel, StoreInv, History
<1> QED BY <1>1, <1>4, EndsQuietly

\* groups::create and admin::create_user.
LEMMA NsCreateKeeps ==
  ASSUME StoreInv, NEW ns \in Namespace, NsCreate(ns)
  PROVE  StoreInv'
<1>1. UNCHANGED <<projects, allocated, dirs, trash, req, retired, torn, astray, left>>
  BY DEF NsCreate, disk, hist
<1>2. namespaces' = namespaces \cup {ns}
  BY DEF NsCreate
<1>3. Tables' /\ History' /\ RepoKept' /\ NoStrandedProject'
  BY <1>1, <1>2 DEF StoreInv, Tables, History, RepoKept, RowDisks, NoStrandedProject
<1> QED BY <1>1, <1>3 DEF StoreInv, Reserved, RowDisks, Apart, Holds

LEMMA StoreInit == Init => StoreInv
<1> SUFFICES ASSUME Init PROVE StoreInv
  OBVIOUS
<1> USE ConstantsAssumption
<1>1. Tables /\ History /\ RepoKept /\ NoStrandedProject
  BY DEF Init, Tables, History, Row, RepoKept, RowDisks, NoStrandedProject
<1>2. req \in [Handler -> Formed] /\ \A h \in Handler : req[h] = Idle
  BY IdleFormed DEF Init
<1>3. Idle.pc \notin HoldPc
  BY DEF Idle, HoldPc
<1> QED BY <1>1, <1>2, <1>3 DEF StoreInv, Reserved, Apart, Holds

\* One case per action of the specification.
LEMMA StoreStep == StoreInv /\ [Next]_vars => StoreInv'
<1> SUFFICES ASSUME StoreInv, [Next]_vars PROVE StoreInv'
  OBVIOUS
<1>1. CASE UNCHANGED vars
  BY <1>1 DEF vars, StoreInv, Tables, History, Reserved, RowDisks, Apart, Holds, RepoKept,
              NoStrandedProject
<1>2. ASSUME NEW h \in Handler, Start(h) PROVE StoreInv'
  BY <1>2, StartKeeps
<1>3. ASSUME NEW h \in Handler, Step(h) PROVE StoreInv'
  BY <1>3, LookupKeeps, MakeNsKeeps, ReserveKeeps, InitRepoKeeps, InsertKeeps,
     UndoInsertKeeps, MoveToTrashKeeps, PurgeKeeps, TransferCommitKeeps, NsRemoveKeeps,
     CancelKeeps DEF Step
<1>4. ASSUME NEW ns \in Namespace, NsCreate(ns) PROVE StoreInv'
  BY <1>4, NsCreateKeeps
<1> QED BY <1>1, <1>2, <1>3, <1>4 DEF Next

LEMMA StoreInvariant == Spec => []StoreInv
BY StoreInit, StoreStep, PTL DEF Spec

\* Every variable keeps its type in every run of the project store.
THEOREM StoreTyped == Spec => []TypeOK
<1>1. StoreInv => TypeOK
  BY DEF StoreInv, Tables, History, TypeOK, Formed
<1> QED BY <1>1, StoreInvariant, PTL

\* Whatever fails and however requests interleave, the clean-up of a failed
\* create, fork or push (remove_new_repo, cleanup_new_repo) never destroys the
\* repository of a project that has a row, imported projects included.
THEOREM RepositoriesAreKept == Spec => []RepoKept
<1>1. StoreInv => RepoKept
  BY DEF StoreInv
<1> QED BY <1>1, StoreInvariant, PTL

\* A project never loses its namespace: the count of projects in
\* groups::delete may be stale, the foreign key is not.
THEOREM NoProjectIsStranded == Spec => []NoStrandedProject
<1>1. StoreInv => NoStrandedProject
  BY DEF StoreInv
<1> QED BY <1>1, StoreInvariant, PTL

-----------------------------------------------------------------------------
(* Installations that started empty.                                        *)

\* Every disk id that was ever a row's is on record, no retired id has a row
\* again, and no two rows share an id.
Ledger ==
  /\ RowDisks \cup retired \subseteq allocated
  /\ NeverReused
  /\ \A r, s \in projects : r.disk = s.disk => r = s

\* A reserved id is not a retired one and its repository is at its path; the
\* id and the disk id a delete remembers still belong together if that disk
\* id has a row at all.
Paired(q) ==
  /\ q.pc \in HoldPc => q.disk \notin retired /\ (q.pc = "insert" => q.disk \in dirs)
  /\ q.pc \in {"move", "purge"} =>
       /\ q.disk \in RowDisks \cup retired
       /\ \A r \in projects : r.disk = q.disk => r.id = q.id

\* Inductive together with StoreInv.
FreshInv ==
  /\ Ledger
  /\ \A h \in Handler : Paired(req[h])
  /\ RepoInPlace

\* The repositories stay where they are if the step of h takes none away from
\* a row, and settles the one it has moved.
LEMMA StaysInPlace ==
  ASSUME StoreInv, FreshInv, NEW h \in Handler, NEW q, req' = [req EXCEPT ![h] = q],
         RowDisks' \subseteq RowDisks,
         \A d \in RowDisks' : d \in dirs \cup torn => d \in dirs' \cup torn',
         req[h].pc = "purge" /\ req[h].moved \in RowDisks' => req[h].moved \in dirs' \cup torn'
  PROVE  RepoInPlace'
<1>1. \A g \in Handler \ {h} : req'[g] = req[g]
  BY DEF StoreInv
<1> QED BY <1>1 DEF FreshInv, RepoInPlace, At

LEMMA FreshFrame ==
  ASSUME StoreInv, FreshInv, NEW h \in Handler, NEW q \in Formed,
         req' = [req EXCEPT ![h] = q], Ledger', RepoInPlace',
         \A g \in Handler \ {h} : Paired(req[g])', Paired(q)'
  PROVE  FreshInv'
<1> req'[h] = q
  BY DEF StoreInv
<1> QED BY DEF FreshInv, Paired

\* A step that changes neither rows nor history, and no directory of a row.
LEMMA FreshQuiet ==
  ASSUME StoreInv, FreshInv, NEW h \in Handler, NEW q \in Formed,
         req' = [req EXCEPT ![h] = q],
         UNCHANGED <<projects, retired>>, allocated \subseteq allocated', torn \subseteq torn',
         \A d \in dirs : d # req[h].disk \/ ~Holds(h) => d \in dirs',
         req[h].pc = "purge" => req[h].moved \notin RowDisks \/ req[h].moved \in dirs' \cup torn',
         Paired(q)'
  PROVE  FreshInv'
<1>1. \A g \in Handler \ {h} : req'[g] = req[g]
  BY DEF StoreInv
<1>2. RowDisks' = RowDisks
  BY DEF RowDisks
<1>3. Ledger'
  BY <1>2 DEF FreshInv, Ledger, NeverReused
<1>4. \A d \in RowDisks : Holds(h) => d # req[h].disk
  BY DEF StoreInv, Reserved, Holds
<1>5. RepoInPlace'
  BY <1>2, <1>4, StaysInPlace
<1>6. \A g \in Handler \ {h} : Paired(req[g])'
  <2> SUFFICES ASSUME NEW g \in Handler \ {h} PROVE Paired(req[g])'
    OBVIOUS
  <2>1. Paired(req[g])
    BY DEF FreshInv
  <2>2. Holds(g) /\ Holds(h) => req[g].disk # req[h].disk
    BY DEF StoreInv, Apart
  <2> QED BY <1>1, <1>2, <2>1, <2>2 DEF Paired, Holds
<1> QED BY <1>3, <1>5, <1>6, FreshFrame

LEMMA IdlePaired == Paired(Idle)' /\ Idle \in Formed
BY IdleFormed DEF Paired, Idle, HoldPc

\* The step of h starts a request, or is one that only looks.
LEMMA FreshStart ==
  ASSUME StoreInv, FreshInv, NEW h \in Handler, Start(h)
  PROVE  FreshInv'
<1>1. UNCHANGED <<db, disk, hist>> /\ At(h, "idle")
  BY DEF Start, Create, Push, Fork, Delete, Transfer, NsDelete
<1>2. PICK q \in Formed : /\ req' = [req EXCEPT ![h] = q]
                          /\ q.pc \notin HoldPc \cup {"purge"}
                          /\ q.pc = "move" => \E r \in projects : q.id = r.id /\ q.disk = r.disk
  BY StartForm
<1>3. Paired(q)'
  <2>1. CASE q.pc = "move"
    <3> PICK r \in projects : q.id = r.id /\ q.disk = r.disk
      BY <1>2, <2>1
    <3>1. q.disk \in RowDisks' /\ \A s \in projects : s.disk = q.disk => s.id = q.id
      BY <1>1 DEF RowDisks, db, FreshInv, Ledger
    <3> QED BY <1>1, <1>2, <2>1, <3>1 DEF Paired, db
  <2>2. CASE q.pc # "move"
    BY <1>2, <2>2 DEF Paired
  <2> QED BY <2>1, <2>2
<1> QED BY <1>1, <1>2, <1>3, FreshQuiet DEF db, disk, hist, At, Holds

\* A request moves on without touching rows or directories.
LEMMA FreshGoto ==
  ASSUME StoreInv, FreshInv, NEW h \in Handler,
         Find(h) \/ Slot(h) \/ CheckRepo(h) \/ MakeNs(h) \/ NsRemove(h)
  PROVE  FreshInv'
<1>1. /\ UNCHANGED <<projects, allocated, dirs, trash, retired, torn>>
      /\ req[h].pc \notin {"move", "purge", "insert", "init"}
  BY CheckRepoRemovesNothing DEF Find, Slot, CheckRepo, MakeNs, NsRemove, db, disk, hist, At
<1>2. CASE Finish(h)
  BY <1>1, <1>2, IdlePaired, FreshQuiet DEF Finish
<1>3. CASE ~Finish(h)
  <2>1. PICK q \in Formed : /\ q.pc \in {"find", "reserve", "init", "gone"}
                            /\ req' = [req EXCEPT ![h] = q]
                            /\ q.pc = "init" => Holds(h) /\ q.disk = req[h].disk
    <3>1. CASE MakeNs(h)
      BY <1>3, <3>1, GotoForm DEF MakeNs, At
    <3>2. CASE Find(h)
      BY <1>3, <3>2, GotoForm DEF Find, At
    <3>3. CASE Slot(h)
      BY <1>3, <3>3, GotoForm DEF Slot, At, HoldPc, Holds
    <3>4. CASE CheckRepo(h)
      BY <1>3, <3>4, GotoForm DEF CheckRepo, At
    <3> QED BY <1>3, <3>1, <3>2, <3>3, <3>4 DEF NsRemove
  <2>2. Paired(q)'
    BY <1>1, <2>1 DEF FreshInv, Paired, Holds, HoldPc
  <2> QED BY <1>1, <2>1, <2>2, FreshQuiet
<1> QED BY <1>2, <1>3

\* A reserved id is above every id on record, so it was never a row's.
LEMMA FreshReserve ==
  ASSUME StoreInv, FreshInv, NEW h \in Handler, Reserve(h)
  PROVE  FreshInv'
<1>1. UNCHANGED <<projects, dirs, retired, torn>> /\ req[h].pc = "reserve"
  BY DEF Reserve, disk, hist, At
<1>2. CASE Finish(h) /\ UNCHANGED allocated
  BY <1>1, <1>2, IdlePaired, FreshQuiet DEF Finish
<1>3. CASE ~(Finish(h) /\ UNCHANGED allocated)
  <2>1. PICK q \in Formed : /\ req' = [req EXCEPT ![h] = q] /\ q.pc \in {"init", "slot"}
                            /\ q.disk \notin RowDisks \cup allocated
                            /\ allocated' = allocated \cup {q.disk}
    BY <1>3, ReserveForm
  <2>2. q.disk \notin retired'
    BY <1>1, <2>1 DEF FreshInv, Ledger
  <2>3. Paired(q)'
    BY <2>1, <2>2 DEF Paired
  <2> QED BY <1>1, <2>1, <2>3, FreshQuiet
<1> QED BY <1>2, <1>3

LEMMA FreshInitRepo ==
  ASSUME StoreInv, FreshInv, NEW h \in Handler, InitRepo(h)
  PROVE  FreshInv'
<1>1. UNCHANGED <<projects, allocated, retired, torn>> /\ req[h].pc = "init" /\ Holds(h)
  BY DEF InitRepo, db, At, Holds, HoldPc
<1>2. CASE CleanUp(req[h].disk) /\ Finish(h)
  <2> \A d \in dirs : d # req[h].disk => d \in dirs'
    BY <1>2 DEF CleanUp
  <2> QED BY <1>1, <1>2, IdlePaired, FreshQuiet DEF Finish
<1>3. CASE dirs' = dirs \cup {req[h].disk} /\ Goto(h, "insert")
  <2>1. PICK q \in Formed : /\ q.pc = "insert" /\ q.disk = req[h].disk
                            /\ req' = [req EXCEPT ![h] = q]
    BY <1>1, <1>3, GotoForm DEF HoldPc
  <2>2. Paired(q)'
    BY <1>1, <1>3, <2>1 DEF FreshInv, Paired, Holds
  <2> QED BY <1>1, <1>3, <2>1, <2>2, FreshQuiet
<1> QED BY <1>2, <1>3 DEF InitRepo

\* The new row has an id no delete remembers and a repository at its path.
LEMMA FreshInsert ==
  ASSUME StoreInv, FreshInv, NEW h \in Handler, Insert(h)
  PROVE  FreshInv'
<1>1. UNCHANGED <<allocated, retired, torn>> /\ req[h].pc = "insert" /\ Holds(h)
  BY DEF Insert, At, Holds, HoldPc
<1>2. CASE CleanUp(req[h].disk) /\ Finish(h) /\ UNCHANGED projects
  <2> \A d \in dirs : d # req[h].disk => d \in dirs'
    BY <1>2 DEF CleanUp
  <2> QED BY <1>1, <1>2, IdlePaired, FreshQuiet DEF Finish
<1>3. CASE ~(CleanUp(req[h].disk) /\ Finish(h) /\ UNCHANGED projects)
  <2>1. PICK r \in Row : projects' = projects \cup {r} /\ r.disk = req[h].disk
    BY <1>3, InsertForm
  <2>2. PICK q \in Formed : req' = [req EXCEPT ![h] = q] /\ q.pc \in {"idle", "check"}
    BY <1>3, InsertForm
  <2>3. dirs' = dirs /\ RowDisks' = RowDisks \cup {r.disk}
    BY <1>3, <2>1, InsertForm DEF RowDisks, disk
  <2>4. r.disk \in allocated /\ r.disk \notin RowDisks /\ r.disk \notin retired /\ r.disk \in dirs
    BY <1>1, <2>1 DEF StoreInv, Reserved, FreshInv, Paired, Holds
  <2>5. Ledger'
    <3>1. RowDisks' \cup retired' \subseteq allocated' /\ NeverReused'
      BY <1>1, <2>3, <2>4 DEF FreshInv, Ledger, NeverReused
    <3>2. \A s \in projects : s.disk # r.disk
      BY <2>4 DEF RowDisks
    <3> QED BY <2>1, <3>1, <3>2 DEF FreshInv, Ledger
  <2>6. \A g \in Handler \ {h} : req'[g] = req[g]
    BY <2>2 DEF StoreInv
  <2>7. RepoInPlace'
    BY <1>1, <2>3, <2>4, <2>6 DEF FreshInv, RepoInPlace, At
  <2>8. \A g \in Handler \ {h} : Paired(req[g])'
    <3> SUFFICES ASSUME NEW g \in Handler \ {h} PROVE Paired(req[g])'
      OBVIOUS
    <3>1. Paired(req[g])
      BY DEF FreshInv
    <3>2. req[g].pc \in {"move", "purge"} => req[g].disk # r.disk
      BY <2>4, <3>1 DEF Paired
    <3> QED BY <1>1, <2>1, <2>3, <2>6, <3>1, <3>2 DEF Paired
  <2>9. Paired(q)'
    BY <2>2 DEF Paired, HoldPc
  <2> QED BY <2>2, <2>5, <2>7, <2>8, <2>9, FreshFrame
<1> QED BY <1>2, <1>3

\* A row goes; every other row keeps its repository.  The row whose repository
\* the deleting request has moved is the one that goes: that is what Paired
\* is for.
LEMMA FreshDeleteRow ==
  ASSUME StoreInv, FreshInv, NEW h \in Handler, DeleteRow(h), Finish(h),
         UNCHANGED <<allocated, dirs, trash, torn, left>>
  PROVE  FreshInv'
<1> DEFINE gone == {r \in projects : r.id = req[h].id}
<1>1. projects' = projects \ gone /\ retired' = retired \cup {r.disk : r \in gone}
  BY DEF DeleteRow
<1>2. RowDisks' \subseteq RowDisks /\ retired' \subseteq retired \cup RowDisks
  BY <1>1 DEF RowDisks
<1>3. RowDisks \cup retired = RowDisks' \cup retired'
  BY <1>1 DEF RowDisks
<1>4. Ledger'
  <2>1. \A r \in gone, s \in projects' : r.disk # s.disk
    BY <1>1 DEF FreshInv, Ledger
  <2>2. NeverReused'
    BY <1>1, <1>2, <2>1 DEF FreshInv, Ledger, NeverReused, RowDisks
  <2> QED BY <1>1, <1>2, <2>2 DEF FreshInv, Ledger
<1>5. req[h].pc = "purge" => req[h].moved \notin RowDisks' \/ req[h].moved = 0
  <2> SUFFICES ASSUME req[h].pc = "purge", req[h].moved # 0 PROVE req[h].moved \notin RowDisks'
    OBVIOUS
  <2>1. req[h].moved = req[h].disk
    BY DEF StoreInv, Formed
  <2>2. \A r \in projects : r.disk = req[h].disk => r \in gone
    BY DEF FreshInv, Paired
  <2> QED BY <1>1, <2>1, <2>2 DEF RowDisks
<1>6. 0 \notin RowDisks'
  BY <1>2, ConstantsAssumption DEF StoreInv, Tables, RowDisks, Row, DiskId
<1>7. RepoInPlace'
  BY <1>2, <1>5, <1>6, StaysInPlace DEF Finish
<1>8. \A g \in Handler \ {h} : Paired(req[g])'
  <2> SUFFICES ASSUME NEW g \in Handler \ {h} PROVE Paired(req[g])'
    OBVIOUS
  <2>1. Paired(req[g]) /\ (Holds(g) => req[g].disk \notin RowDisks) /\ req'[g] = req[g]
    BY DEF FreshInv, StoreInv, Reserved, Holds, Finish
  <2> QED BY <1>1, <1>2, <1>3, <2>1 DEF Paired, Holds
<1> QED BY <1>4, <1>7, <1>8, IdlePaired, FreshFrame DEF Finish

LEMMA FreshUndoInsert ==
  ASSUME StoreInv, FreshInv, NEW h \in Handler, UndoInsert(h)
  PROVE  FreshInv'
<1>1. CASE DeleteRow(h)
  BY <1>1, FreshDeleteRow DEF UndoInsert, disk
<1>2. CASE UNCHANGED <<projects, retired, astray>>
  <2> UNCHANGED <<allocated, dirs, torn>> /\ req[h].pc = "gone" /\ Finish(h)
    BY DEF UndoInsert, disk, At
  <2> QED BY <1>2, IdlePaired, FreshQuiet DEF Finish
<1> QED BY <1>1, <1>2 DEF UndoInsert

LEMMA FreshMoveToTrash ==
  ASSUME StoreInv, FreshInv, NEW h \in Handler, MoveToTrash(h)
  PROVE  FreshInv'
<1>1. UNCHANGED <<projects, allocated, retired, torn>> /\ req[h].pc = "move"
  BY DEF MoveToTrash, db, hist, At
<1>2. CASE Finish(h) /\ UNCHANGED disk
  BY <1>1, <1>2, IdlePaired, FreshQuiet DEF Finish, disk
<1>3. CASE ~(Finish(h) /\ UNCHANGED disk)
  <2>1. PICK q \in Formed : /\ req' = [req EXCEPT ![h] = q]
                            /\ q.pc = "purge" /\ q.disk = req[h].disk /\ q.id = req[h].id
                            /\ req[h].disk \in dirs => q.moved = req[h].disk
    BY <1>3, MoveForm
  <2>2. dirs' = dirs \ {req[h].disk} /\ RowDisks' = RowDisks
    BY <1>1, <1>3, MoveForm DEF RowDisks
  <2>3. Ledger'
    BY <1>1, <2>2 DEF FreshInv, Ledger, NeverReused
  <2>4. req'[h] = q /\ \A g \in Handler \ {h} : req'[g] = req[g]
    BY <2>1 DEF StoreInv
  <2>5. RepoInPlace'
    BY <1>1, <2>1, <2>2, <2>4 DEF FreshInv, RepoInPlace, At
  <2>6. \A g \in Handler \ {h} : Paired(req[g])'
    <3> SUFFICES ASSUME NEW g \in Handler \ {h} PROVE Paired(req[g])'
      OBVIOUS
    <3>1. Paired(req[g]) /\ Paired(req[h]) /\ (Holds(g) => req[g].disk \notin RowDisks)
      BY DEF FreshInv, StoreInv, Reserved, Holds
    <3>2. Holds(g) => req[g].disk # req[h].disk
      BY <1>1, <3>1 DEF Paired, Holds
    <3> QED BY <1>1, <2>2, <2>4, <3>1, <3>2 DEF Paired, Holds
  <2>7. Paired(q)'
    BY <1>1, <2>1, <2>2 DEF FreshInv, Paired, HoldPc
  <2> QED BY <2>1, <2>3, <2>5, <2>6, <2>7, FreshFrame
<1> QED BY <1>2, <1>3

LEMMA FreshPurge ==
  ASSUME StoreInv, FreshInv, NEW h \in Handler, Purge(h)
  PROVE  FreshInv'
<1>1. UNCHANGED <<allocated, namespaces>> /\ Finish(h) /\ req[h].pc = "purge"
  BY DEF Purge, At
<1>2. CASE DeleteRow(h) /\ UNCHANGED <<disk, torn, left>>
  BY <1>1, <1>2, FreshDeleteRow DEF disk
<1>3. CASE Restore(h) /\ UNCHANGED <<projects, retired, astray>>
  <2>1. req[h].moved # 0 => req[h].moved = req[h].disk
    BY DEF StoreInv, Formed
  <2>2. dirs \subseteq dirs' /\ torn \subseteq torn'
    BY <1>3 DEF Restore, disk
  <2>3. req[h].moved # 0 => req[h].moved \in dirs' \cup torn'
    BY <1>3, <2>1 DEF Restore, disk
  <2>4. 0 \notin RowDisks
    BY ConstantsAssumption DEF StoreInv, Tables, RowDisks, Row, DiskId
  <2> QED BY <1>1, <1>3, <2>2, <2>3, <2>4, IdlePaired, FreshQuiet DEF Finish
<1> QED BY <1>2, <1>3 DEF Purge

LEMMA FreshTransferCommit ==
  ASSUME StoreInv, FreshInv, NEW h \in Handler, TransferCommit(h)
  PROVE  FreshInv'
<1>1. UNCHANGED <<allocated, dirs, retired, torn>> /\ Finish(h) /\ req[h].pc = "transfer"
  BY DEF TransferCommit, disk, hist, At
<1>2. CASE UNCHANGED projects
  BY <1>1, <1>2, IdlePaired, FreshQuiet DEF Finish
<1>3. CASE \E r \in projects : projects' = (projects \ {r}) \cup {[r EXCEPT !.ns = req[h].ns]}
  <2> PICK r \in projects : projects' = (projects \ {r}) \cup {[r EXCEPT !.ns = req[h].ns]}
    BY <1>3
  <2> PICK s : s = [r EXCEPT !.ns = req[h].ns]
    OBVIOUS
  <2>1. s.disk = r.disk /\ s.id = r.id
    BY DEF StoreInv, Tables, Row
  <2>2. projects' = (projects \ {r}) \cup {s}
    OBVIOUS
  <2>3. RowDisks' = RowDisks
    BY <2>1, <2>2 DEF RowDisks
  <2>4. Ledger'
    BY <1>1, <2>1, <2>2, <2>3 DEF FreshInv, Ledger, NeverReused
  <2>5. RepoInPlace'
    BY <1>1, <2>3, StaysInPlace DEF Finish
  <2>6. \A g \in Handler \ {h} : Paired(req[g])'
    <3> SUFFICES ASSUME NEW g \in Handler \ {h} PROVE Paired(req[g])'
      OBVIOUS
    <3>1. Paired(req[g]) /\ req'[g] = req[g]
      BY <1>1 DEF FreshInv, StoreInv, Finish
    <3> QED BY <1>1, <2>1, <2>2, <2>3, <3>1 DEF Paired
  <2> QED BY <1>1, <2>4, <2>5, <2>6, IdlePaired, FreshFrame DEF Finish
<1> QED BY <1>2, <1>3 DEF TransferCommit

LEMMA FreshCancel ==
  ASSUME StoreInv, FreshInv, NEW h \in Handler, Cancel(h)
  PROVE  FreshInv'
<1>1. UNCHANGED <<projects, allocated, dirs, retired>> /\ Finish(h) /\ torn \subseteq torn'
  BY DEF Cancel, db, disk
<1>2. req[h].moved # 0 => req[h].moved \in torn'
  BY DEF Cancel, StoreInv, Formed
<1>3. 0 \notin RowDisks
  BY ConstantsAssumption DEF StoreInv, Tables, RowDisks, Row, DiskId
<1> QED BY <1>1, <1>2, <1>3, IdlePaired, FreshQuiet DEF Finish

LEMMA FreshInit ==
  ASSUME Imported = {}
  PROVE  Init => FreshInv
<1> SUFFICES ASSUME Init PROVE FreshInv
  OBVIOUS
<1>1. projects = {} /\ RowDisks = {} /\ retired = {} /\ \A h \in Handler : req[h] = Idle
  BY DEF Init, RowDisks
<1>2. Ledger /\ RepoInPlace
  BY <1>1 DEF Ledger, NeverReused, RepoInPlace
<1>3. Idle.pc \notin HoldPc \cup {"move", "purge"}
  BY DEF Idle, HoldPc
<1> QED BY <1>1, <1>2, <1>3 DEF FreshInv, Paired

LEMMA FreshStep == StoreInv /\ FreshInv /\ [Next]_vars => FreshInv'
<1> SUFFICES ASSUME StoreInv, FreshInv, [Next]_vars PROVE FreshInv'
  OBVIOUS
<1>1. ASSUME UNCHANGED <<projects, allocated, dirs, req, retired, torn>> PROVE FreshInv'
  BY <1>1 DEF FreshInv, Ledger, NeverReused, RowDisks, Paired, RepoInPlace, At
<1>2. ASSUME NEW h \in Handler, Start(h) PROVE FreshInv'
  BY <1>2, FreshStart
<1>3. ASSUME NEW h \in Handler, Step(h) PROVE FreshInv'
  BY <1>3, FreshGoto, FreshReserve, FreshInitRepo, FreshInsert, FreshUndoInsert,
     FreshMoveToTrash, FreshPurge, FreshTransferCommit, FreshCancel DEF Step
<1>4. ASSUME NEW ns \in Namespace, NsCreate(ns) PROVE FreshInv'
  BY <1>1, <1>4 DEF NsCreate, disk, hist
<1> QED BY <1>1, <1>2, <1>3, <1>4 DEF Next, vars

\* The storage path of a deleted project is never given to another project,
\* as the comment on project_disk_id_allocations promises, if the database
\* started empty.
THEOREM DiskIdsAreNeverReused ==
  ASSUME Imported = {}
  PROVE  Spec => []NeverReused
<1>1. FreshInv => NeverReused
  BY DEF FreshInv, Ledger
<1> QED BY <1>1, FreshInit, FreshStep, StoreInvariant, PTL DEF Spec

\* The repository of a project is at its hashed path outside the window
\* between a delete's rename and its commit, unless such a delete was
\* interrupted, if the database started empty.  Deletes by stale row ids and
\* clean-ups of lost races included.
THEOREM RepositoriesStayInPlace ==
  ASSUME Imported = {}
  PROVE  Spec => []RepoInPlace
<1>1. FreshInv => RepoInPlace
  BY DEF FreshInv
<1> QED BY <1>1, FreshInit, FreshStep, StoreInvariant, PTL DEF Spec

-----------------------------------------------------------------------------
(* No repository is left behind.                                            *)

\* A request about to take a row has emptied its hashed path, unless somebody
\* has put the directory back since; a path once recorded stays on record.
Cleared(q) ==
  /\ q.pc \in {"gone", "purge"} => q.disk \notin dirs \/ q.disk \in left \cup astray
  /\ q.pc \in {"check", "gone"} => q.disk \in RowDisks \cup retired

\* Inductive together with StoreInv and FreshInv.
OwnedInv == NoOrphanRepo /\ \A h \in Handler : Cleared(req[h])

\* What a step of h has to respect: directories appear only under its own new
\* id or are put on record as left behind, and no row goes without them.
LEMMA OwnedFrame ==
  ASSUME StoreInv, FreshInv, OwnedInv, NEW h \in Handler, NEW q \in Formed,
         req' = [req EXCEPT ![h] = q], Cleared(q)',
         RowDisks \cup retired \subseteq RowDisks' \cup retired', astray \subseteq astray',
         \A d \in left : d \in left' \/ d \notin dirs',
         \A d \in dirs' : d \in dirs \cup left' \/ (q.pc = "insert" /\ d = q.disk),
         \A d \in dirs' \cap RowDisks : d \in RowDisks' \cup left' \cup astray',
         req[h].pc = "insert" /\ req[h].disk \in dirs'
           => req[h].disk \in RowDisks' \cup left' \cup astray',
         q.pc = "insert" => q.disk \notin RowDisks \cup retired
  PROVE  OwnedInv'
<1>1. req'[h] = q /\ \A g \in Handler \ {h} : req'[g] = req[g]
  BY DEF StoreInv
<1>2. ASSUME NEW d \in dirs'
      PROVE  \/ d \in RowDisks' \cup astray' \cup left'
             \/ \E g \in Handler : req'[g].pc = "insert" /\ d = req'[g].disk
  <2>1. CASE d \in dirs
    <3>1. d \in RowDisks \cup astray \cup left \/ \E g \in Handler : req[g].pc = "insert" /\ d = req[g].disk
      BY <2>1 DEF OwnedInv, NoOrphanRepo, At
    <3> QED BY <1>1, <1>2, <3>1
  <2>2. CASE d \notin dirs
    BY <1>1, <1>2, <2>2
  <2> QED BY <2>1, <2>2
<1>3. NoOrphanRepo'
  BY <1>2 DEF NoOrphanRepo, At
<1>4. ASSUME NEW g \in Handler \ {h} PROVE Cleared(req[g])'
  <2>1. Cleared(req[g]) /\ Paired(req[g]) /\ req'[g] = req[g]
    BY <1>1 DEF OwnedInv, FreshInv
  <2>2. ASSUME req[g].pc \in {"gone", "purge"}, req[g].disk \in dirs'
        PROVE  req[g].disk \in left' \cup astray'
    <3>1. req[g].disk \in RowDisks \cup retired
      BY <2>1, <2>2 DEF Cleared, Paired
    <3>2. req[g].disk \in dirs \cup left'
      BY <2>2, <3>1
    <3> QED BY <2>1, <2>2, <3>2 DEF Cleared
  <2> QED BY <2>1, <2>2 DEF Cleared
<1> QED BY <1>1, <1>3, <1>4 DEF OwnedInv

LEMMA IdleCleared == Cleared(Idle)' /\ Idle \in Formed /\ Idle.pc = "idle"
BY IdleFormed DEF Cleared, Idle

\* A step that leaves rows, directories and what is known of them alone.
LEMMA OwnedQuiet ==
  ASSUME StoreInv, FreshInv, OwnedInv, NEW h \in Handler, NEW q \in Formed,
         req' = [req EXCEPT ![h] = q], Cleared(q)', q.pc # "insert", req[h].pc # "insert",
         UNCHANGED <<projects, dirs, retired, astray, left>>
  PROVE  OwnedInv'
<1>1. RowDisks' = RowDisks
  BY DEF RowDisks
<1> QED BY <1>1, OwnedFrame

LEMMA OwnedLooks ==
  ASSUME StoreInv, FreshInv, OwnedInv, NEW h \in Handler,
         Start(h) \/ MakeNs(h) \/ Find(h) \/ Reserve(h) \/ Slot(h) \/ CheckRepo(h)
           \/ (TransferCommit(h) /\ UNCHANGED projects) \/ NsRemove(h)
  PROVE  OwnedInv'
<1>1. UNCHANGED <<projects, dirs, retired, astray, left>> /\ req[h].pc # "insert"
  BY CheckRepoRemovesNothing
     DEF Start, Create, Push, Fork, Delete, Transfer, NsDelete, MakeNs, Find, Reserve, Slot,
         CheckRepo, TransferCommit, NsRemove, db, disk, hist, At
<1>2. CASE Finish(h)
  BY <1>1, <1>2, IdleCleared, OwnedQuiet DEF Finish
<1>3. CASE ~Finish(h)
  <2>1. PICK q \in Formed : /\ req' = [req EXCEPT ![h] = q] /\ q.pc # "insert"
                            /\ q.pc \notin {"check", "purge"}
                            /\ q.pc = "gone" => req[h].pc = "check" /\ q.disk = req[h].disk
                                                /\ q.disk \notin dirs
    <3>1. CASE Start(h)
      BY <3>1, StartForm DEF HoldPc
    <3>2. CASE MakeNs(h)
      BY <1>3, <3>2, GotoForm DEF MakeNs, At
    <3>3. CASE Find(h)
      BY <1>3, <3>3, GotoForm DEF Find, At
    <3>4. CASE Reserve(h)
      BY <1>3, <3>4, ReserveForm
    <3>5. CASE Slot(h)
      BY <1>3, <3>5, GotoForm DEF Slot, At, HoldPc
    <3>6. CASE CheckRepo(h)
      BY <1>3, <3>6, GotoForm DEF CheckRepo, At
    <3>7. CASE TransferCommit(h) \/ NsRemove(h)
      BY <1>3, <3>7 DEF TransferCommit, NsRemove
    <3> QED BY <3>1, <3>2, <3>3, <3>4, <3>5, <3>6, <3>7
  <2>2. Cleared(req[h]) /\ RowDisks' = RowDisks
    BY <1>1 DEF OwnedInv, RowDisks
  <2>3. Cleared(q)'
    BY <1>1, <2>1, <2>2 DEF Cleared
  <2> QED BY <1>1, <2>1, <2>3, OwnedQuiet
<1> QED BY <1>2, <1>3

\* A removal that fails is on record.
LEMMA OwnedCleanUp ==
  ASSUME StoreInv, FreshInv, OwnedInv, NEW h \in Handler, Finish(h),
         CleanUp(req[h].disk), UNCHANGED <<projects, retired, astray>>
  PROVE  OwnedInv'
<1>1. RowDisks' = RowDisks
  BY DEF RowDisks
<1>2. /\ dirs' \subseteq dirs /\ left \subseteq left'
      /\ req[h].disk \in dirs' => req[h].disk \in left'
  BY DEF CleanUp
<1> QED BY <1>1, <1>2, IdleCleared, OwnedFrame DEF Finish

LEMMA OwnedInitRepo ==
  ASSUME StoreInv, FreshInv, OwnedInv, NEW h \in Handler, InitRepo(h)
  PROVE  OwnedInv'
<1>1. UNCHANGED <<projects, retired, astray>> /\ req[h].pc = "init"
  BY DEF InitRepo, db, At
<1>2. CASE CleanUp(req[h].disk) /\ Finish(h)
  BY <1>1, <1>2, OwnedCleanUp
<1>3. CASE dirs' = dirs \cup {req[h].disk} /\ Goto(h, "insert") /\ UNCHANGED left
  <2>1. PICK q \in Formed : /\ q.pc = "insert" /\ q.disk = req[h].disk
                            /\ req' = [req EXCEPT ![h] = q]
    BY <1>1, <1>3, GotoForm DEF HoldPc
  <2>2. Paired(req[h]) /\ Reserved(req[h]) /\ RowDisks' = RowDisks
    BY <1>1 DEF FreshInv, StoreInv, RowDisks
  <2>3. q.disk \notin RowDisks \cup retired
    BY <1>1, <2>1, <2>2 DEF Paired, Reserved, HoldPc
  <2>4. Cleared(q)'
    BY <2>1 DEF Cleared
  <2> QED BY <1>1, <1>3, <2>1, <2>2, <2>3, <2>4, OwnedFrame
<1> QED BY <1>2, <1>3 DEF InitRepo

LEMMA OwnedInsert ==
  ASSUME StoreInv, FreshInv, OwnedInv, NEW h \in Handler, Insert(h)
  PROVE  OwnedInv'
<1>1. UNCHANGED <<retired, astray>> /\ req[h].pc = "insert"
  BY DEF Insert, At
<1>2. CASE CleanUp(req[h].disk) /\ Finish(h) /\ UNCHANGED projects
  BY <1>1, <1>2, OwnedCleanUp
<1>3. CASE ~(CleanUp(req[h].disk) /\ Finish(h) /\ UNCHANGED projects)
  <2>1. PICK r \in Row : projects' = projects \cup {r} /\ r.disk = req[h].disk
    BY <1>3, InsertForm
  <2>2. PICK q \in Formed : /\ req' = [req EXCEPT ![h] = q] /\ q.pc \in {"idle", "check"}
                            /\ q.pc = "check" => q.disk = req[h].disk
    BY <1>3, InsertForm
  <2>3. dirs' = dirs /\ left' = left /\ RowDisks' = RowDisks \cup {req[h].disk}
    BY <1>3, <2>1, InsertForm DEF RowDisks, disk
  <2>4. Cleared(q)'
    BY <2>2, <2>3 DEF Cleared
  <2> QED BY <1>1, <2>2, <2>3, <2>4, OwnedFrame
<1> QED BY <1>2, <1>3

\* The row that goes is the one whose path was emptied, or it goes astray.
LEMMA OwnedDeleteRow ==
  ASSUME StoreInv, FreshInv, OwnedInv, NEW h \in Handler, DeleteRow(h), Finish(h),
         req[h].pc \in {"gone", "purge"}, UNCHANGED <<dirs, left>>
  PROVE  OwnedInv'
<1> DEFINE gone == {r \in projects : r.id = req[h].id}
<1>1. /\ projects' = projects \ gone /\ retired' = retired \cup {r.disk : r \in gone}
      /\ astray' = astray \cup ({r.disk : r \in gone} \ {req[h].disk})
  BY DEF DeleteRow
<1>2. RowDisks \cup retired = RowDisks' \cup retired'
  BY <1>1 DEF RowDisks
<1>3. \A d \in RowDisks : d \in RowDisks' \/ d \in astray' \/ d = req[h].disk
  BY <1>1 DEF RowDisks
<1>4. req[h].disk \in dirs => req[h].disk \in left \cup astray
  BY DEF OwnedInv, Cleared
<1> QED BY <1>1, <1>2, <1>3, <1>4, IdleCleared, OwnedFrame DEF Finish

LEMMA OwnedUndoInsert ==
  ASSUME StoreInv, FreshInv, OwnedInv, NEW h \in Handler, UndoInsert(h)
  PROVE  OwnedInv'
<1>1. UNCHANGED <<dirs, left>> /\ req[h].pc = "gone" /\ Finish(h)
  BY DEF UndoInsert, disk, At
<1>2. CASE DeleteRow(h)
  BY <1>1, <1>2, OwnedDeleteRow
<1>3. CASE UNCHANGED <<projects, retired, astray>>
  BY <1>1, <1>3, IdleCleared, OwnedQuiet DEF Finish
<1> QED BY <1>2, <1>3 DEF UndoInsert

LEMMA OwnedMoveToTrash ==
  ASSUME StoreInv, FreshInv, OwnedInv, NEW h \in Handler, MoveToTrash(h)
  PROVE  OwnedInv'
<1>1. UNCHANGED <<projects, retired, astray>> /\ req[h].pc = "move"
  BY DEF MoveToTrash, db, At
<1>2. CASE Finish(h) /\ UNCHANGED disk
  <2>1. CASE left' = left
    BY <1>1, <1>2, <2>1, IdleCleared, OwnedQuiet DEF Finish, disk
  <2>2. CASE left' # left
    <3>1. dirs' = dirs \ {req[h].disk} /\ left' = left \ {req[h].disk} /\ RowDisks' = RowDisks
      BY <1>1, <2>2 DEF MoveToTrash, RowDisks
    <3> QED BY <1>1, <1>2, <3>1, IdleCleared, OwnedFrame DEF Finish
  <2> QED BY <2>1, <2>2
<1>3. CASE ~(Finish(h) /\ UNCHANGED disk)
  <2>1. PICK q \in Formed : /\ req' = [req EXCEPT ![h] = q]
                            /\ q.pc = "purge" /\ q.disk = req[h].disk
    BY <1>3, MoveForm
  <2>2. dirs' = dirs \ {req[h].disk} /\ left' = left \ {req[h].disk} /\ RowDisks' = RowDisks
    BY <1>1, <1>3, MoveForm DEF RowDisks
  <2>3. Cleared(q)'
    BY <2>1, <2>2 DEF Cleared
  <2> QED BY <1>1, <2>1, <2>2, <2>3, OwnedFrame
<1> QED BY <1>2, <1>3

LEMMA OwnedPurge ==
  ASSUME StoreInv, FreshInv, OwnedInv, NEW h \in Handler, Purge(h)
  PROVE  OwnedInv'
<1>1. Finish(h) /\ req[h].pc = "purge"
  BY DEF Purge, At
<1>2. CASE DeleteRow(h) /\ UNCHANGED <<disk, torn, left>>
  BY <1>1, <1>2, OwnedDeleteRow DEF disk
<1>3. CASE Restore(h) /\ UNCHANGED <<projects, retired, astray>>
  <2>1. RowDisks' = RowDisks
    BY <1>3 DEF RowDisks
  <2>2. left \subseteq left' /\ \A d \in dirs' : d \in dirs \cup left'
    BY <1>3 DEF Restore, disk
  <2> QED BY <1>1, <1>3, <2>1, <2>2, IdleCleared, OwnedFrame DEF Finish
<1> QED BY <1>2, <1>3 DEF Purge

LEMMA OwnedTransfer ==
  ASSUME StoreInv, FreshInv, OwnedInv, NEW h \in Handler, TransferCommit(h)
  PROVE  OwnedInv'
<1>1. UNCHANGED <<dirs, retired, astray, left>> /\ Finish(h) /\ req[h].pc = "transfer"
  BY DEF TransferCommit, disk, hist, At
<1>2. CASE UNCHANGED projects
  BY <1>2, OwnedLooks
<1>3. CASE \E r \in projects : projects' = (projects \ {r}) \cup {[r EXCEPT !.ns = req[h].ns]}
  <2> PICK r \in projects : projects' = (projects \ {r}) \cup {[r EXCEPT !.ns = req[h].ns]}
    BY <1>3
  <2> PICK s : s = [r EXCEPT !.ns = req[h].ns]
    OBVIOUS
  <2>1. s.disk = r.disk /\ projects' = (projects \ {r}) \cup {s}
    BY DEF StoreInv, Tables, Row
  <2>2. RowDisks' = RowDisks
    BY <2>1 DEF RowDisks
  <2> QED BY <1>1, <2>2, IdleCleared, OwnedFrame DEF Finish
<1> QED BY <1>2, <1>3 DEF TransferCommit

LEMMA OwnedCancel ==
  ASSUME StoreInv, FreshInv, OwnedInv, NEW h \in Handler, Cancel(h)
  PROVE  OwnedInv'
<1>1. UNCHANGED <<projects, dirs, retired, astray>> /\ Finish(h) /\ left \subseteq left'
  BY DEF Cancel, db, disk
<1>2. req[h].pc = "insert" => req[h].disk \in left'
  BY DEF Cancel, At
<1>3. RowDisks' = RowDisks
  BY <1>1 DEF RowDisks
<1> QED BY <1>1, <1>2, <1>3, IdleCleared, OwnedFrame DEF Finish

LEMMA OwnedStep == StoreInv /\ FreshInv /\ OwnedInv /\ [Next]_vars => OwnedInv'
<1> SUFFICES ASSUME StoreInv, FreshInv, OwnedInv, [Next]_vars PROVE OwnedInv'
  OBVIOUS
<1>1. ASSUME UNCHANGED <<projects, dirs, req, retired, astray, left>> PROVE OwnedInv'
  BY <1>1 DEF OwnedInv, NoOrphanRepo, RowDisks, Cleared, At
<1>2. ASSUME NEW h \in Handler, Start(h) PROVE OwnedInv'
  BY <1>2, OwnedLooks
<1>3. ASSUME NEW h \in Handler, Step(h) PROVE OwnedInv'
  BY <1>3, OwnedLooks, OwnedInitRepo, OwnedInsert, OwnedUndoInsert, OwnedMoveToTrash,
     OwnedPurge, OwnedTransfer, OwnedCancel DEF Step
<1>4. ASSUME NEW ns \in Namespace, NsCreate(ns) PROVE OwnedInv'
  BY <1>1, <1>4 DEF NsCreate, disk, hist
<1> QED BY <1>1, <1>2, <1>3, <1>4 DEF Next, vars

\* No repository directory outlives its request unowned, whatever requests
\* race, fail and delete, but for the leftovers that the property names, if
\* the database started empty (remove_new_repo, soft_delete and
\* restore_soft_deleted).
THEOREM NoRepositoryIsOrphaned ==
  ASSUME Imported = {}
  PROVE  Spec => []NoOrphanRepo
<1>1. Init => OwnedInv
  <2> SUFFICES ASSUME Init PROVE OwnedInv
    OBVIOUS
  <2>1. dirs = {} /\ \A h \in Handler : req[h] = Idle
    BY DEF Init
  <2> QED BY <2>1 DEF OwnedInv, NoOrphanRepo, Cleared, Idle
<1>2. OwnedInv => NoOrphanRepo
  BY DEF OwnedInv
<1> QED BY <1>1, <1>2, FreshInit, FreshStep, OwnedStep, StoreInvariant, PTL DEF Spec
=============================================================================
