------------------------ MODULE AuthorizedKeysProofs ------------------------
(***************************************************************************)
(* The file has the keys of the active users when the key handlers are     *)
(* done, for any number of users, keys and concurrent requests.            *)
(*                                                                         *)
(* The file and the body that a rebuild is about to write agree with the   *)
(* rows as they are now, but for users changed since the snapshot and for  *)
(* the keys of requests whose own rebuild has not read yet: such a request *)
(* will put its key right, and if it cannot, torn or late say so.  The     *)
(* lock makes the rebuild that reads last also the one that writes last.   *)
(***************************************************************************)
EXTENDS AuthorizedKeys, TLAPS

-----------------------------------------------------------------------------
(* Lines against rows.                                                      *)

LineOf(row) == [id |-> row.id, key |-> row.key]

LinesOf(rs, us) == {LineOf(k) : k \in {r \in rs : r.user \in us}}

Unique(rs) == \A a, b \in rs : a.id = b.id \/ a.key = b.key => a = b

\* The lines F agree with rows rs and active users us, but for the users D and
\* the keys B.
Agrees(F, D, rs, us, B) ==
  /\ \A row \in rs : row.user \notin D /\ row.key \notin B
                        => (row.user \in us <=> LineOf(row) \in F)
  /\ D = {} => \A line \in F : line.key \in B \/ line \in LinesOf(rs, us)

\* The keys of requests at one of the places S.
Owing(q, S) == {q[r].op.key : r \in {x \in Req : q[x].pc \in S}}

ToRead  == {"lock", "read"}
ToWrite == {"lock", "read", "write"}

LEMMA OwingKeeps ==
  ASSUME NEW f, NEW g, NEW S, NEW T,
         \A x \in Req : f[x].pc \in S => g[x].pc \in T /\ g[x].op = f[x].op
  PROVE  Owing(f, S) \subseteq Owing(g, T)
BY DEF Owing

LEMMA AgreesMore ==
  ASSUME NEW F, NEW D, NEW rs, NEW us, NEW B, NEW C,
         Agrees(F, D, rs, us, B), B \subseteq C
  PROVE  Agrees(F, D, rs, us, C)
BY DEF Agrees

\* Rows of one key change, and that key is owed.
LEMMA AgreesChange ==
  ASSUME NEW F, NEW D, NEW rs, NEW us, NEW B, NEW C, NEW rs2, NEW k,
         Agrees(F, D, rs, us, B), B \subseteq C, k \in C,
         \A row : row.key # k => (row \in rs2 <=> row \in rs)
  PROVE  Agrees(F, D, rs2, us, C)
<1>1. \A line \in LinesOf(rs, us) : line \in LinesOf(rs2, us) \/ line.key = k
  BY DEF LinesOf, LineOf
<1> QED
  BY <1>1 DEF Agrees

\* A user changes, or goes with their keys.
LEMMA AgreesMoved ==
  ASSUME NEW F, NEW D, NEW rs, NEW us, NEW B, NEW rs2, NEW us2, NEW u,
         Agrees(F, D, rs, us, B), rs2 \subseteq rs,
         \A x : x # u => (x \in us2 <=> x \in us)
  PROVE  Agrees(F, D \cup {u}, rs2, us2, B)
BY DEF Agrees

\* What a rebuild has just read.
LEMMA AgreesRead ==
  ASSUME NEW rs, NEW us, NEW B, Unique(rs)
  PROVE  Agrees(LinesOf(rs, us), {}, rs, us, B)
<1>1. ASSUME NEW row \in rs, LineOf(row) \in LinesOf(rs, us) PROVE row.user \in us
  <2>1. PICK other \in rs : other.user \in us /\ LineOf(row) = LineOf(other)
    BY <1>1 DEF LinesOf
  <2>2. row.id = other.id
    BY <2>1 DEF LineOf
  <2> QED
    BY <2>1, <2>2 DEF Unique
<1>2. ASSUME NEW row \in rs, row.user \in us PROVE LineOf(row) \in LinesOf(rs, us)
  BY <1>2 DEF LinesOf
<1> QED
  BY <1>1, <1>2 DEF Agrees

LEMMA LinesAreActive == ActiveLines = LinesOf(rows, active)
BY DEF ActiveLines, LinesOf, LineOf

-----------------------------------------------------------------------------
(* The invariant.                                                           *)

\* The lock is held by whoever reads and writes.
Exclusive == \A r \in Req : req[r].pc \in {"read", "write"} <=> lock = r

Stopped == ~running => \A r \in Req : req[r].pc = "idle"

FileAgrees == ~torn => Agrees(file, drift, rows, active, Owing(req, ToWrite))

\* What a rebuild is about to write, and what has moved on since it read.
BodyAgrees ==
  \A r \in Req : req[r].pc = "write" =>
    /\ ~req[r].late => Agrees(req[r].lines, req[r].fresh, rows, active, Owing(req, ToRead))
    /\ req[r].fresh \subseteq drift

KeysInv == TypeOK /\ Exclusive /\ Stopped /\ FileAgrees /\ BodyAgrees

LEMMA RequestRows ==
  /\ \A q \in Request :
       /\ q.pc \in {"idle", "change", "lock", "read", "write"}
       /\ q.op \in Op /\ q.lines \subseteq Line /\ q.fresh \subseteq User /\ q.late \in BOOLEAN
       /\ \A pc \in {"lock", "read"} :
            /\ [q EXCEPT !.pc = pc] \in Request
            /\ [q EXCEPT !.pc = pc].pc = pc /\ [q EXCEPT !.pc = pc].op = q.op
       /\ /\ [q EXCEPT !.late = TRUE] \in Request
          /\ [q EXCEPT !.late = TRUE].pc = q.pc /\ [q EXCEPT !.late = TRUE].op = q.op
          /\ [q EXCEPT !.late = TRUE].late = TRUE /\ [q EXCEPT !.late = TRUE].fresh = q.fresh
  /\ Idle \in Request /\ Idle.pc = "idle"
  /\ \A op \in Op : Asked(op) \in Request /\ Asked(op).pc = "change" /\ Asked(op).op = op
<1>1. Op # {}
  <2>1. PICK u \in User, k \in Key : TRUE
    BY SomeAssumption
  <2>2. [kind |-> "create", user |-> u, key |-> k, id |-> 1] \in Op
    BY <2>1, IdAssumption DEF Op
  <2> QED
    BY <2>2
<1>2. NoOp \in Op
  BY <1>1 DEF NoOp
<1>3. Idle \in Request /\ Idle.pc = "idle"
  BY <1>2 DEF Idle, Request
<1>4. \A op \in Op : Asked(op) \in Request /\ Asked(op).pc = "change" /\ Asked(op).op = op
  BY DEF Asked, Idle, Request
<1> QED
  BY <1>3, <1>4 DEF Request

\* A new installation has no rows, no lines and no requests.
THEOREM KeysInit == Init => KeysInv
<1> SUFFICES ASSUME Init PROVE KeysInv
  OBVIOUS
<1>1. TypeOK
  BY RequestRows DEF Init, TypeOK
<1>2. Exclusive /\ Stopped /\ BodyAgrees
  BY RequestRows, NoneAssumption DEF Init, Exclusive, Stopped, BodyAgrees
<1>3. FileAgrees
  BY DEF Init, FileAgrees, Agrees
<1> QED
  BY <1>1, <1>2, <1>3 DEF KeysInv

\* A request moves on, owing what it owed; the tables and the file stay.
LEMMA MoveKeeps ==
  ASSUME KeysInv, NEW r \in Req, NEW q \in Request, Become(r, q),
         UNCHANGED <<rows, active, file, running, drift, torn>>,
         req[r].pc # "write", q.pc # "write",
         \A S \in {ToRead, ToWrite} : req[r].pc \in S => q.pc \in S /\ q.op = req[r].op,
         q.pc # "idle" => running,
         (lock' = lock /\ (q.pc = "read" <=> req[r].pc = "read"))
           \/ (lock = None /\ lock' = r /\ q.pc = "read")
  PROVE  KeysInv'
<1>1. req' \in [Req -> Request] /\ req'[r] = q /\ \A x \in Req : x # r => req'[x] = req[x]
  BY DEF KeysInv, TypeOK, Become
<1>2. TypeOK'
  BY <1>1 DEF KeysInv, TypeOK
<1>3. Exclusive'
  BY <1>1, NoneAssumption DEF KeysInv, Exclusive
<1>4. Stopped'
  BY <1>1 DEF KeysInv, Stopped
<1>5. ASSUME NEW S \in {ToRead, ToWrite} PROVE Owing(req, S) \subseteq Owing(req', S)
  <2>1. \A x \in Req : req[x].pc \in S => req'[x].pc \in S /\ req'[x].op = req[x].op
    BY <1>1
  <2> QED
    BY <2>1, OwingKeeps
<1>6. FileAgrees'
  BY <1>5, AgreesMore DEF KeysInv, FileAgrees
<1>7. BodyAgrees'
  <2> SUFFICES ASSUME NEW x \in Req, req'[x].pc = "write"
               PROVE  /\ ~req'[x].late =>
                           Agrees(req'[x].lines, req'[x].fresh, rows', active', Owing(req', ToRead))
                      /\ req'[x].fresh \subseteq drift'
    BY DEF BodyAgrees
  <2>1. req'[x] = req[x]
    BY <1>1
  <2>2. /\ ~req[x].late => Agrees(req[x].lines, req[x].fresh, rows, active, Owing(req, ToRead))
        /\ req[x].fresh \subseteq drift
    BY <2>1 DEF KeysInv, BodyAgrees
  <2> QED
    BY <1>5, <2>1, <2>2, AgreesMore
<1> QED
  BY <1>2, <1>3, <1>4, <1>6, <1>7 DEF KeysInv

LEMMA RequestTyped == KeysInv => \A r \in Req : req[r] \in Request
BY DEF KeysInv, TypeOK

LEMMA BeginKeeps ==
  ASSUME KeysInv, NEW r \in Req, BeginCreate(r) \/ BeginDelete(r)
  PROVE  KeysInv'
<1>1. PICK op \in Op : Become(r, Asked(op))
  <2>1. CASE BeginCreate(r)
    <3>1. \A u \in User, k \in Key : [kind |-> "create", user |-> u, key |-> k, id |-> 1] \in Op
      BY IdAssumption DEF Op
    <3> QED
      BY <2>1, <3>1 DEF BeginCreate, KeysInv, TypeOK
  <2>2. CASE BeginDelete(r)
    <3>1. \A u \in User, k \in Key, id \in 1..MaxId :
            [kind |-> "delete", user |-> u, key |-> k, id |-> id] \in Op
      BY DEF Op
    <3>2. \A row \in rows : row.key \in Key /\ row.id \in 1..MaxId
      BY DEF KeysInv, TypeOK, Row
    <3> QED
      BY <2>2, <3>1, <3>2 DEF BeginDelete, KeysInv, TypeOK
  <2> QED
    BY <2>1, <2>2
<1>2. req[r] = Idle /\ running /\ UNCHANGED <<rows, active, file, lock, running, drift, torn>>
  BY DEF BeginCreate, BeginDelete
<1>3. Asked(op) \in Request /\ Asked(op).pc = "change" /\ req[r].pc = "idle"
  BY <1>2, RequestRows
<1> QED
  BY <1>1, <1>2, <1>3, MoveKeeps DEF ToRead, ToWrite

LEMMA DropKeeps == ASSUME KeysInv, NEW r \in Req, Drop(r) PROVE KeysInv'
<1>1. Idle \in Request /\ Idle.pc = "idle" /\ req[r].pc = "change"
  BY RequestRows DEF Drop
<1> QED
  BY <1>1, MoveKeeps DEF Drop, ToRead, ToWrite

LEMMA LockKeeps == ASSUME KeysInv, NEW r \in Req, Lock(r) PROVE KeysInv'
<1> DEFINE q == [req[r] EXCEPT !.pc = "read"]
<1>1. q \in Request /\ q.pc = "read" /\ q.op = req[r].op
  BY RequestRows, RequestTyped
<1>2. Become(r, q) /\ req[r].pc = "lock" /\ lock = None /\ lock' = r
      /\ UNCHANGED <<rows, active, file, running, drift, torn>>
  BY DEF Lock, LockFreed
<1>3. running
  BY <1>2 DEF KeysInv, Stopped
<1> HIDE DEF q
<1> QED
  BY <1>1, <1>2, <1>3, MoveKeeps DEF ToRead, ToWrite

\* The statement leaves rows that are still unique, and changes only those of
\* one key.
LEMMA AfterRows ==
  ASSUME KeysInv, NEW op \in Op, NEW id \in 1..MaxId + 1, NextRowId(id),
         \A row \in After(op, id) : row.id <= MaxId
  PROVE  /\ After(op, id) \subseteq Row /\ Unique(After(op, id))
         /\ \A changed \in (rows \ After(op, id)) \cup (After(op, id) \ rows) :
              /\ changed.key \in Key
              /\ \A row : row.key # changed.key => (row \in After(op, id) <=> row \in rows)
<1> DEFINE new == [id |-> id, user |-> op.user, key |-> op.key]
<1>1. rows \subseteq Row /\ Unique(rows)
  BY DEF KeysInv, TypeOK, Unique
<1>2. op.user \in User /\ op.key \in Key /\ op.kind \in {"create", "delete"}
  BY DEF Op
<1>3. CASE op.kind = "delete"
  <2>1. \A row : row \in After(op, id) <=> row \in rows /\ ~(row.id = op.id /\ row.user = op.user)
    BY <1>3 DEF After
  <2>2. After(op, id) \subseteq Row /\ Unique(After(op, id))
    BY <1>1, <2>1 DEF Unique
  <2>3. \A a, b \in rows : a \notin After(op, id) /\ b \notin After(op, id) => a = b
    BY <1>1, <2>1 DEF Unique
  <2> QED
    BY <1>1, <2>1, <2>2, <2>3 DEF Row
<1>4. CASE op.kind = "create" /\ \E row \in rows : row.key = op.key
  BY <1>1, <1>4 DEF After
<1>5. CASE op.kind = "create" /\ ~\E row \in rows : row.key = op.key
  <2>1. After(op, id) = rows \cup {new}
    BY <1>5 DEF After
  <2>2. new.key = op.key /\ new.id = id
    OBVIOUS
  <2>3. id <= MaxId
    BY <2>1, <2>2
  <2>4. new \in Row
    BY <1>2, <2>3, IdAssumption DEF Row
  <2>5. \A row \in rows : row.id # id /\ row.key # op.key
    BY <1>1, <1>5, IdAssumption DEF NextRowId, Row
  <2> HIDE DEF new
  <2> QED
    BY <1>1, <1>2, <2>1, <2>2, <2>4, <2>5 DEF Unique
<1> QED
  BY <1>2, <1>3, <1>4, <1>5

LEMMA TouchedRequest ==
  ASSUME NEW q \in Request, NEW row, row.key \in Key
  PROVE  /\ Touched(q, row) \in Request /\ Touched(q, row).pc = "lock"
         /\ Touched(q, row).op.key = row.key
<1> DEFINE op == [q.op EXCEPT !.key = row.key]
<1>1. op \in Op /\ op.key = row.key
  BY DEF Request, Op
<1>2. Touched(q, row) = [q EXCEPT !.pc = "lock", !.op = op]
  BY DEF Touched
<1> HIDE DEF op
<1> QED
  BY <1>1, <1>2 DEF Request

LEMMA ChangeKeeps == ASSUME KeysInv, NEW r \in Req, Change(r) PROVE KeysInv'
<1>1. PICK id \in 1..MaxId + 1 :
        /\ NextRowId(id) /\ rows' = After(req[r].op, id)
        /\ \A row \in rows' : row.id <= MaxId
  BY DEF Change
<1>2. UNCHANGED <<active, file, lock, running, drift, torn>> /\ req[r].pc = "change"
  BY DEF Change
<1>3. CASE rows' = rows
  <2>1. Become(r, Idle) /\ Idle \in Request /\ Idle.pc = "idle"
    BY <1>3, RequestRows DEF Change
  <2> QED
    BY <1>2, <1>3, <2>1, MoveKeeps DEF ToRead, ToWrite
<1>4. ASSUME NEW changed \in (rows \ rows') \cup (rows' \ rows), Become(r, Touched(req[r], changed))
      PROVE  KeysInv'
  <2> DEFINE q == Touched(req[r], changed)
             k == changed.key
  <2>1. req[r] \in Request /\ req[r].op \in Op
    BY RequestRows, RequestTyped
  <2>2. /\ rows' \subseteq Row /\ Unique(rows') /\ k \in Key
        /\ \A row : row.key # k => (row \in rows' <=> row \in rows)
    BY <1>1, <1>4, <2>1, AfterRows
  <2>3. q \in Request /\ q.pc = "lock" /\ q.op.key = k
    BY <2>1, <2>2, TouchedRequest
  <2> HIDE DEF q
  <2>4. req' \in [Req -> Request] /\ req'[r] = q /\ \A x \in Req : x # r => req'[x] = req[x]
    BY <1>4, <2>3 DEF q, KeysInv, TypeOK, Become
  <2>5. ASSUME NEW S \in {ToRead, ToWrite}
        PROVE  Owing(req, S) \subseteq Owing(req', S) /\ k \in Owing(req', S)
    <3>1. \A x \in Req : req[x].pc \in S => req'[x].pc \in S /\ req'[x].op = req[x].op
      BY <1>2, <2>4 DEF ToRead, ToWrite
    <3>2. req'[r].pc \in S /\ req'[r].op.key = k
      BY <2>3, <2>4 DEF ToRead, ToWrite
    <3> QED
      BY <3>1, <3>2, OwingKeeps DEF Owing
  <2> HIDE DEF k
  <2>6. TypeOK'
    BY <1>2, <2>2, <2>4 DEF KeysInv, TypeOK, Unique
  <2>7. Exclusive'
    BY <1>2, <2>3, <2>4 DEF KeysInv, Exclusive
  <2>8. Stopped'
    BY <1>2, <2>4 DEF KeysInv, Stopped
  <2>9. FileAgrees'
    BY <1>2, <2>2, <2>5, AgreesChange DEF KeysInv, FileAgrees
  <2>10. BodyAgrees'
    <3> SUFFICES ASSUME NEW x \in Req, req'[x].pc = "write"
                 PROVE  /\ ~req'[x].late =>
                             Agrees(req'[x].lines, req'[x].fresh, rows', active', Owing(req', ToRead))
                        /\ req'[x].fresh \subseteq drift'
      BY DEF BodyAgrees
    <3>1. req'[x] = req[x]
      BY <2>3, <2>4
    <3>2. /\ ~req[x].late => Agrees(req[x].lines, req[x].fresh, rows, active, Owing(req, ToRead))
          /\ req[x].fresh \subseteq drift
      BY <3>1 DEF KeysInv, BodyAgrees
    <3> QED
      BY <1>2, <2>2, <2>5, <3>1, <3>2, AgreesChange
  <2> QED
    BY <2>6, <2>7, <2>8, <2>9, <2>10 DEF KeysInv
<1> QED
  BY <1>1, <1>3, <1>4 DEF Change

\* Nobody else reads or writes beside the holder of the lock.
LEMMA Alone ==
  ASSUME KeysInv, NEW r \in Req, req[r].pc \in {"read", "write"}
  PROVE  lock = r /\ \A x \in Req : x # r => req[x].pc \notin {"read", "write"}
BY DEF KeysInv, Exclusive

LEMMA LinesTyped == KeysInv => ActiveLines \subseteq Line
<1> SUFFICES ASSUME KeysInv, NEW k \in rows
             PROVE  [id |-> k.id, key |-> k.key] \in Line
  BY DEF ActiveLines
<1>1. k \in Row
  BY DEF KeysInv, TypeOK
<1> QED
  BY <1>1 DEF Row, Line

LEMMA ReadKeeps == ASSUME KeysInv, NEW r \in Req, Read(r) PROVE KeysInv'
<1> DEFINE q == [req[r] EXCEPT !.pc = "write", !.lines = ActiveLines, !.fresh = {}, !.late = FALSE]
<1>1. /\ Become(r, q) /\ req[r].pc = "read"
      /\ UNCHANGED <<rows, active, file, lock, running, drift, torn>>
  BY DEF Read
<1>2. ActiveLines \subseteq Line
  BY LinesTyped
<1>3. /\ q \in Request /\ q.pc = "write" /\ q.op = req[r].op /\ q.lines = ActiveLines
      /\ q.fresh = {} /\ q.late = FALSE
  BY <1>2, RequestTyped DEF Request
<1> HIDE DEF q
<1>4. req' \in [Req -> Request] /\ req'[r] = q /\ \A x \in Req : x # r => req'[x] = req[x]
  BY <1>1, <1>3 DEF KeysInv, TypeOK, Become
<1>5. TypeOK'
  BY <1>1, <1>4 DEF KeysInv, TypeOK
<1>6. Exclusive'
  BY <1>1, <1>3, <1>4 DEF KeysInv, Exclusive
<1>7. Stopped'
  BY <1>1, <1>4 DEF KeysInv, Stopped
<1>8. FileAgrees'
  <2>1. Owing(req, ToWrite) \subseteq Owing(req', ToWrite)
    <3>1. \A x \in Req : req[x].pc \in ToWrite => req'[x].pc \in ToWrite /\ req'[x].op = req[x].op
      BY <1>1, <1>3, <1>4 DEF ToWrite
    <3> QED
      BY <3>1, OwingKeeps
  <2> QED
    BY <1>1, <2>1, AgreesMore DEF KeysInv, FileAgrees
<1>9. BodyAgrees'
  <2>1. \A x \in Req : req'[x].pc = "write" => x = r
    BY <1>1, <1>4, Alone
  <2>2. Agrees(LinesOf(rows, active), {}, rows, active, Owing(req', ToRead))
    BY AgreesRead DEF KeysInv, TypeOK, Unique
  <2>3. req'[r].lines = LinesOf(rows, active) /\ req'[r].fresh = {}
    BY <1>3, <1>4, LinesAreActive
  <2>4. rows' = rows /\ active' = active
    BY <1>1
  <2> QED
    BY <2>1, <2>2, <2>3, <2>4 DEF BodyAgrees
<1> QED
  BY <1>5, <1>6, <1>7, <1>8, <1>9 DEF KeysInv

LEMMA WriteKeeps == ASSUME KeysInv, NEW r \in Req, Write(r) PROVE KeysInv'
<1>1. /\ Become(r, Idle) /\ req[r].pc = "write" /\ lock' = None
      /\ file' = req[r].lines /\ drift' = req[r].fresh /\ torn' = req[r].late
      /\ UNCHANGED <<rows, active, running>>
  BY DEF Write
<1>2. req[r] \in Request
  BY RequestTyped
<1>3. req' \in [Req -> Request] /\ req'[r] = Idle /\ \A x \in Req : x # r => req'[x] = req[x]
  BY <1>1, RequestRows DEF KeysInv, TypeOK, Become
<1>4. Idle.pc = "idle"
  BY RequestRows
<1>5. \A x \in Req : req'[x].pc \notin {"read", "write"}
  BY <1>1, <1>3, <1>4, Alone
<1>6. TypeOK'
  <2>1. file' \subseteq Line /\ drift' \subseteq User /\ torn' \in BOOLEAN
    BY <1>1, <1>2, RequestRows
  <2> QED
    BY <1>1, <1>3, <2>1 DEF KeysInv, TypeOK
<1>7. Exclusive'
  BY <1>1, <1>5, NoneAssumption DEF Exclusive
<1>8. Stopped'
  BY <1>1, <1>3, <1>4 DEF KeysInv, Stopped
<1>9. BodyAgrees'
  BY <1>5 DEF BodyAgrees
<1>10. FileAgrees'
  <2>1. Owing(req, ToRead) \subseteq Owing(req', ToWrite)
    <3>1. \A x \in Req : req[x].pc \in ToRead => req'[x].pc \in ToWrite /\ req'[x].op = req[x].op
      BY <1>1, <1>3 DEF ToRead, ToWrite
    <3> QED
      BY <3>1, OwingKeeps
  <2>2. ~req[r].late => Agrees(req[r].lines, req[r].fresh, rows, active, Owing(req, ToRead))
    BY <1>1 DEF KeysInv, BodyAgrees
  <2> QED
    BY <1>1, <2>1, <2>2, AgreesMore DEF FileAgrees
<1> QED
  BY <1>6, <1>7, <1>8, <1>9, <1>10 DEF KeysInv

LEMMA FailKeeps == ASSUME KeysInv, NEW r \in Req, Fail(r) PROVE KeysInv'
<1>1. /\ torn' = TRUE /\ lock' = (IF lock = r THEN None ELSE lock)
      /\ req[r].pc \in {"lock", "read", "write"} /\ file' \in {file, req[r].lines}
      /\ UNCHANGED <<rows, active, running, drift>>
  BY DEF Fail
<1>2. ASSUME NEW x \in Req
      PROVE  /\ req'[x] \in Request
             /\ x = r => req'[x].pc = "idle"
             /\ x # r => /\ req'[x].pc = req[x].pc /\ req'[x].fresh = req[x].fresh
                         /\ req[x].pc = "write" => req'[x].late = TRUE
  <2>1. req'[x] = IF x = r THEN Idle
                  ELSE IF req[x].pc = "write" THEN [req[x] EXCEPT !.late = TRUE] ELSE req[x]
    BY DEF Fail
  <2>2. CASE x = r
    BY <2>1, <2>2, RequestRows
  <2>3. CASE x # r /\ req[x].pc = "write"
    <3> DEFINE q == [req[x] EXCEPT !.late = TRUE]
    <3>1. req'[x] = q
      BY <2>1, <2>3
    <3>2. q \in Request /\ q.pc = req[x].pc /\ q.late = TRUE /\ q.fresh = req[x].fresh
      BY RequestRows, RequestTyped
    <3> HIDE DEF q
    <3> QED
      BY <2>3, <3>1, <3>2
  <2>4. CASE x # r /\ req[x].pc # "write"
    BY <2>1, <2>4, RequestTyped
  <2> QED
    BY <2>2, <2>3, <2>4
<1>3. TypeOK'
  <2>1. req' \in [Req -> Request]
    BY <1>2 DEF Fail
  <2>2. file \subseteq Line /\ req[r].lines \subseteq Line
    BY RequestRows, RequestTyped DEF KeysInv, TypeOK
  <2> QED
    BY <1>1, <2>1, <2>2 DEF KeysInv, TypeOK
<1>4. Exclusive'
  BY <1>1, <1>2, NoneAssumption DEF KeysInv, Exclusive
<1>5. Stopped'
  BY <1>1, <1>2 DEF KeysInv, Stopped
<1>6. FileAgrees'
  BY <1>1 DEF FileAgrees
<1>7. BodyAgrees'
  BY <1>1, <1>2 DEF KeysInv, BodyAgrees
<1> QED
  BY <1>3, <1>4, <1>5, <1>6, <1>7 DEF KeysInv

-----------------------------------------------------------------------------
(* Users and the server.                                                    *)

\* A user changes state, or goes with their keys.
LEMMA MovedKeeps ==
  ASSUME KeysInv, NEW u \in User, Moved(u), running,
         active' \subseteq User, \A x : x # u => (x \in active' <=> x \in active),
         rows' \subseteq rows, UNCHANGED <<file, lock, running, torn>>
  PROVE  KeysInv'
<1>1. ASSUME NEW x \in Req
      PROVE  /\ req'[x] \in Request
             /\ req'[x].pc = req[x].pc /\ req'[x].op = req[x].op
             /\ req[x].pc = "write" => /\ req'[x].lines = req[x].lines
                                       /\ req'[x].late = req[x].late
                                       /\ req'[x].fresh = req[x].fresh \cup {u}
  <2>1. req'[x] = IF req[x].pc = "write" THEN [req[x] EXCEPT !.fresh = @ \cup {u}] ELSE req[x]
    BY DEF Moved
  <2>2. req[x] \in Request
    BY RequestTyped
  <2>3. CASE req[x].pc = "write"
    <3> DEFINE q == [req[x] EXCEPT !.fresh = @ \cup {u}]
    <3>1. req'[x] = q
      BY <2>1, <2>3
    <3>2. /\ q \in Request /\ q.pc = req[x].pc /\ q.op = req[x].op
          /\ q.lines = req[x].lines /\ q.late = req[x].late /\ q.fresh = req[x].fresh \cup {u}
      BY <2>2 DEF Request
    <3> HIDE DEF q
    <3> QED
      BY <2>3, <3>1, <3>2
  <2>4. CASE req[x].pc # "write"
    BY <2>1, <2>2, <2>4
  <2> QED
    BY <2>3, <2>4
<1>2. drift' = drift \cup {u}
  BY DEF Moved
<1>3. TypeOK'
  <2>1. req' \in [Req -> Request]
    BY <1>1 DEF Moved
  <2> QED
    BY <1>2, <2>1 DEF KeysInv, TypeOK
<1>4. Exclusive'
  BY <1>1 DEF KeysInv, Exclusive
<1>5. Stopped'
  BY DEF Stopped
<1>6. \A S : Owing(req', S) = Owing(req, S)
  BY <1>1 DEF Owing
<1>7. FileAgrees'
  BY <1>2, <1>6, AgreesMoved DEF KeysInv, FileAgrees
<1>8. BodyAgrees'
  <2> SUFFICES ASSUME NEW x \in Req, req'[x].pc = "write"
               PROVE  /\ ~req'[x].late =>
                           Agrees(req'[x].lines, req'[x].fresh, rows', active', Owing(req', ToRead))
                      /\ req'[x].fresh \subseteq drift'
    BY DEF BodyAgrees
  <2>1. /\ ~req[x].late => Agrees(req[x].lines, req[x].fresh, rows, active, Owing(req, ToRead))
        /\ req[x].fresh \subseteq drift
    BY <1>1 DEF KeysInv, BodyAgrees
  <2>2. /\ req'[x].lines = req[x].lines /\ req'[x].late = req[x].late
        /\ req'[x].fresh = req[x].fresh \cup {u}
    BY <1>1
  <2>3. req'[x].fresh \subseteq drift'
    BY <1>2, <2>1, <2>2
  <2>4. ASSUME ~req[x].late
        PROVE  Agrees(req[x].lines, req[x].fresh \cup {u}, rows', active', Owing(req, ToRead))
    BY <2>1, <2>4, AgreesMoved
  <2> QED
    BY <1>6, <2>2, <2>3, <2>4
<1> QED
  BY <1>3, <1>4, <1>5, <1>7, <1>8 DEF KeysInv

LEMMA UserKeeps ==
  ASSUME KeysInv, NEW u \in User, SetState(u) \/ DeleteUser(u)
  PROVE  KeysInv'
<1>1. active \subseteq User
  BY DEF KeysInv, TypeOK
<1>2. CASE SetState(u)
  BY <1>1, <1>2, MovedKeeps DEF SetState
<1>3. CASE DeleteUser(u)
  BY <1>1, <1>3, MovedKeeps DEF DeleteUser
<1> QED
  BY <1>2, <1>3

LEMMA CrashKeeps == ASSUME KeysInv, Crash PROVE KeysInv'
<1>1. /\ torn' = TRUE /\ lock' = None /\ req' = [r \in Req |-> Idle]
      /\ UNCHANGED <<rows, active, file, drift>> /\ running' = FALSE
  BY DEF Crash
<1>2. \A r \in Req : req'[r] \in Request /\ req'[r].pc = "idle"
  BY <1>1, RequestRows
<1>3. TypeOK'
  <2>1. req' \in [Req -> Request]
    BY <1>1, RequestRows
  <2> QED
    BY <1>1, <2>1 DEF KeysInv, TypeOK
<1>4. (Exclusive /\ Stopped /\ FileAgrees /\ BodyAgrees)'
  BY <1>1, <1>2, NoneAssumption DEF Exclusive, Stopped, FileAgrees, BodyAgrees
<1> QED
  BY <1>3, <1>4 DEF KeysInv

LEMMA RestartKeeps == ASSUME KeysInv, Restart PROVE KeysInv'
<1>1. /\ ~running /\ running' = TRUE /\ file' = ActiveLines /\ drift' = {}
      /\ UNCHANGED <<rows, active, lock, req>> /\ torn' = FALSE
  BY DEF Restart
<1>2. \A r \in Req : req[r].pc = "idle"
  BY <1>1 DEF KeysInv, Stopped
<1>3. TypeOK'
  BY <1>1, LinesTyped DEF KeysInv, TypeOK
<1>4. (Exclusive /\ Stopped /\ BodyAgrees)'
  BY <1>1, <1>2 DEF KeysInv, Exclusive, Stopped, BodyAgrees
<1>5. FileAgrees'
  <2>1. file' = LinesOf(rows, active)
    BY <1>1, LinesAreActive
  <2>2. Unique(rows)
    BY DEF KeysInv, TypeOK, Unique
  <2>3. Agrees(file', drift', rows, active, Owing(req', ToWrite))
    BY <1>1, <2>1, <2>2, AgreesRead
  <2> QED
    BY <1>1, <2>3 DEF FileAgrees
<1> QED
  BY <1>3, <1>4, <1>5 DEF KeysInv

\* No step of a key handler, an administrator or the server breaks it.
THEOREM KeysNext == KeysInv /\ [Next]_vars => KeysInv'
<1> SUFFICES ASSUME KeysInv, [Next]_vars PROVE KeysInv'
  OBVIOUS
<1>1. CASE UNCHANGED vars
  BY <1>1 DEF vars, KeysInv, TypeOK, Exclusive, Stopped, FileAgrees, BodyAgrees
<1>2. ASSUME NEW r \in Req, BeginCreate(r) \/ BeginDelete(r) \/ Sync(r) \/ Drop(r) \/ Fail(r)
      PROVE  KeysInv'
  BY <1>2, BeginKeeps, ChangeKeeps, LockKeeps, ReadKeeps, WriteKeeps, DropKeeps, FailKeeps
     DEF Sync
<1>3. ASSUME NEW u \in User, SetState(u) \/ DeleteUser(u) PROVE KeysInv'
  BY <1>3, UserKeeps
<1>4. CASE Crash \/ Restart
  BY <1>4, CrashKeeps, RestartKeeps
<1> QED
  BY <1>1, <1>2, <1>3, <1>4 DEF Next

\* The file and the bodies of rebuilds agree with the rows in every state.
THEOREM KeysInvariant == Spec => []KeysInv
BY KeysInit, KeysNext, PTL DEF Spec

-----------------------------------------------------------------------------
(* What follows.                                                            *)

\* ssh_keys keeps ids and fingerprints unique, and every request its type.
THEOREM KeysTyped == Spec => []TypeOK
<1>1. KeysInv => TypeOK
  BY DEF KeysInv
<1> QED
  BY <1>1, KeysInvariant, PTL

\* When no request is left there is nobody to owe a key.
LEMMA QuiescentComplete == KeysInv => FileIsComplete
<1> SUFFICES ASSUME KeysInv, Quiescent
             PROVE  /\ \A row \in Settled :
                         row.user \in active <=> [id |-> row.id, key |-> row.key] \in file
                    /\ drift = {} => file = ActiveLines
  BY DEF FileIsComplete
<1>1. \A r \in Req : req[r].pc = "idle"
  BY RequestRows DEF Quiescent
<1>2. Owing(req, ToWrite) = {}
  BY <1>1 DEF Owing, ToWrite
<1>3. Agrees(file, drift, rows, active, {})
  BY <1>2 DEF KeysInv, FileAgrees, Quiescent
<1>4. \A row \in Settled : row.user \in active <=> [id |-> row.id, key |-> row.key] \in file
  BY <1>3 DEF Agrees, Settled, LineOf
<1>5. ASSUME drift = {} PROVE file = ActiveLines
  <2>1. \A line \in file : line \in ActiveLines
    BY <1>3, <1>5, LinesAreActive DEF Agrees
  <2>2. \A line \in LinesOf(rows, active) : line \in file
    BY <1>3, <1>5 DEF Agrees, LinesOf
  <2> QED
    BY <2>1, <2>2, LinesAreActive
<1> QED
  BY <1>4, <1>5

\* When the key handlers are done and none failed, the file has exactly the
\* keys of the active users, but for users changed since the last rebuild.
THEOREM FileComplete == Spec => []FileIsComplete
BY KeysInvariant, QuiescentComplete, PTL

\* A line goes from the file only in a rebuild, whose body agrees with the
\* rows but for the keys of requests that have still to read.
LEMMA RebuildKeeps ==
  ASSUME KeysInv, [Next]_vars, ~torn', NEW line \in file \ file', NEW row \in rows,
         row.id = line.id, row.key = line.key, row.user \in active \ drift
  PROVE  \E r \in Req : req[r].op.key = row.key /\ req[r].pc \in {"lock", "read"}
<1>1. file' # file
  OBVIOUS
<1>2. line = LineOf(row)
  <2>1. line \in Line
    BY DEF KeysInv, TypeOK
  <2> QED
    BY <2>1 DEF Line, LineOf
<1>3. CASE Restart
  <2>1. LineOf(row) \in ActiveLines
    BY LinesAreActive DEF LinesOf
  <2> QED
    BY <1>2, <1>3, <2>1 DEF Restart
<1>4. ASSUME NEW r \in Req, Write(r)
      PROVE  \E x \in Req : req[x].op.key = row.key /\ req[x].pc \in {"lock", "read"}
  <2>1. req[r].pc = "write" /\ file' = req[r].lines /\ ~req[r].late
    BY <1>4 DEF Write
  <2>2. /\ Agrees(req[r].lines, req[r].fresh, rows, active, Owing(req, ToRead))
        /\ req[r].fresh \subseteq drift
    BY <2>1 DEF KeysInv, BodyAgrees
  <2>3. row.user \notin req[r].fresh /\ LineOf(row) \notin req[r].lines
    BY <1>2, <2>1, <2>2
  <2>4. row.key \in Owing(req, ToRead)
    BY <2>2, <2>3 DEF Agrees
  <2> QED
    BY <2>4 DEF Owing, ToRead
<1>5. Restart \/ \E r \in Req : Write(r)
  BY <1>1 DEF Next, vars, Sync, BeginCreate, BeginDelete, Change, Lock, Read, Drop, Fail,
              SetState, DeleteUser, Crash
<1> QED
  BY <1>3, <1>4, <1>5

\* Unless a rebuild failed meanwhile, none takes the line of a row whose own
\* request is done and whose user has not changed.
THEOREM WorkingKeysStay == Spec => KeysKeepWorking
<1>1. KeysInv /\ [Next]_vars =>
        [~torn' =>
           \A line \in file \ file', row \in rows :
             (row.id = line.id /\ row.key = line.key /\ row.user \in active \ drift)
               => \E r \in Req : req[r].op.key = row.key /\ req[r].pc \in {"lock", "read"}]_vars
  BY RebuildKeeps
<1> QED
  BY <1>1, KeysInvariant, PTL DEF Spec, KeysKeepWorking
=============================================================================
