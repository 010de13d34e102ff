--------------------------- MODULE LfsStoreProofs ---------------------------
(***************************************************************************)
(* Whatever a project can download is stored whole: for any number of      *)
(* uploads, batch requests, projects, kills and restarts.                  *)
(*                                                                         *)
(* The rename is safe because the fragment is the upload's own, and that   *)
(* because no running upload has a number the sequence has yet to give.    *)
(* The rows are safe because the file is in place before they are inserted *)
(* and nothing takes a file away or writes into it under its final name.   *)
(***************************************************************************)
EXTENDS LfsStore, TLAPS

Stopped == ~up => \A r \in Req : req[r].pc = "idle"

\* The numbers of running uploads have been given.
Numbered == \A r \in Req : req[r].pc \in Uploading => req[r].seq < seq

\* What a request is about to do with rows is right.
Placed ==
  \A r \in Req : /\ req[r].pc = "insert" => stored[req[r].oid] = "whole"
                 /\ req[r].pc = "link" => req[r].oid \in objects

RowsAreStored == \A o \in objects : stored[o] = "whole"

LfsInv == /\ TypeOK /\ Stopped /\ Numbered /\ OwnPart
          /\ Placed /\ RowsAreStored /\ StoredIsWhole

-----------------------------------------------------------------------------
(* Requests.                                                                *)

LEMMA RequestFields ==
  ASSUME NEW q \in Request
  PROVE  q.pc \in Pc /\ q.id \in Id \cup {0} /\ q.oid \in Oid /\ q.seq \in Seq
  BY DEF Request

LEMMA RequestMoves ==
  ASSUME NEW q \in Request, NEW pc \in Pc
  PROVE  [q EXCEPT !.pc = pc] \in Request
  BY DEF Request

LEMMA NewRequest ==
  ASSUME NEW pc \in Pc, NEW i \in Id, NEW o \in Oid, NEW n \in Seq
  PROVE  [pc |-> pc, id |-> i, oid |-> o, seq |-> n] \in Request
  BY DEF Request

LEMMA ZeroIsSeq == 0 \in Seq /\ Seq \subseteq Nat /\ \A n \in Seq : n < MaxSeq => n + 1 \in Seq
  BY BoundsAssumption DEF Seq

LEMMA IdleTyped == Idle \in Request /\ Idle.pc = "idle"
<1>1. (CHOOSE o \in Oid : TRUE) \in Oid
  BY OidAssumption
<1> QED
  BY <1>1, ZeroIsSeq DEF Idle, Request, Pc


LEMMA DoneTyped ==
  ASSUME req \in [Req -> Request], NEW r \in Req, Done(r)
  PROVE  /\ req' \in [Req -> Request] /\ req'[r].pc = "idle"
         /\ \A q \in Req \ {r} : req'[q] = req[q]
  BY IdleTyped DEF Done

LEMMA GotoTyped ==
  ASSUME req \in [Req -> Request], NEW r \in Req, NEW pc \in Pc, Goto(r, pc)
  PROVE  /\ req' \in [Req -> Request] /\ req'[r].pc = pc
         /\ req'[r].oid = req[r].oid /\ req'[r].seq = req[r].seq /\ req'[r].id = req[r].id
         /\ \A q \in Req \ {r} : req'[q] = req[q]
<1>1. req' = [req EXCEPT ![r] = [req[r] EXCEPT !.pc = pc]]
  BY DEF Goto
<1>2. req[r] \in Request
  OBVIOUS
<1>3. [req[r] EXCEPT !.pc = pc] \in Request
  BY <1>2, RequestMoves
<1>4. req[r] = [pc |-> req[r].pc, id |-> req[r].id, oid |-> req[r].oid, seq |-> req[r].seq]
  BY <1>2 DEF Request
<1>5. LET q == [req[r] EXCEPT !.pc = pc]
      IN q.pc = pc /\ q.oid = req[r].oid /\ q.seq = req[r].seq /\ q.id = req[r].id
  BY <1>4
<1> QED
  BY <1>1, <1>3, <1>5

\* The fragments of running uploads, and that they differ.
LEMMA PartsOfUploads ==
  ASSUME LfsInv, NEW r \in Req, req[r].pc \in Uploading
  PROVE  /\ Part(req[r]) \in PartName
         /\ \A q \in Req \ {r} : req[q].pc \in Uploading => Part(req[q]) # Part(req[r])
<1>1. req[r] \in Request
  BY DEF LfsInv, TypeOK
<1>2. req[r].oid \in Oid /\ req[r].seq \in Seq
  BY <1>1, RequestFields
<1> QED
  BY <1>2 DEF LfsInv, OwnPart, Part, PartName

\* A request that ends takes its obligations with it.
LEMMA RequestEnds ==
  ASSUME LfsInv, NEW r \in Req, Done(r),
         up' = up, seq' = seq, stored' = stored, objects \subseteq objects',
         \A q \in Req \ {r} : req[q].pc \in Uploading
                                => parts'[Part(req[q])] = parts[Part(req[q])]
  PROVE  Stopped' /\ Numbered' /\ OwnPart' /\ Placed' /\ StoredIsWhole'
<1> USE DEF LfsInv
<1>1. /\ req' \in [Req -> Request] /\ req'[r].pc = "idle"
      /\ \A q \in Req \ {r} : req'[q] = req[q]
  BY DoneTyped DEF TypeOK
<1>2. Stopped'
  BY <1>1 DEF Stopped
<1>3. Numbered'
  BY <1>1 DEF Numbered, Uploading
<1>4. OwnPart'
  BY <1>1 DEF OwnPart, Uploading, Part
<1>5. Placed'
  BY <1>1 DEF Placed
<1>6. StoredIsWhole'
  BY DEF StoredIsWhole
<1> QED
  BY <1>2, <1>3, <1>4, <1>5, <1>6

-----------------------------------------------------------------------------
(* The steps.                                                               *)

LEMMA InvInit == Init => LfsInv
<1> SUFFICES ASSUME Init PROVE LfsInv
  OBVIOUS
<1>1. \A r \in Req : req[r] = Idle
  BY DEF Init
<1>2. TypeOK
  BY IdleTyped, ZeroIsSeq DEF Init, TypeOK, Content
<1>3. Stopped /\ Numbered /\ OwnPart /\ Placed
  BY <1>1, IdleTyped DEF Stopped, Numbered, OwnPart, Placed, Uploading
<1>4. RowsAreStored /\ StoredIsWhole
  BY DEF Init, RowsAreStored, StoredIsWhole
<1> QED
  BY <1>2, <1>3, <1>4 DEF LfsInv

LEMMA InvStutter ==
  ASSUME LfsInv, UNCHANGED vars
  PROVE  LfsInv'
<1> USE DEF LfsInv, vars
<1>1. TypeOK'
  BY DEF TypeOK
<1>2. Stopped' /\ Numbered' /\ Placed'
  BY DEF Stopped, Numbered, Placed
<1>3. OwnPart'
  BY DEF OwnPart, Part
<1>4. RowsAreStored' /\ StoredIsWhole'
  BY DEF RowsAreStored, StoredIsWhole
<1> QED
  BY <1>1, <1>2, <1>3, <1>4

\* Creating and deleting projects changes projects and links only.
LEMMA InvProjects ==
  ASSUME LfsInv, CreateProject \/ \E i \in Id : DeleteProject(i)
  PROVE  LfsInv'
<1> USE DEF LfsInv
<1>1. UNCHANGED <<objects, stored, parts, seq, up, req>>
  BY DEF CreateProject, DeleteProject, disk
<1>2. projects' \subseteq Id /\ links' \subseteq projects' \X objects
  <2>1. CASE CreateProject
    <3>1. PICK i \in Id, source \in projects \cup {0} :
             /\ projects' = projects \cup {i}
             /\ links' = links \cup {i} \X {o \in Oid : <<source, o>> \in links}
      BY <2>1 DEF CreateProject
    <3> QED
      BY <3>1 DEF TypeOK
  <2>2. CASE \E i \in Id : DeleteProject(i)
    <3>1. PICK i \in Id : projects' = projects \ {i} /\ links' = {l \in links : l[1] # i}
      BY <2>2 DEF DeleteProject
    <3> QED
      BY <3>1 DEF TypeOK
  <2> QED
    BY <2>1, <2>2
<1>3. TypeOK'
  BY <1>1, <1>2 DEF TypeOK
<1>4. Stopped' /\ Numbered' /\ Placed'
  BY <1>1 DEF Stopped, Numbered, Placed
<1>5. OwnPart'
  BY <1>1 DEF OwnPart, Part
<1>6. RowsAreStored' /\ StoredIsWhole'
  BY <1>1 DEF RowsAreStored, StoredIsWhole
<1> QED
  BY <1>3, <1>4, <1>5, <1>6

\* A new upload has a number no running one has.
LEMMA InvBeginUpload ==
  ASSUME LfsInv, NEW r \in Req, BeginUpload(r)
  PROVE  LfsInv'
<1> USE DEF LfsInv
<1>1. PICK i \in projects, o \in Oid :
        /\ req' = [req EXCEPT ![r] = [pc |-> "writing", id |-> i, oid |-> o, seq |-> seq]]
        /\ parts' = [parts EXCEPT
             ![Part([pc |-> "writing", id |-> i, oid |-> o, seq |-> seq])] = "partial"]
  BY DEF BeginUpload
<1> DEFINE u == [pc |-> "writing", id |-> i, oid |-> o, seq |-> seq]
<1>2. u \in Request /\ u.pc = "writing" /\ u.oid = o /\ u.seq = seq
  BY NewRequest DEF TypeOK, Pc
<1>3. Part(u) = <<o, seq>> /\ Part(u) \in PartName
  BY DEF Part, PartName, TypeOK
<1> HIDE DEF u
<1>4. /\ up /\ seq < MaxSeq /\ seq' = seq + 1
      /\ UNCHANGED <<projects, objects, links, stored, up>>
  BY DEF BeginUpload, rows
<1>5. /\ req' \in [Req -> Request] /\ req'[r] = u
      /\ \A q \in Req \ {r} : req'[q] = req[q]
  BY <1>1, <1>2 DEF TypeOK, u
<1>6. /\ parts' \in [PartName -> Content] /\ parts'[Part(u)] = "partial"
      /\ \A p \in PartName \ {Part(u)} : parts'[p] = parts[p]
  BY <1>1, <1>3 DEF TypeOK, Content, u
<1>7. seq \in Nat /\ seq' \in Seq
  BY <1>4, ZeroIsSeq DEF TypeOK
<1>8. TypeOK'
  BY <1>4, <1>5, <1>6, <1>7 DEF TypeOK
<1>9. Stopped'
  BY <1>4 DEF Stopped
<1>10. \A q \in Req : req[q].seq \in Nat
  BY RequestFields, ZeroIsSeq DEF TypeOK
<1>11. Numbered'
  BY <1>2, <1>4, <1>5, <1>7, <1>10 DEF Numbered
<1>12. \A q \in Req \ {r} : req[q].pc \in Uploading => Part(req[q]) # Part(u)
  BY <1>3, <1>7, <1>10 DEF Numbered, Part
<1>13. \A q \in Req \ {r} : req[q].pc \in Uploading
                              => parts'[Part(req[q])] = parts[Part(req[q])]
  BY <1>6, <1>12, PartsOfUploads
<1>14. OwnPart'
  <2>1. SUFFICES ASSUME NEW q \in Req
        PROVE  /\ req'[q].pc \in Uploading =>
                    parts'[Part(req'[q])] = IF req'[q].pc = "writing" THEN "partial" ELSE "whole"
               /\ \A s \in Req \ {q} : req'[q].pc \in Uploading /\ req'[s].pc \in Uploading
                                         => Part(req'[q]) # Part(req'[s])
    BY DEF OwnPart, Part
  <2>2. CASE q = r
    BY <1>2, <1>5, <1>6, <1>12, <2>2
  <2>3. CASE q # r
    BY <1>5, <1>12, <1>13, <2>3 DEF OwnPart
  <2> QED
    BY <2>2, <2>3
<1>15. Placed'
  BY <1>2, <1>4, <1>5 DEF Placed
<1>16. RowsAreStored' /\ StoredIsWhole'
  BY <1>4 DEF RowsAreStored, StoredIsWhole
<1> QED
  BY <1>8, <1>9, <1>11, <1>14, <1>15, <1>16

LEMMA InvBeginBatch ==
  ASSUME LfsInv, NEW r \in Req, BeginBatch(r)
  PROVE  LfsInv'
<1> USE DEF LfsInv
<1>1. PICK i \in projects, o \in Oid :
        /\ o \in objects
        /\ req' = [req EXCEPT ![r] = [pc |-> "link", id |-> i, oid |-> o, seq |-> 0]]
  BY DEF BeginBatch
<1> DEFINE u == [pc |-> "link", id |-> i, oid |-> o, seq |-> 0]
<1>3. u \in Request /\ u.pc = "link" /\ u.oid = o
  BY NewRequest, ZeroIsSeq DEF TypeOK, Pc
<1> HIDE DEF u
<1>4. up /\ UNCHANGED <<projects, objects, links, stored, parts, seq, up>>
  BY DEF BeginBatch, rows, disk
<1>5. /\ req' \in [Req -> Request] /\ req'[r] = u
      /\ \A q \in Req \ {r} : req'[q] = req[q]
  BY <1>1, <1>3 DEF TypeOK, u
<1>6. TypeOK'
  BY <1>4, <1>5 DEF TypeOK
<1>7. Stopped'
  BY <1>4 DEF Stopped
<1>8. Numbered'
  BY <1>3, <1>4, <1>5 DEF Numbered, Uploading
<1>9. OwnPart'
  BY <1>3, <1>4, <1>5 DEF OwnPart, Part, Uploading
<1>10. Placed'
  BY <1>1, <1>3, <1>4, <1>5 DEF Placed
<1>11. RowsAreStored' /\ StoredIsWhole'
  BY <1>4 DEF RowsAreStored, StoredIsWhole
<1> QED
  BY <1>6, <1>7, <1>8, <1>9, <1>10, <1>11

LEMMA InvReceive ==
  ASSUME LfsInv, NEW r \in Req, Receive(r)
  PROVE  LfsInv'
<1> USE DEF LfsInv
<1>1. /\ req[r].pc = "writing" /\ parts' = [parts EXCEPT ![Part(req[r])] = "whole"]
      /\ Goto(r, "move") /\ UNCHANGED <<projects, objects, links, stored, seq, up>>
  BY DEF Receive, rows
<1>2. /\ req' \in [Req -> Request] /\ req'[r].pc = "move"
      /\ req'[r].oid = req[r].oid /\ req'[r].seq = req[r].seq
      /\ \A q \in Req \ {r} : req'[q] = req[q]
  BY <1>1, GotoTyped DEF TypeOK, Pc
<1>3. /\ Part(req'[r]) = Part(req[r]) /\ Part(req[r]) \in PartName
      /\ \A q \in Req \ {r} : req[q].pc \in Uploading => Part(req[q]) # Part(req[r])
  BY <1>1, <1>2, PartsOfUploads DEF Part, Uploading
<1>4. /\ parts' \in [PartName -> Content] /\ parts'[Part(req[r])] = "whole"
      /\ \A p \in PartName \ {Part(req[r])} : parts'[p] = parts[p]
  BY <1>1, <1>3 DEF TypeOK, Content
<1>5. TypeOK'
  BY <1>1, <1>2, <1>4 DEF TypeOK
<1>6. Stopped'
  BY <1>1, <1>2 DEF Stopped
<1>7. Numbered'
  BY <1>1, <1>2 DEF Numbered, Uploading
<1>8. OwnPart'
  <2>1. SUFFICES ASSUME NEW q \in Req
        PROVE  /\ req'[q].pc \in Uploading =>
                    parts'[Part(req'[q])] = IF req'[q].pc = "writing" THEN "partial" ELSE "whole"
               /\ \A s \in Req \ {q} : req'[q].pc \in Uploading /\ req'[s].pc \in Uploading
                                         => Part(req'[q]) # Part(req'[s])
    BY DEF OwnPart, Part
  <2>2. CASE q = r
    BY <1>2, <1>3, <1>4, <2>2
  <2>3. CASE q # r
    <3>1. req[q].pc \in Uploading => Part(req[q]) \in PartName
      BY PartsOfUploads
    <3>2. req[q].pc \in Uploading => parts'[Part(req[q])] = parts[Part(req[q])]
      BY <1>3, <1>4, <2>3, <3>1
    <3> QED
      BY <1>2, <1>3, <2>3, <3>2 DEF OwnPart
  <2> QED
    BY <2>2, <2>3
<1>9. Placed'
  BY <1>1, <1>2 DEF Placed
<1>10. RowsAreStored' /\ StoredIsWhole'
  BY <1>1 DEF RowsAreStored, StoredIsWhole
<1> QED
  BY <1>5, <1>6, <1>7, <1>8, <1>9, <1>10

\* Actions that end a request and touch no file but its fragment.
LEMMA InvEnds ==
  ASSUME LfsInv, NEW r \in Req, Reject(r) \/ Drop(r) \/ Insert(r) \/ BatchLink(r)
  PROVE  LfsInv'
<1> USE DEF LfsInv
<1>1. Done(r) /\ UNCHANGED <<projects, stored, seq, up>>
  BY DEF Reject, Drop, Insert, BatchLink, rows, disk
<1>2. req' \in [Req -> Request]
  BY <1>1, DoneTyped DEF TypeOK
<1>3. req[r] \in Request /\ req[r].oid \in Oid
  BY RequestFields DEF TypeOK
<1>4. /\ parts' \in [PartName -> Content]
      /\ \A q \in Req \ {r} : req[q].pc \in Uploading
                                => parts'[Part(req[q])] = parts[Part(req[q])]
  <2>1. CASE Reject(r)
    <3>1. req[r].pc \in Uploading /\ parts' = [parts EXCEPT ![Part(req[r])] = "none"]
      BY <2>1 DEF Reject, Uploading
    <3>2. /\ parts' \in [PartName -> Content]
          /\ \A p \in PartName \ {Part(req[r])} : parts'[p] = parts[p]
      BY <3>1 DEF TypeOK, Content
    <3> QED
      BY <3>1, <3>2, PartsOfUploads
  <2>2. CASE Drop(r) \/ Insert(r) \/ BatchLink(r)
    BY <2>2 DEF Drop, Insert, BatchLink, disk, TypeOK
  <2> QED
    BY <2>1, <2>2
<1>5. /\ objects \subseteq objects' /\ objects' \subseteq Oid
      /\ links' \subseteq projects \X objects' /\ RowsAreStored'
  <2>1. CASE Insert(r)
    BY <1>1, <1>3, <2>1 DEF Insert, TypeOK, RowsAreStored, Placed
  <2>2. CASE BatchLink(r)
    BY <1>1, <2>2 DEF BatchLink, TypeOK, RowsAreStored, Placed
  <2>3. CASE Reject(r) \/ Drop(r)
    BY <1>1, <2>3 DEF Reject, Drop, rows, TypeOK, RowsAreStored
  <2> QED
    BY <2>1, <2>2, <2>3
<1>6. TypeOK'
  BY <1>1, <1>2, <1>4, <1>5 DEF TypeOK
<1> QED
  BY <1>1, <1>4, <1>5, <1>6, RequestEnds

LEMMA InvMove ==
  ASSUME LfsInv, NEW r \in Req, Move(r)
  PROVE  LfsInv'
<1> USE DEF LfsInv
<1>1. req[r].pc = "move" /\ UNCHANGED <<projects, objects, links, seq, up>>
  BY DEF Move, rows
<1>2. req[r] \in Request /\ req[r].oid \in Oid
  BY RequestFields DEF TypeOK
<1>3. /\ Part(req[r]) \in PartName /\ parts[Part(req[r])] = "whole"
      /\ \A q \in Req \ {r} : req[q].pc \in Uploading => Part(req[q]) # Part(req[r])
  BY <1>1, PartsOfUploads DEF Uploading, OwnPart
<1>4. /\ stored' = [stored EXCEPT ![req[r].oid] = "whole"]
      /\ parts' = [parts EXCEPT ![Part(req[r])] = "none"]
      /\ Goto(r, "insert")
  BY <1>3 DEF Move
<1>5. /\ req' \in [Req -> Request] /\ req'[r].pc = "insert" /\ req'[r].oid = req[r].oid
      /\ \A q \in Req \ {r} : req'[q] = req[q]
  BY <1>4, GotoTyped DEF TypeOK, Pc
<1>6. /\ parts' \in [PartName -> Content]
      /\ \A p \in PartName \ {Part(req[r])} : parts'[p] = parts[p]
  BY <1>4 DEF TypeOK, Content
<1>7. /\ stored' \in [Oid -> Content] /\ stored'[req[r].oid] = "whole"
      /\ \A o \in Oid \ {req[r].oid} : stored'[o] = stored[o]
  BY <1>2, <1>4 DEF TypeOK, Content
<1>8. TypeOK'
  BY <1>1, <1>5, <1>6, <1>7 DEF TypeOK
<1>9. Stopped'
  BY <1>1, <1>5 DEF Stopped
<1>10. Numbered'
  BY <1>1, <1>5 DEF Numbered, Uploading
<1>11. \A q \in Req \ {r} : req[q].pc \in Uploading
                              => parts'[Part(req[q])] = parts[Part(req[q])]
  BY <1>3, <1>6, PartsOfUploads
<1>12. OwnPart'
  BY <1>5, <1>11 DEF OwnPart, Part, Uploading
<1>13. \A q \in Req : req[q].oid \in Oid
  BY RequestFields DEF TypeOK
<1>14. Placed'
  BY <1>1, <1>5, <1>7, <1>13 DEF Placed
<1>15. RowsAreStored'
  BY <1>1, <1>7 DEF RowsAreStored, TypeOK
<1>16. StoredIsWhole'
  BY <1>7 DEF StoredIsWhole
<1> QED
  BY <1>8, <1>9, <1>10, <1>12, <1>14, <1>15, <1>16

\* No request survives the process, and no fragment the start of the next one.
LEMMA InvProcess ==
  ASSUME LfsInv, Crash \/ Restart
  PROVE  LfsInv'
<1> USE DEF LfsInv
<1>1. UNCHANGED <<projects, objects, links, stored>> /\ up' \in BOOLEAN
  BY DEF Crash, Restart, rows, disk
<1>2. parts' \in [PartName -> Content] /\ seq' \in Seq
  BY ZeroIsSeq DEF Crash, Restart, disk, TypeOK, Content
<1>3. req' \in [Req -> Request] /\ \A r \in Req : req'[r].pc = "idle"
  <2>1. CASE Crash
    BY <2>1, IdleTyped DEF Crash
  <2>2. CASE Restart
    BY <2>2 DEF Restart, Stopped, TypeOK
  <2> QED
    BY <2>1, <2>2
<1>4. TypeOK'
  BY <1>1, <1>2, <1>3 DEF TypeOK
<1>5. Stopped' /\ Numbered' /\ OwnPart' /\ Placed'
  BY <1>3 DEF Stopped, Numbered, OwnPart, Placed, Uploading
<1>6. RowsAreStored' /\ StoredIsWhole'
  BY <1>1 DEF RowsAreStored, StoredIsWhole
<1> QED
  BY <1>4, <1>5, <1>6

LEMMA InvNext == LfsInv /\ [Next]_vars => LfsInv'
<1> SUFFICES ASSUME LfsInv, [Next]_vars PROVE LfsInv'
  OBVIOUS
<1>1. CASE CreateProject \/ \E i \in Id : DeleteProject(i)
  BY <1>1, InvProjects
<1>2. CASE Crash \/ Restart
  BY <1>2, InvProcess
<1>3. CASE UNCHANGED vars
  BY <1>3, InvStutter
<1>4. ASSUME NEW r \in Req, BeginUpload(r) \/ BeginBatch(r) \/ Step(r) \/ Drop(r)
      PROVE  LfsInv'
  <2>1. CASE BeginUpload(r)
    BY <2>1, InvBeginUpload
  <2>2. CASE BeginBatch(r)
    BY <2>2, InvBeginBatch
  <2>3. CASE Receive(r)
    BY <2>3, InvReceive
  <2>4. CASE Move(r)
    BY <2>4, InvMove
  <2>5. CASE Reject(r) \/ Drop(r) \/ Insert(r) \/ BatchLink(r)
    BY <2>5, InvEnds
  <2> QED
    BY <1>4, <2>1, <2>2, <2>3, <2>4, <2>5 DEF Step
<1> QED
  BY <1>1, <1>2, <1>3, <1>4 DEF Next

-----------------------------------------------------------------------------
(* Theorems.                                                                *)

THEOREM InvHolds == Spec => []LfsInv
<1>1. Init => LfsInv
  BY InvInit
<1>2. LfsInv /\ [Next]_vars => LfsInv'
  BY InvNext
<1> QED
  BY <1>1, <1>2, PTL DEF Spec

\* Types, and links that refer to the rows of a project and an object.
THEOREM LfsTyped == Spec => []TypeOK
<1>1. LfsInv => TypeOK
  BY DEF LfsInv
<1> QED
  BY <1>1, InvHolds, PTL

\* What a project can download is there, whole.
THEOREM DownloadsAreWhole == Spec => []LinkedIsStored
<1>1. LfsInv => LinkedIsStored
  BY DEF LfsInv, TypeOK, RowsAreStored, LinkedIsStored
<1> QED
  BY <1>1, InvHolds, PTL

\* A file with the name of an object has the content of the object.
THEOREM ObjectsAreWhole == Spec => []StoredIsWhole
<1>1. LfsInv => StoredIsWhole
  BY DEF LfsInv
<1> QED
  BY <1>1, InvHolds, PTL

\* Concurrent uploads never share a fragment.
THEOREM UploadsKeepApart == Spec => []OwnPart
<1>1. LfsInv => OwnPart
  BY DEF LfsInv
<1> QED
  BY <1>1, InvHolds, PTL
=============================================================================
