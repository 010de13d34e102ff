------------------------------ MODULE LfsStore ------------------------------
(***************************************************************************)
(* The LFS objects: content-addressed files shared by all projects, rows   *)
(* that say which objects are stored, and links that say which project may *)
(* download them.  An upload streams into a fragment of its own, renames   *)
(* it into place and then inserts row and link in one transaction; a batch *)
(* request links an object that is stored already.  The process may be     *)
(* killed anywhere, and projects come and go under running requests.       *)
(***************************************************************************)
EXTENDS Naturals

CONSTANTS
  Oid,       \* object ids
  Req,       \* uploads and batch requests that can be in progress at once
  MaxId,     \* bound: projects.id
  MaxSeq     \* bound: uploads of one process

ASSUME BoundsAssumption == {MaxId, MaxSeq} \subseteq Nat
ASSUME OidAssumption == Oid # {}

VARIABLES
  projects,  \* row ids of projects
  objects,   \* oids with a row in lfs_objects
  links,     \* project_lfs_objects
  stored,    \* the files at lfs_path
  parts,     \* the fragments under tmp
  seq,       \* UPLOAD_SEQUENCE
  up,        \* the process is running
  req        \* requests in progress

vars == <<projects, objects, links, stored, parts, seq, up, req>>
rows == <<projects, objects, links>>
disk == <<stored, parts>>

Id == 1..MaxId
Seq == 0..MaxSeq
PartName == Oid \X Seq

\* writing: the body is being streamed       move: the digest was right
\* insert:  the file is in place             link: batch has found the row
Pc == {"idle", "writing", "move", "insert", "link"}
Uploading == {"writing", "move"}
Request == [pc : Pc, id : Id \cup {0}, oid : Oid, seq : Seq]

Idle == [pc |-> "idle", id |-> 0, oid |-> CHOOSE o \in Oid : TRUE, seq |-> 0]

\* What a file holds: partial is a prefix of the object's content.
Content == {"none", "partial", "whole"}

Init ==
  /\ projects = {} /\ objects = {} /\ links = {}
  /\ stored = [o \in Oid |-> "none"] /\ parts = [n \in PartName |-> "none"]
  /\ seq = 0 /\ up = TRUE
  /\ req = [r \in Req |-> Idle]

Done(r) == req' = [req EXCEPT ![r] = Idle]

Goto(r, pc) == req' = [req EXCEPT ![r].pc = pc]

-----------------------------------------------------------------------------
(* Projects.                                                                *)

\* SQLite gives the row after the last one.
IsNext(i) ==
  /\ \A j \in projects : j < i
  /\ i = 1 \/ i - 1 \in projects

\* A project of its own, or a fork with the links of its source.
CreateProject ==
  /\ up
  /\ \E i \in Id, source \in projects \cup {0} :
       /\ IsNext(i)
       /\ projects' = projects \cup {i}
       /\ links' = links \cup {i} \X {o \in Oid : <<source, o>> \in links}
  /\ UNCHANGED <<objects, disk, seq, up, req>>

\* The links go with the row.
DeleteProject(i) ==
  /\ up /\ i \in projects
  /\ projects' = projects \ {i}
  /\ links' = {l \in links : l[1] # i}
  /\ UNCHANGED <<objects, disk, seq, up, req>>

-----------------------------------------------------------------------------
(* Uploads.                                                                 *)

\* The fragment of an upload: oid, process and sequence number.
Part(u) == <<u.oid, u.seq>>

\* resolve_lfs, and a fresh fragment.
BeginUpload(r) ==
  /\ up /\ req[r] = Idle /\ seq < MaxSeq
  /\ \E i \in projects, o \in Oid :
       LET u == [pc |-> "writing", id |-> i, oid |-> o, seq |-> seq]
       IN /\ req' = [req EXCEPT ![r] = u]
          /\ parts' = [parts EXCEPT ![Part(u)] = "partial"]
  /\ seq' = seq + 1
  /\ UNCHANGED <<rows, stored, up>>

\* mutant: the digest is compared after the rename.
ReceiveAny(r) ==
  /\ req[r].pc = "writing"
  /\ Goto(r, "move")
  /\ UNCHANGED <<rows, disk, seq, up>>

\* mutant: the rows are inserted before the rename.
ReceiveRowsFirst(r) ==
  /\ req[r].pc = "writing"
  /\ parts' = [parts EXCEPT ![Part(req[r])] = "whole"]
  /\ objects' = objects \cup {req[r].oid}
  /\ links' = links \cup ({req[r].id} \cap projects) \X {req[r].oid}
  /\ Goto(r, "move")
  /\ UNCHANGED <<projects, stored, seq, up>>

\* The body has ended, is on disk, and has the digest of the object.
Receive(r) ==
  /\ req[r].pc = "writing"
  /\ parts' = [parts EXCEPT ![Part(req[r])] = "whole"]
  /\ Goto(r, "move")
  /\ UNCHANGED <<rows, stored, seq, up>>

\* Another digest, too large, or the client is gone: the fragment is removed.
Reject(r) ==
  /\ req[r].pc = "writing"
  /\ parts' = [parts EXCEPT ![Part(req[r])] = "none"]
  /\ Done(r)
  /\ UNCHANGED <<rows, stored, seq, up>>

\* The handler is dropped with its connection; a fragment stays.
Drop(r) ==
  /\ up /\ req[r] # Idle
  /\ Done(r)
  /\ UNCHANGED <<rows, disk, seq, up>>

\* The rename fails when the fragment is not there.
Move(r) ==
  /\ req[r].pc = "move"
  /\ LET p == Part(req[r])
     IN IF parts[p] = "none"
        THEN Done(r) /\ UNCHANGED disk
        ELSE /\ stored' = [stored EXCEPT ![req[r].oid] = parts[p]]
             /\ parts' = [parts EXCEPT ![p] = "none"]
             /\ Goto(r, "insert")
  /\ UNCHANGED <<rows, seq, up>>

\* One transaction.  The link needs its project, or neither row is inserted.
Insert(r) ==
  /\ req[r].pc = "insert"
  /\ IF req[r].id \in projects
     THEN /\ objects' = objects \cup {req[r].oid}
          /\ links' = links \cup {<<req[r].id, req[r].oid>>}
     ELSE UNCHANGED <<objects, links>>
  /\ Done(r)
  /\ UNCHANGED <<projects, disk, seq, up>>

-----------------------------------------------------------------------------
(* Batch requests to upload.                                                *)

\* resolve_lfs and the look at lfs_objects; an unknown object is answered
\* with an upload action and nothing else.
BeginBatch(r) ==
  /\ up /\ req[r] = Idle
  /\ \E i \in projects, o \in Oid :
       /\ o \in objects
       /\ req' = [req EXCEPT ![r] = [pc |-> "link", id |-> i, oid |-> o, seq |-> 0]]
  /\ UNCHANGED <<rows, disk, seq, up>>

\* mutant: the link does not refer to the project's row.
BatchLinkFree(r) ==
  /\ req[r].pc = "link"
  /\ links' = links \cup {<<req[r].id, req[r].oid>>}
  /\ Done(r)
  /\ UNCHANGED <<projects, objects, disk, seq, up>>

BatchLink(r) ==
  /\ req[r].pc = "link"
  /\ links' = IF req[r].id \in projects THEN links \cup {<<req[r].id, req[r].oid>>} ELSE links
  /\ Done(r)
  /\ UNCHANGED <<projects, objects, disk, seq, up>>

-----------------------------------------------------------------------------
(* The process.                                                             *)

Crash ==
  /\ up /\ up' = FALSE
  /\ req' = [r \in Req |-> Idle]
  /\ UNCHANGED <<rows, disk, seq>>

\* cleanup_lfs_temp, before anything is served.
Restart ==
  /\ ~up /\ up' = TRUE
  /\ seq' = 0
  /\ parts' = [n \in PartName |-> "none"]
  /\ UNCHANGED <<rows, stored, req>>

Step(r) ==
  \/ Receive(r) \/ Reject(r) \/ Move(r) \/ Insert(r) \/ BatchLink(r)

Next ==
  \/ \E r \in Req : BeginUpload(r) \/ BeginBatch(r) \/ Step(r) \/ Drop(r)
  \/ CreateProject \/ \E i \in Id : DeleteProject(i)
  \/ Crash \/ Restart

Spec == Init /\ [][Next]_vars

-----------------------------------------------------------------------------
(* Properties.                                                              *)

\* Every variable keeps its type, and links refer to rows.
TypeOK ==
  /\ projects \subseteq Id /\ objects \subseteq Oid /\ links \subseteq projects \X objects
  /\ stored \in [Oid -> Content] /\ parts \in [PartName -> Content]
  /\ seq \in Seq /\ up \in BOOLEAN
  /\ req \in [Req -> Request]

\* Whatever a project can download is there, whole, through crashes, failed
\* uploads and any number of uploads of the same object.
LinkedIsStored == \A l \in links : stored[l[2]] = "whole"

\* Nothing but the whole object ever gets the object's name, linked or not.
StoredIsWhole == \A o \in Oid : stored[o] # "partial"

\* A fragment of a running upload is its own: no other upload's, and none that
\* a killed process left.
OwnPart ==
  \A r \in Req :
    /\ req[r].pc \in Uploading =>
         parts[Part(req[r])] = IF req[r].pc = "writing" THEN "partial" ELSE "whole"
    /\ \A q \in Req \ {r} : req[r].pc \in Uploading /\ req[q].pc \in Uploading
                               => Part(req[r]) # Part(req[q])
=============================================================================
