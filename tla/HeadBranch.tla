----------------------------- MODULE HeadBranch -----------------------------
(***************************************************************************)
(* The default branch of one project.  It is kept twice: as the symbolic   *)
(* HEAD of the bare repository and as projects.default_branch, which       *)
(* browsing uses.  A push moves HEAD off a branch that is gone and then    *)
(* records what HEAD was; a settings update moves HEAD and then records    *)
(* the branch it was asked for.  Each step is a git child or a statement   *)
(* of its own, and requests of several clients interleave between them.    *)
(*                                                                         *)
(* git prints a branch by the shortest name that is unambiguous: beside a  *)
(* tag of its name, branch b is heads/b.  The code takes what git prints   *)
(* for the branch's name.  A name is a pair: <<0, b>> is b, <<1, b>> is    *)
(* heads/b, <<2, b>> is heads/heads/b.                                     *)
(***************************************************************************)
EXTENDS FiniteSets, Naturals

CONSTANTS
  Branch,    \* branch names; none begins with heads/
  Tags,      \* of these, the names that tags may have too
  None,      \* NULL, or no branch found
  Master,    \* the first fallback
  Main,      \* the second fallback, and the HEAD of a new repository
  Req,       \* requests that can be in progress at once
  Settings,  \* settings updates occur
  Deletes,   \* pushes delete branches
  Faults     \* git children time out, pushes and handlers are cut off

ASSUME BranchAssumption == {Master, Main} \subseteq Branch /\ None \notin Branch
ASSUME NameAssumption == Tags \subseteq Branch /\ None \notin (0..2) \X Branch
ASSUME FlagAssumption == {Settings, Deletes, Faults} \subseteq BOOLEAN

VARIABLES
  refs,      \* branches of the repository
  tags,      \* its tags that have the name of a branch
  head,      \* what follows refs/heads/ in HEAD, born or not
  recorded,  \* projects.default_branch
  archived,  \* projects.archived
  req,       \* requests in progress
  torn       \* history: HEAD or row were disturbed and no push has looked and ended since

vars == <<refs, tags, head, recorded, archived, req, torn>>
repo == <<refs, tags, head>>
row  == <<recorded, archived>>

Plain(b) == <<0, b>>
Heads(b) == <<1, b>>

\* Names git may print, names the code may choose.
Printed == (0..2) \X Branch
Chosen  == (0..1) \X Branch

\* refs/heads/name is a ref.
Born(name) == \E b \in refs : name = Plain(b)

\* As a revision, b and heads/b find the branch b (b finds a tag b first).
Resolves(name) == \E b \in refs : name \in {Plain(b), Heads(b)}

\* HEAD is refs/heads/heads/b beside a branch and a tag b: no push mends it,
\* as each chooses heads/b again.
Misnamed(name) == \E b \in refs \cap tags : name = Heads(b)

\* git's short form of refs/heads/name: with one heads/ more if the name also
\* is a tag or another way to name a branch.
Short(name) ==
  IF \/ \E b \in tags : name = Plain(b)
     \/ \E b \in refs : name = Heads(b)
  THEN <<name[1] + 1, name[2]>> ELSE name

\* for-each-ref --format=%(refname:short) refs/heads
ShortRefs == {Short(Plain(b)) : b \in refs}

\* receive: receive-pack is running       head:   HEAD is to be read
\* check:   does the branch of HEAD exist  master, main, recent: the fallbacks
\* set:     HEAD is to be pointed at pick  record: the row is to be updated
Pc == {"idle", "receive", "head", "check", "master", "main", "recent", "verify",
       "set", "record"}

Request == [kind : {"push", "update"}, pc : Pc,
            seen : Printed \cup {None}, pick : Chosen \cup {None},
            mends : BOOLEAN,  \* history: looked at HEAD after the last disturbance
            lost  : BOOLEAN]  \* history: pick's branch or tag was deleted since

Idle == [kind |-> "push", pc |-> "idle", seen |-> None, pick |-> None,
         mends |-> FALSE, lost |-> FALSE]

Init ==
  /\ refs = {} /\ tags = {} /\ head = Plain(Main)
  /\ recorded = None /\ archived = FALSE
  /\ req = [r \in Req |-> Idle] /\ torn = FALSE

At(r, kind, pc) == req[r].kind = kind /\ req[r].pc = pc

Goto(r, pc) == req' = [req EXCEPT ![r].pc = pc]

Choose(r, name, pc) == req' = [req EXCEPT ![r].pick = name, ![r].pc = pc]

\* Request r becomes q, and what it leaves is for a later push to mend.
Disturb(r, q) ==
  /\ torn' = TRUE
  /\ req' = [p \in Req |-> IF p = r THEN q ELSE [req[p] EXCEPT !.mends = FALSE]]

\* What is to be set or recorded finds a branch; for HEAD it also is one, or
\* one that git printed beside its tag.
Sound(pc, pick) ==
  \/ pick = None
  \/ IF pc = "set" THEN Born(pick) \/ Misnamed(pick) ELSE Resolves(pick)

\* What r chose was deleted by another push before r uses it.
Stale(r) == req[r].lost /\ ~Sound(req[r].pc, req[r].pick)

\* Branch or tag b is deleted under the requests that have chosen it.
Lose(b) ==
  req' = [q \in Req |-> IF /\ req[q].pc \in {"set", "record"}
                            /\ req[q].pick \in {Plain(b), Heads(b)}
                         THEN [req[q] EXCEPT !.lost = TRUE] ELSE req[q]]

-----------------------------------------------------------------------------
(* A push.                                                                  *)

\* authorize_repo refuses a write to an archived project.
BeginPush(r) ==
  /\ req[r] = Idle /\ ~archived
  /\ Goto(r, "receive")
  /\ UNCHANGED <<repo, row, torn>>

\* receive-pack updates one ref; denyDeleteCurrent is off.
Receive(r) ==
  /\ At(r, "push", "receive")
  /\ \/ /\ \E b \in Branch :
             \/ refs' = refs \cup {b} /\ UNCHANGED req
             \/ Deletes /\ refs' = refs \ {b} /\ Lose(b)
        /\ UNCHANGED tags
     \/ /\ \E b \in Tags :
             \/ tags' = tags \cup {b} /\ UNCHANGED req
             \/ Deletes /\ tags' = tags \ {b} /\ Lose(b)
        /\ UNCHANGED refs
  /\ UNCHANGED <<head, row, torn>>

ReceiveDone(r) ==
  /\ At(r, "push", "receive")
  /\ Goto(r, "head")
  /\ UNCHANGED <<repo, row, torn>>

\* head_branch, symbolic-ref --short: a git that fails counts as no branch.
ReadHead(r) ==
  /\ At(r, "push", "head")
  /\ \E name \in {Short(head)} \cup (IF Faults THEN {None} ELSE {}) :
       req' = [req EXCEPT ![r].seen = name, ![r].mends = TRUE,
                          ![r].pc = IF name = None THEN "master" ELSE "check"]
  /\ UNCHANGED <<repo, row, torn>>

\* branch_exists, show-ref --verify refs/heads/name: a git that fails counts
\* as a missing branch.
Answers(name) == {Born(name)} \cup (IF Faults THEN {FALSE} ELSE {})

\* mutant: whatever HEAD names is taken for a branch.
CheckNothing(r) ==
  /\ At(r, "push", "check")
  /\ Choose(r, req[r].seen, "record")
  /\ UNCHANGED <<repo, row, torn>>

CheckHead(r) ==
  /\ At(r, "push", "check")
  /\ \E exists \in Answers(req[r].seen) :
       IF exists THEN Choose(r, req[r].seen, "record") ELSE Goto(r, "master")
  /\ UNCHANGED <<repo, row, torn>>

\* fallback_branch asks for master and for main, but not for what HEAD named.
Probe(r, pc, b, next) ==
  /\ At(r, "push", pc)
  /\ \E exists \in Answers(Plain(b)) :
       IF exists /\ Plain(b) # req[r].seen THEN Choose(r, Plain(b), "set") ELSE Goto(r, next)
  /\ UNCHANGED <<repo, row, torn>>

\* mutant: HEAD is set even if there is no other branch.
RecentAlways(r) ==
  /\ At(r, "push", "recent")
  /\ \E name \in (ShortRefs \cup {None}) \ {req[r].seen} : Choose(r, name, "set")
  /\ UNCHANGED <<repo, row, torn>>

\* The most recent of the other branches: any of them, as commits come.
Recent(r) ==
  /\ At(r, "push", "recent")
  /\ LET others == ShortRefs \ {req[r].seen}
     IN IF others = {} THEN Choose(r, None, "record")
                       ELSE \E name \in others : Choose(r, name, "set")
  /\ UNCHANGED <<repo, row, torn>>

\* symbolic-ref HEAD refs/heads/pick, whatever pick is.
SetHead(r) ==
  /\ req[r].pc = "set"
  /\ head' = req[r].pick
  /\ IF Stale(r) THEN Disturb(r, [req[r] EXCEPT !.pc = "record", !.mends = FALSE])
                 ELSE Goto(r, "record") /\ UNCHANGED torn
  /\ UNCHANGED <<refs, tags, row>>

\* The UPDATE of a push and of the settings.
Record(r) ==
  /\ req[r].pc = "record"
  /\ recorded' = req[r].pick
  /\ IF Stale(r) THEN Disturb(r, Idle)
                 ELSE torn' = (torn /\ ~req[r].mends) /\ req' = [req EXCEPT ![r] = Idle]
  /\ UNCHANGED <<repo, archived>>

-----------------------------------------------------------------------------
(* The settings.                                                            *)

\* update locates the project and checks the caller, and never archived.
BeginUpdate(r) ==
  /\ Settings /\ req[r] = Idle
  /\ \E b \in Branch :
       req' = [req EXCEPT ![r] = [Idle EXCEPT !.kind = "update", !.pc = "verify",
                                              !.pick = Plain(b)]]
  /\ UNCHANGED <<repo, row, torn>>

\* mutant: the branch is not resolved first.
VerifyNothing(r) ==
  /\ At(r, "update", "verify")
  /\ Goto(r, "set")
  /\ UNCHANGED <<repo, row, torn>>

\* rev_parse of refs/heads/ and the branch; the request ends when there is none.
Verify(r) ==
  /\ At(r, "update", "verify")
  /\ IF Born(req[r].pick) THEN Goto(r, "set")
                          ELSE req' = [req EXCEPT ![r] = Idle]
  /\ UNCHANGED <<repo, row, torn>>

SetArchived ==
  /\ Settings
  /\ archived' = ~archived
  /\ UNCHANGED <<repo, recorded, req, torn>>

\* A handler is dropped, its task ends with an error, or the server stops.
CutOff(r) ==
  /\ Faults /\ req[r] # Idle
  /\ IF req[r].kind = "push"
     THEN Disturb(r, Idle)
     ELSE req' = [req EXCEPT ![r] = Idle] /\ UNCHANGED torn
  /\ UNCHANGED <<repo, row>>

Push(r) ==
  \/ BeginPush(r) \/ Receive(r) \/ ReceiveDone(r) \/ ReadHead(r) \/ CheckHead(r)
  \/ Probe(r, "master", Master, "main") \/ Probe(r, "main", Main, "recent")
  \/ Recent(r)

Next ==
  \/ \E r \in Req : Push(r) \/ BeginUpdate(r) \/ Verify(r) \/ SetHead(r)
                    \/ Record(r) \/ CutOff(r)
  \/ SetArchived

Spec == Init /\ [][Next]_vars

-----------------------------------------------------------------------------
(* Properties.                                                              *)

\* Every variable keeps its type.
TypeOK ==
  /\ refs \subseteq Branch /\ tags \subseteq Tags /\ head \in Chosen
  /\ recorded \in Chosen \cup {None} /\ archived \in BOOLEAN
  /\ req \in [Req -> Request] /\ torn \in BOOLEAN

Quiescent == (\A r \in Req : req[r] = Idle) /\ ~torn

\* A repository with branches has one of them as its HEAD as soon as no push is
\* in progress, with two exceptions: HEAD or the row were disturbed (torn: a
\* push was cut off, or a branch was deleted under a request that had chosen it)
\* and no push has run to its end since; or a tag has the name of the branch that
\* a push chose and HEAD is what git prints for that branch (Misnamed).  The
\* second is the code's own failing: repo.rs:215-216 promises an actual branch.
HeadBorn == Quiescent /\ refs # {} => Born(head) \/ Misnamed(head)

\* default_ref finds a branch: what is recorded, else HEAD itself.
DefaultFound == IF recorded = None THEN Born(head) ELSE Resolves(recorded)

\* Nor does browsing default to a branch that does not exist, with the same
\* exceptions; the second only where nothing is recorded, since heads/b is no
\* name for show-ref but finds branch b as a revision.
BrowsedBorn ==
  Quiescent /\ refs # {} => DefaultFound \/ (recorded = None /\ Misnamed(head))
=============================================================================
