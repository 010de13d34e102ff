------------------------------- MODULE Backup -------------------------------
(***************************************************************************)
(* scripts/rgit-backup.sh, run by a timer, and scripts/rgit-restore.sh.    *)
(* A run mirrors the installation into a git worktree, cuts files that are *)
(* too large for the host into chunks beside a marker, ignores the whole   *)
(* file, commits and pushes.  A run can end at any command: the script     *)
(* stops at the first that fails, and may be killed.  What it leaves in    *)
(* the worktree, in the index and in git's refs is what the next one finds.*)
(* A lock lets one run at a time.  The installation changes all the while. *)
(***************************************************************************)
EXTENDS Naturals

CONSTANTS
  File,        \* files of the installation
  Database,    \* data/rgit.db, copied by VACUUM INTO and not by cp
  Content,     \* what a file may hold
  Chunks,      \* how many chunks a content is cut into; 0: small enough to commit
  NoCommit,    \* no commit
  MaxChanges,  \* bound: changes of the installation
  MaxFaults    \* bound: failing commands, kills and lost worktrees

ASSUME FileAssumption == Database \in File
ASSUME ChunkAssumption == Chunks \in [Content -> Nat]
ASSUME BoundAssumption == MaxChanges \in Nat /\ MaxFaults \in Nat

VARIABLES
  source,    \* the installation: per file, the set of its content, {} if absent
  changes,   \* changes made so far
  git,       \* the worktree has a .git
  origin,    \* .git has the remote "origin"
  exclude,   \* .git/info/exclude
  wt, index, \* the worktree and git's index
  head,      \* the local branch, or NoCommit
  tracking,  \* origin/<branch> as last fetched or pushed, or NoCommit
  remote,    \* the branch on the host, or NoCommit
  uncopied,  \* the files that the run has still to copy
  mirror,    \* history: the installation as this run copied it
  strayed,   \* history: a run went on from another commit than the host's last
  pc, faults

env == <<source, changes>>
repo == <<git, origin, exclude, wt, index, head>>
taken == <<uncopied, mirror>>
vars == <<env, repo, tracking, remote, taken, strayed, pc, faults>>

\* Paths of a tree: the file itself, its marker, its chunks.  Each has a set of
\* contents; chunk i of content c is <<i, c>>, and a marker (size, hash, number
\* of chunks) determines the content it stands for.
Path == File \X {"whole", "marker", "parts"}
Nothing == [p \in Path |-> {}]

Large(cs) == \E c \in cs : Chunks[c] > 0

\* id: how many commits of the host a commit follows
\* of: history, the installation it was made of, and what git was told to ignore
Commit(id, tree, of, ahead) == [id |-> id, tree |-> tree, of |-> of, ahead |-> ahead]
TreeOf(c) == IF c = NoCommit THEN Nothing ELSE c.tree
IdOf(c) == IF c = NoCommit THEN 0 ELSE c.id

Init ==
  /\ source \in [File -> {{c} : c \in Content} \cup {{}}]
  /\ changes = 0 /\ faults = 0
  /\ git = FALSE /\ origin = FALSE /\ exclude = {}
  /\ wt = Nothing /\ index = Nothing
  /\ head = NoCommit /\ tracking = NoCommit /\ remote = NoCommit
  /\ uncopied = {} /\ mirror = [f \in File |-> {}]
  /\ strayed = FALSE
  /\ pc = "idle"

-----------------------------------------------------------------------------
(* The network, and the ends of a run.                                     *)

Goto(l) == pc' = l

\* Whether the host answers; when it does not, that is a fault.
Network(ok) ==
  IF ok THEN UNCHANGED faults
  ELSE faults < MaxFaults /\ faults' = faults + 1

\* flock: a second run ends at once.
Start ==
  /\ pc = "idle"
  /\ Goto("ensure")
  /\ UNCHANGED <<env, repo, tracking, remote, taken, strayed, faults>>

\* A command fails, or the run is killed.
Fail ==
  /\ pc # "idle"
  /\ Network(FALSE)
  /\ Goto("idle") /\ uncopied' = {}
  /\ UNCHANGED <<env, repo, tracking, remote, mirror, strayed>>

\* The operator starts over without the worktree.
LoseWorktree ==
  /\ pc = "idle" /\ git
  /\ Network(FALSE)
  /\ git' = FALSE /\ origin' = FALSE /\ exclude' = {}
  /\ wt' = Nothing /\ index' = Nothing
  /\ head' = NoCommit /\ tracking' = NoCommit
  /\ UNCHANGED <<env, remote, taken, strayed, pc>>

-----------------------------------------------------------------------------
(* ensure_repo                                                             *)

\* No worktree: clone.  There is nothing to clone where the host is silent, or
\* has no branch yet ..
Clone(ok) ==
  /\ pc = "ensure" /\ ~git
  /\ Network(ok)
  /\ IF ok /\ remote # NoCommit
     THEN /\ git' = TRUE /\ origin' = TRUE
          /\ wt' = remote.tree /\ index' = remote.tree
          /\ head' = remote /\ tracking' = remote
          /\ Goto("reset")
     ELSE UNCHANGED <<git, origin, wt, index, head, tracking>> /\ Goto("init")
  /\ UNCHANGED <<env, exclude, remote, taken, strayed>>

\* .. then git init, ..
InitRepo ==
  /\ pc = "init"
  /\ git' = TRUE
  /\ strayed' = (strayed \/ remote # NoCommit)
  /\ Goto("origin")
  /\ UNCHANGED <<env, origin, exclude, wt, index, head, tracking, remote, taken, faults>>

\* .. and git remote add origin.
AddOrigin ==
  /\ pc = "origin"
  /\ origin' = TRUE
  /\ Goto("reset")
  /\ UNCHANGED <<env, git, exclude, wt, index, head, tracking, remote, taken, strayed, faults>>

\* git remote set-url, which ends the run when there is no such remote.
NoOrigin ==
  /\ pc = "ensure" /\ git /\ ~origin
  /\ Goto("idle")
  /\ UNCHANGED <<env, repo, tracking, remote, taken, strayed, faults>>

Fetch(ok) ==
  /\ pc = "ensure" /\ git /\ origin
  /\ Network(ok)
  /\ tracking' = IF ok /\ remote # NoCommit THEN remote ELSE tracking
  /\ Goto("checkout")
  /\ UNCHANGED <<env, repo, remote, taken, strayed>>

\* git moves from the tree of HEAD to another and keeps what both have; it
\* refuses to touch a path that was changed, or is not tracked and not ignored.
Kept(new, p) == TreeOf(head)[p] = new[p] \/ index[p] = new[p]
Ignored(p) == p[2] = "whole" /\ p[1] \in exclude
Refused(new) ==
  \E p \in Path :
    /\ ~Kept(new, p)
    /\ ~ /\ index[p] = TreeOf(head)[p]
         /\ wt[p] \in {{}, index[p]} \/ (index[p] = {} /\ Ignored(p))

MoveTo(c) ==
  /\ head' = c
  /\ index' = [p \in Path |-> IF Kept(c.tree, p) THEN index[p] ELSE c.tree[p]]
  /\ wt' = [p \in Path |-> IF Kept(c.tree, p) THEN wt[p] ELSE c.tree[p]]
  /\ UNCHANGED <<git, origin, exclude>>

\* checkout -B <branch> origin/<branch>, which ends the run when it is refused;
\* without an origin/<branch> the local branch stays as it is.
Checkout ==
  /\ pc = "checkout"
  /\ IF tracking = NoCommit THEN UNCHANGED repo /\ Goto("pull")
     ELSE IF Refused(tracking.tree) THEN UNCHANGED repo /\ Goto("idle")
     ELSE MoveTo(tracking) /\ Goto("pull")
  /\ UNCHANGED <<env, tracking, remote, taken, strayed, faults>>

\* pull --ff-only, whose failure is ignored.
Pull(ok) ==
  /\ pc = "pull"
  /\ Network(ok)
  /\ tracking' = IF ok /\ remote # NoCommit THEN remote ELSE tracking
  /\ IF /\ ok /\ remote # NoCommit
        /\ head = NoCommit \/ (~head.ahead /\ head.id < remote.id)
        /\ ~Refused(remote.tree)
     THEN MoveTo(remote)
     ELSE UNCHANGED repo
  /\ strayed' = (strayed \/ (remote # NoCommit /\ head' # remote))
  /\ Goto("reset")
  /\ UNCHANGED <<env, remote, taken>>

-----------------------------------------------------------------------------
(* The mirror                                                              *)

\* reset_generated_split_files
Reset ==
  /\ pc = "reset"
  /\ wt' = [p \in Path |-> IF wt[<<p[1], "marker">>] # {} THEN {} ELSE wt[p]]
  /\ Goto("clear")
  /\ UNCHANGED <<env, git, origin, exclude, index, head, tracking, remote, taken, strayed, faults>>

\* sync_source clears bin, conf and data ..
Clear ==
  /\ pc = "clear"
  /\ wt' = Nothing
  /\ uncopied' = File \ {Database}
  /\ Goto("copy")
  /\ UNCHANGED <<env, git, origin, exclude, index, head, tracking, remote, mirror, strayed, faults>>

CopyFile(f) ==
  /\ wt' = [wt EXCEPT ![<<f, "whole">>] = source[f]]
  /\ mirror' = [mirror EXCEPT ![f] = source[f]]

\* .. and copies one file after another, all but the database, ..
CopyNext(f) ==
  /\ pc = "copy" /\ f \in uncopied
  /\ CopyFile(f)
  /\ uncopied' = uncopied \ {f}
  /\ UNCHANGED <<env, git, origin, exclude, index, head, tracking, remote, strayed, pc, faults>>

\* .. of which snapshot_sqlite takes a snapshot.
Snapshot ==
  /\ pc = "copy" /\ uncopied = {}
  /\ CopyFile(Database)
  /\ Goto("split")
  /\ UNCHANGED <<env, git, origin, exclude, index, head, tracking, remote, uncopied, strayed, faults>>

\* split_large_files, for one file: it is ignored from now on ..
Ignore(f) ==
  /\ pc = "split" /\ Large(wt[<<f, "whole">>]) /\ f \notin exclude
  /\ exclude' = exclude \cup {f}
  /\ UNCHANGED <<env, git, origin, wt, index, head, tracking, remote, taken, strayed, pc, faults>>

Cut(c) == {<<i, c>> : i \in 0 .. Chunks[c] - 1}

\* mutant: the last chunk, shorter than the others, is not written.
SplitFileShort(f) ==
  /\ pc = "split" /\ Large(wt[<<f, "whole">>]) /\ f \in exclude
  /\ wt' = [wt EXCEPT ![<<f, "parts">>] =
                        UNION {Cut(c) \ {<<Chunks[c] - 1, c>>} : c \in wt[<<f, "whole">>]},
                      ![<<f, "marker">>] = wt[<<f, "whole">>],
                      ![<<f, "whole">>] = {}]
  /\ UNCHANGED <<env, git, origin, exclude, index, head, tracking, remote, taken, strayed, pc, faults>>

\* .. and replaced by its chunks and a marker.
SplitFile(f) ==
  /\ pc = "split" /\ Large(wt[<<f, "whole">>]) /\ f \in exclude
  /\ wt' = [wt EXCEPT ![<<f, "parts">>] = UNION {Cut(c) : c \in wt[<<f, "whole">>]},
                      ![<<f, "marker">>] = wt[<<f, "whole">>],
                      ![<<f, "whole">>] = {}]
  /\ UNCHANGED <<env, git, origin, exclude, index, head, tracking, remote, taken, strayed, pc, faults>>

-----------------------------------------------------------------------------
(* commit_and_push_if_changed                                              *)

\* git add -A: everything but what is ignored and not tracked.
Unstaged(p) == Ignored(p) /\ index[p] = {}

\* mutant: large files are not waited for.
AddBeforeSplit ==
  /\ pc = "split"
  /\ index' = [p \in Path |-> IF Unstaged(p) THEN index[p] ELSE wt[p]]
  /\ Goto("commit")
  /\ UNCHANGED <<env, git, origin, exclude, wt, head, tracking, remote, taken, strayed, faults>>

Add ==
  /\ pc = "split"
  /\ \A f \in File : ~Large(wt[<<f, "whole">>])
  /\ index' = [p \in Path |-> IF Unstaged(p) THEN index[p] ELSE wt[p]]
  /\ Goto("commit")
  /\ UNCHANGED <<env, git, origin, exclude, wt, head, tracking, remote, taken, strayed, faults>>

\* mutant: a run that finds no change ends.
AfterNoChange == "idle"

\* A push that failed after its commit is made up for.
NoChange == IF head = NoCommit THEN "idle" ELSE "push"

MakeCommit ==
  /\ pc = "commit"
  /\ IF index = TreeOf(head) THEN Goto(NoChange) /\ UNCHANGED head
     ELSE /\ head' = Commit(IdOf(head), index, [files |-> mirror, exclude |-> exclude], TRUE)
          /\ Goto("push")
  /\ UNCHANGED <<env, git, origin, exclude, wt, index, tracking, remote, taken, strayed, faults>>

\* The host takes a commit that follows its last one.
Push(ok) ==
  /\ pc = "push"
  /\ Network(ok)
  /\ IF ok /\ IdOf(head) = IdOf(remote)
     THEN /\ remote' = IF head.ahead THEN Commit(head.id + 1, head.tree, head.of, FALSE)
                                     ELSE remote
          /\ head' = remote'
          /\ Goto("pushed")
     ELSE UNCHANGED <<remote, head>> /\ Goto("idle")
  /\ UNCHANGED <<env, git, origin, exclude, wt, index, tracking, taken, strayed>>

\* git notes what it has pushed.
Finish ==
  /\ pc = "pushed"
  /\ tracking' = head
  /\ Goto("idle")
  /\ UNCHANGED <<env, repo, remote, taken, strayed, faults>>

-----------------------------------------------------------------------------

\* A file of the installation is written, grows, shrinks or is removed.
Change(f, cs) ==
  /\ changes < MaxChanges
  /\ cs # source[f]
  /\ source' = [source EXCEPT ![f] = cs]
  /\ changes' = changes + 1
  /\ UNCHANGED <<repo, tracking, remote, taken, strayed, pc, faults>>

Step ==
  \/ \E ok \in BOOLEAN : Clone(ok) \/ Fetch(ok) \/ Pull(ok) \/ Push(ok)
  \/ InitRepo \/ AddOrigin \/ NoOrigin \/ Checkout
  \/ Reset \/ Clear \/ Snapshot \/ Add \/ MakeCommit \/ Finish
  \/ \E f \in File : CopyNext(f) \/ Ignore(f) \/ SplitFile(f)

Next ==
  \/ Start \/ Step \/ Fail \/ LoseWorktree
  \/ \E f \in File, cs \in {{c} : c \in Content} \cup {{}} : Change(f, cs)

\* The timer starts a run whenever none is there, and a run goes on by itself.
Spec == Init /\ [][Next]_vars /\ WF_vars(Start) /\ WF_vars(Step)

-----------------------------------------------------------------------------
(* What rgit-restore.sh makes of a tree.                                   *)

\* A chunk is missing, or what is put together has another hash.
Unrestorable(tree) ==
  \E f \in File : \E c \in tree[<<f, "marker">>] : ~(Cut(c) \subseteq tree[<<f, "parts">>])

\* The file that its marker stands for, else the file as committed.
RestoredFile(tree, f) ==
  IF tree[<<f, "marker">>] # {} THEN tree[<<f, "marker">>] ELSE tree[<<f, "whole">>]

-----------------------------------------------------------------------------
(* Properties.                                                             *)

Contents == {{c} : c \in Content} \cup {{}}

Tree(t) ==
  \A f \in File :
    /\ t[<<f, "whole">>] \in Contents /\ t[<<f, "marker">>] \in Contents
    /\ t[<<f, "parts">>] \subseteq UNION {Cut(c) : c \in Content}

\* A commit holds no file that the host would refuse for its size.
TypeOK ==
  /\ source \in [File -> Contents] /\ mirror \in [File -> Contents]
  /\ exclude \subseteq File /\ {git, origin, strayed} \subseteq BOOLEAN
  /\ uncopied \subseteq File \ {Database} /\ (pc = "copy" \/ uncopied = {})
  /\ Tree(wt) /\ Tree(index)
  /\ \A c \in {head, tracking, remote} \ {NoCommit} :
       Tree(c.tree) /\ \A f \in File : ~Large(c.tree[<<f, "whole">>])
  /\ pc \in {"idle", "ensure", "init", "origin", "checkout", "pull", "reset", "clear",
             "copy", "split", "commit", "push", "pushed"}

\* Small again after it was once too large: git was told for good to ignore it.
Shrunk(of, f) == f \in of.exclude /\ of.files[f] # {} /\ ~Large(of.files[f])

\* At any moment, after any run that was cut off, a restore gives the
\* installation as one run copied it: never a mixture of two runs, a file
\* without its chunks, or one that was gone by then; but a file that shrank
\* below the limit may be missing.
RestoreGivesMirror ==
  remote # NoCommit =>
    /\ ~Unrestorable(remote.tree)
    /\ \A f \in File :
         \/ RestoredFile(remote.tree, f) = remote.of.files[f]
         \/ Shrunk(remote.of, f) /\ RestoredFile(remote.tree, f) = {}

\* Every file of bin, conf and data is saved (docs/DESIGN.md section 12).
RestoreIsComplete ==
  remote # NoCommit => \A f \in File : RestoredFile(remote.tree, f) = remote.of.files[f]

\* The host holds the installation as it is now, but for files that shrank.
UpToDate ==
  \A f \in File :
    LET restored == RestoredFile(TreeOf(remote), f) IN
    \/ restored = source[f]
    \/ f \in exclude /\ source[f] # {} /\ ~Large(source[f]) /\ restored = {}

\* A repository without its remote: every run ends at git remote set-url.
Stranded == git /\ ~origin

\* Once the installation is quiet and nothing fails any more, the timer brings
\* the host up to date, whatever earlier runs left behind (unpushed commits, a
\* half-made mirror, refs that were not updated), with two exceptions.  A run
\* that ended between git init and git remote add (rgit-backup.sh:51-52) stops
\* all later ones, until the operator removes the worktree.  And a run that could
\* neither clone nor pull the host's last commit may have gone on without it:
\* what it leaves when it is cut off, a later checkout may refuse to overwrite
\* for ever (rgit-backup.sh:28-44).
CatchesUp == <>[](UpToDate \/ Stranded \/ strayed)
=============================================================================
