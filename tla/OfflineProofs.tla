--------------------------- MODULE OfflineProofs ----------------------------
(* Proofs about the programs that handle a whole installation from outside:   *)
(* the backup and restore scripts, and the migration from GitLab.             *)
EXTENDS Backup, Migration, FiniteSetTheorems, WellFoundedInduction, TLAPS

-----------------------------------------------------------------------------
(* Backup.  The argument: what a run copies is, per file, the file of its     *)
(* mirror or that file cut up; nothing is added to git before every large     *)
(* file is cut up; so every commit restores to the mirror it was made of, and *)
(* commits are all that git, the host and later runs pass on.                 *)

PartsOf(c) == UNION {Cut(d) : d \in c}

\* A worktree, an index or the tree of a commit.
WellFormed(t) == t \in [Path -> SUBSET (Content \cup PartsOf(Content))] /\ Tree(t)

Fits(t) == \A f \in File : ~Large(t[<<f, "whole">>])

\* What a restore makes of the tree is the installation the tree was made of.
Restores(t, of) ==
  /\ ~Unrestorable(t)
  /\ \A f \in File :
       \/ RestoredFile(t, f) = of.files[f]
       \/ Shrunk(of, f) /\ RestoredFile(t, f) = {}

\* What every commit is, wherever it is found.
Sound(c) == WellFormed(c.tree) /\ Fits(c.tree) /\ Restores(c.tree, c.of)

\* A file of the worktree, before it is copied, as copied, and as cut up.
BlankFile(f) == \A k \in {"whole", "marker", "parts"} : wt[<<f, k>>] = {}
WholeFile(f) ==
  /\ wt[<<f, "whole">>] = mirror[f]
  /\ wt[<<f, "marker">>] = {} /\ wt[<<f, "parts">>] = {}
CutFile(f) ==
  /\ f \in exclude /\ Large(mirror[f])
  /\ wt[<<f, "whole">>] = {}
  /\ wt[<<f, "marker">>] = mirror[f] /\ wt[<<f, "parts">>] = PartsOf(mirror[f])

Stages == {"idle", "ensure", "init", "origin", "checkout", "pull", "reset", "clear",
           "copy", "split", "commit", "push", "pushed"}

BackupTyped ==
  /\ source \in [File -> Contents] /\ mirror \in [File -> Contents]
  /\ exclude \subseteq File /\ git \in BOOLEAN /\ origin \in BOOLEAN /\ strayed \in BOOLEAN
  /\ uncopied \subseteq File \ {Database} /\ (pc = "copy" \/ uncopied = {})
  /\ WellFormed(wt) /\ WellFormed(index)
  /\ pc \in Stages

\* What holds between two commands of a run.
RunInv ==
  /\ pc = "copy" => \A f \in File : IF f \in uncopied \cup {Database} THEN BlankFile(f) ELSE WholeFile(f)
  /\ pc = "split" => \A f \in File : WholeFile(f) \/ CutFile(f)
  /\ pc = "commit" => Fits(index) /\ Restores(index, [files |-> mirror, exclude |-> exclude])
  /\ pc = "push" => Sound(head)

CommitsSound == \A c \in {head, tracking, remote} \ {NoCommit} : Sound(c)

BackupInv == BackupTyped /\ CommitsSound /\ RunInv

\* Trees ---------------------------------------------------------------------

LEMMA PathsOf ==
  ASSUME NEW f \in File, NEW k \in {"whole", "marker", "parts"}
  PROVE  <<f, k>> \in Path
BY DEF Path

LEMMA NothingIsWellFormed == WellFormed(Nothing) /\ Fits(Nothing)
<1>1. \A f \in File, k \in {"whole", "marker", "parts"} : Nothing[<<f, k>>] = {}
  BY PathsOf DEF Nothing
<1>2. Nothing \in [Path -> SUBSET (Content \cup PartsOf(Content))]
  BY DEF Nothing
<1> QED BY <1>1, <1>2 DEF WellFormed, Tree, Contents, Fits, Large

\* A tree put together from two trees, path by path.
LEMMA MixIsWellFormed ==
  ASSUME NEW s, NEW t, NEW u, WellFormed(s), WellFormed(t), u = [p \in Path |-> u[p]],
         \A p \in Path : u[p] = s[p] \/ u[p] = t[p]
  PROVE  WellFormed(u)
<1>1. u \in [Path -> SUBSET (Content \cup PartsOf(Content))]
  <2>1. \A p \in Path : u[p] \in SUBSET (Content \cup PartsOf(Content))
    BY DEF WellFormed
  <2> HIDE DEF Path
  <2> QED BY <2>1
<1>2. ASSUME NEW f \in File PROVE /\ u[<<f, "whole">>] \in Contents /\ u[<<f, "marker">>] \in Contents
                                  /\ u[<<f, "parts">>] \subseteq UNION {Cut(c) : c \in Content}
  BY PathsOf DEF WellFormed, Tree
<1> QED BY <1>1, <1>2 DEF WellFormed, Tree

\* A file of the installation put in its place.
LEMMA CopyIsWellFormed ==
  ASSUME NEW t, NEW u, WellFormed(t), u = [p \in Path |-> u[p]],
         \A p \in Path : u[p] = t[p] \/ (\E f \in File : p = <<f, "whole">> /\ u[p] \in Contents)
  PROVE  WellFormed(u)
<1>1. Contents \subseteq SUBSET Content
  BY DEF Contents
<1>2. u \in [Path -> SUBSET (Content \cup PartsOf(Content))]
  <2>1. \A p \in Path : u[p] \in SUBSET (Content \cup PartsOf(Content))
    BY <1>1 DEF WellFormed
  <2> QED BY <2>1
<1>3. ASSUME NEW f \in File PROVE /\ u[<<f, "whole">>] \in Contents /\ u[<<f, "marker">>] \in Contents
                                  /\ u[<<f, "parts">>] \subseteq UNION {Cut(c) : c \in Content}
  BY PathsOf DEF WellFormed, Tree
<1> QED BY <1>2, <1>3 DEF WellFormed, Tree

\* The tree of a commit, or of none.
LEMMA TreesAreWellFormed ==
  ASSUME NEW c, c # NoCommit => Sound(c)
  PROVE  WellFormed(TreeOf(c))
BY NothingIsWellFormed DEF TreeOf, Sound

\* What a commit that is pushed restores to.
LEMMA PushedIsSound ==
  ASSUME NEW c, Sound(c), NEW id, NEW ahead
  PROVE  Sound(Commit(id, c.tree, c.of, ahead))
BY DEF Commit, Sound

\* The steps -----------------------------------------------------------------

\* A step that leaves the files, the index and the commits alone, or moves
\* commits about, and ends where nothing is asked of the worktree.
Calm == {"idle", "ensure", "init", "origin", "checkout", "pull", "reset", "clear"}

LEMMA CalmStep ==
  ASSUME BackupInv, pc' \in Calm, git' \in BOOLEAN, origin' \in BOOLEAN, strayed' \in BOOLEAN,
         exclude' \subseteq File, UNCHANGED <<source, mirror>>, uncopied' = {},
         WellFormed(wt'), WellFormed(index'),
         \A c \in {head', tracking', remote'} \ {NoCommit} : Sound(c)
  PROVE  BackupInv'
<1>1. BackupTyped'
  BY DEF BackupInv, BackupTyped, WellFormed, Tree, Calm, Stages
<1>2. CommitsSound'
  BY DEF CommitsSound, Sound, WellFormed, Tree, Fits, Restores
<1>3. RunInv'
  BY DEF RunInv, Calm
<1> QED BY <1>1, <1>2, <1>3 DEF BackupInv

LEMMA StartKeeps ==
  ASSUME BackupInv, Start
  PROVE  BackupInv'
BY CalmStep DEF Start, Goto, env, repo, taken, Calm, BackupInv, BackupTyped, CommitsSound, WellFormed, Tree

LEMMA FailKeeps ==
  ASSUME BackupInv, Fail
  PROVE  BackupInv'
BY CalmStep DEF Fail, Goto, env, repo, Calm, BackupInv, BackupTyped, CommitsSound, WellFormed, Tree

LEMMA LoseWorktreeKeeps ==
  ASSUME BackupInv, LoseWorktree
  PROVE  BackupInv'
<1>1. /\ UNCHANGED <<source, mirror, strayed, remote>> /\ pc' = "idle" /\ uncopied' = {}
      /\ git' = FALSE /\ origin' = FALSE /\ exclude' = {} /\ wt' = Nothing /\ index' = Nothing
      /\ head' = NoCommit /\ tracking' = NoCommit
  BY DEF LoseWorktree, env, taken, BackupInv, BackupTyped
<1>2. WellFormed(wt') /\ WellFormed(index')
  BY <1>1, NothingIsWellFormed
<1> QED BY <1>1, <1>2, CalmStep DEF Calm, BackupInv, BackupTyped, CommitsSound

LEMMA CloneKeeps ==
  ASSUME BackupInv, NEW ok \in BOOLEAN, Clone(ok)
  PROVE  BackupInv'
<1>1. UNCHANGED <<source, mirror, exclude, remote, strayed>> /\ pc' \in Calm /\ uncopied' = {}
  BY DEF Clone, env, taken, Goto, Calm, BackupInv, BackupTyped
<1>2. CASE UNCHANGED <<git, origin, wt, index, head, tracking>>
  BY <1>1, <1>2, CalmStep DEF BackupInv, BackupTyped, CommitsSound, WellFormed, Tree
<1>3. CASE /\ remote # NoCommit /\ git' = TRUE /\ origin' = TRUE
           /\ wt' = remote.tree /\ index' = remote.tree /\ head' = remote /\ tracking' = remote
  <2>1. Sound(remote)
    BY <1>3 DEF BackupInv, CommitsSound
  <2>2. WellFormed(wt') /\ WellFormed(index')
    BY <1>3, <2>1 DEF Sound
  <2>3. \A c \in {head', tracking', remote'} \ {NoCommit} : Sound(c)
    BY <1>1, <1>3, <2>1
  <2> QED BY <1>1, <1>3, <2>2, <2>3, CalmStep DEF BackupInv, BackupTyped
<1> QED BY <1>2, <1>3 DEF Clone

\* The worktree's files and commits are as they were, and the run is not yet
\* at the copy.
LEMMA InitKeeps ==
  ASSUME BackupInv, InitRepo \/ AddOrigin \/ NoOrigin
  PROVE  BackupInv'
<1>1. /\ UNCHANGED <<source, mirror, exclude, wt, index, head, tracking, remote>>
      /\ pc' \in Calm /\ uncopied' = {}
      /\ git' \in BOOLEAN /\ origin' \in BOOLEAN /\ strayed' \in BOOLEAN
  BY DEF InitRepo, AddOrigin, NoOrigin, env, repo, taken, Goto, Calm, BackupInv, BackupTyped
<1> QED BY <1>1, CalmStep DEF BackupInv, BackupTyped, CommitsSound, WellFormed, Tree

LEMMA FetchKeeps ==
  ASSUME BackupInv, NEW ok \in BOOLEAN, Fetch(ok)
  PROVE  BackupInv'
<1>1. /\ UNCHANGED <<source, mirror, git, origin, exclude, wt, index, head, remote, strayed>>
      /\ pc' = "checkout" /\ uncopied' = {} /\ tracking' \in {remote, tracking}
  BY DEF Fetch, env, repo, taken, Goto, BackupInv, BackupTyped
<1> QED BY <1>1, CalmStep DEF Calm, BackupInv, BackupTyped, CommitsSound, WellFormed, Tree

\* git moves to a sound commit.
LEMMA MoveIsWellFormed ==
  ASSUME BackupInv, NEW c, Sound(c), MoveTo(c)
  PROVE  WellFormed(wt') /\ WellFormed(index') /\ UNCHANGED <<git, origin, exclude>> /\ head' = c
<1>1. /\ \A q \in Path : wt'[q] = wt[q] \/ wt'[q] = c.tree[q]
      /\ \A q \in Path : index'[q] = index[q] \/ index'[q] = c.tree[q]
  BY DEF MoveTo
<1>2. wt' = [q \in Path |-> wt'[q]] /\ index' = [q \in Path |-> index'[q]]
  BY DEF MoveTo
<1>3. WellFormed(wt) /\ WellFormed(index) /\ WellFormed(c.tree)
  BY DEF BackupInv, BackupTyped, Sound
<1> QED BY <1>1, <1>2, <1>3, MixIsWellFormed DEF MoveTo

LEMMA CheckoutKeeps ==
  ASSUME BackupInv, Checkout
  PROVE  BackupInv'
<1>1. UNCHANGED <<source, mirror, tracking, remote, strayed>> /\ pc' \in Calm /\ uncopied' = {}
  BY DEF Checkout, env, taken, Goto, Calm, BackupInv, BackupTyped
<1>2. CASE UNCHANGED repo
  BY <1>1, <1>2, CalmStep DEF repo, BackupInv, BackupTyped, CommitsSound, WellFormed, Tree
<1>3. CASE tracking # NoCommit /\ MoveTo(tracking)
  <2>1. Sound(tracking)
    BY <1>3 DEF BackupInv, CommitsSound
  <2>2. WellFormed(wt') /\ WellFormed(index') /\ UNCHANGED <<git, origin, exclude>> /\ head' = tracking
    BY <1>3, <2>1, MoveIsWellFormed
  <2> QED BY <1>1, <2>2, CalmStep DEF BackupInv, BackupTyped, CommitsSound
<1> QED BY <1>2, <1>3 DEF Checkout

LEMMA PullKeeps ==
  ASSUME BackupInv, NEW ok \in BOOLEAN, Pull(ok)
  PROVE  BackupInv'
<1>1. /\ UNCHANGED <<source, mirror, remote>> /\ pc' \in Calm /\ uncopied' = {}
      /\ tracking' \in {remote, tracking}
      /\ strayed' = (strayed \/ (remote # NoCommit /\ head' # remote))
  BY DEF Pull, env, taken, Goto, Calm, BackupInv, BackupTyped
<1>2. strayed' \in BOOLEAN
  BY <1>1 DEF BackupInv, BackupTyped
<1>3. CASE UNCHANGED repo
  BY <1>1, <1>2, <1>3, CalmStep DEF repo, BackupInv, BackupTyped, CommitsSound, WellFormed, Tree
<1>4. CASE remote # NoCommit /\ MoveTo(remote)
  <2>1. Sound(remote)
    BY <1>4 DEF BackupInv, CommitsSound
  <2>2. WellFormed(wt') /\ WellFormed(index') /\ UNCHANGED <<git, origin, exclude>> /\ head' = remote
    BY <1>4, <2>1, MoveIsWellFormed
  <2> QED BY <1>1, <1>2, <2>2, CalmStep DEF BackupInv, BackupTyped, CommitsSound
<1> QED BY <1>3, <1>4 DEF Pull

LEMMA ResetKeeps ==
  ASSUME BackupInv, Reset
  PROVE  BackupInv'
<1>1. /\ UNCHANGED <<source, mirror, git, origin, exclude, index, head, tracking, remote, strayed>>
      /\ pc' = "clear" /\ uncopied' = {}
      /\ wt' = [q \in Path |-> IF wt[<<q[1], "marker">>] # {} THEN {} ELSE wt[q]]
  BY DEF Reset, env, taken, Goto, BackupInv, BackupTyped
<1>2. \A q \in Path : wt'[q] = wt[q] \/ wt'[q] = Nothing[q]
  BY <1>1 DEF Nothing
<1>3. wt' = [q \in Path |-> wt'[q]]
  BY <1>1
<1>4. WellFormed(wt) /\ WellFormed(Nothing)
  BY NothingIsWellFormed DEF BackupInv, BackupTyped
<1>5. WellFormed(wt')
  BY <1>2, <1>3, <1>4, MixIsWellFormed
<1> QED BY <1>1, <1>5, CalmStep DEF Calm, BackupInv, BackupTyped, CommitsSound, WellFormed, Tree

LEMMA FinishKeeps ==
  ASSUME BackupInv, Finish
  PROVE  BackupInv'
BY CalmStep DEF Finish, Goto, env, repo, taken, Calm, BackupInv, BackupTyped, CommitsSound, WellFormed, Tree

\* sync_source clears the mirrored directories.
LEMMA ClearKeeps ==
  ASSUME BackupInv, Clear
  PROVE  BackupInv'
<1>1. /\ UNCHANGED <<source, mirror, git, origin, exclude, index, head, tracking, remote, strayed>>
      /\ pc' = "copy" /\ wt' = Nothing /\ uncopied' = File \ {Database}
  BY DEF Clear, env, Goto
<1>2. BackupTyped'
  BY <1>1, NothingIsWellFormed DEF BackupInv, BackupTyped, Stages, WellFormed, Tree
<1>3. CommitsSound'
  BY <1>1 DEF BackupInv, CommitsSound, Sound, WellFormed, Tree, Fits, Restores
<1>4. RunInv'
  <2>1. \A f \in File, k \in {"whole", "marker", "parts"} : wt'[<<f, k>>] = {}
    BY <1>1, PathsOf DEF Nothing
  <2> QED BY <1>1, <2>1 DEF RunInv, BlankFile
<1> QED BY <1>2, <1>3, <1>4 DEF BackupInv

\* A file is copied, and the run goes on.
LEMMA CopyFileTyped ==
  ASSUME BackupInv, NEW f \in File, CopyFile(f), pc' \in Stages,
         uncopied' \subseteq File \ {Database}, pc' = "copy" \/ uncopied' = {},
         UNCHANGED <<source, git, origin, exclude, index, head, tracking, remote, strayed>>
  PROVE  BackupTyped' /\ CommitsSound'
<1>1. source[f] \in Contents
  BY DEF BackupInv, BackupTyped
<1>2. mirror' \in [File -> Contents]
  BY <1>1 DEF CopyFile, BackupInv, BackupTyped
<1>3. WellFormed(wt) /\ wt = [q \in Path |-> wt[q]]
  BY DEF BackupInv, BackupTyped, WellFormed
<1>4. wt' = [wt EXCEPT ![<<f, "whole">>] = source[f]]
  BY DEF CopyFile
<1>5. wt' = [q \in Path |-> wt'[q]]
  BY <1>3, <1>4
<1>6. \A q \in Path : wt'[q] = wt[q] \/ (\E g \in File : q = <<g, "whole">> /\ wt'[q] \in Contents)
  BY <1>1, <1>3, <1>4
<1>7. WellFormed(wt')
  BY <1>3, <1>5, <1>6, CopyIsWellFormed
<1>8. BackupTyped'
  BY <1>2, <1>7 DEF BackupInv, BackupTyped, WellFormed, Tree
<1>9. CommitsSound'
  BY DEF BackupInv, CommitsSound, Sound, WellFormed, Tree, Fits, Restores
<1> QED BY <1>8, <1>9

\* What a copy does to each file.
LEMMA CopyFileFiles ==
  ASSUME BackupInv, NEW f \in File, CopyFile(f), NEW g \in File
  PROVE  /\ g = f /\ BlankFile(g) => WholeFile(g)'
         /\ g # f /\ BlankFile(g) => BlankFile(g)'
         /\ g # f /\ WholeFile(g) => WholeFile(g)'
<1>1. /\ wt' = [wt EXCEPT ![<<f, "whole">>] = source[f]]
      /\ mirror' = [mirror EXCEPT ![f] = source[f]]
  BY DEF CopyFile
<1>2. wt = [q \in Path |-> wt[q]] /\ mirror = [x \in File |-> mirror[x]]
  BY DEF BackupInv, BackupTyped, WellFormed
<1>3. /\ wt'[<<f, "whole">>] = source[f] /\ mirror'[f] = source[f]
      /\ wt'[<<f, "marker">>] = wt[<<f, "marker">>] /\ wt'[<<f, "parts">>] = wt[<<f, "parts">>]
  BY <1>1, <1>2, PathsOf
<1>4. g # f => /\ mirror'[g] = mirror[g]
               /\ \A k \in {"whole", "marker", "parts"} : wt'[<<g, k>>] = wt[<<g, k>>]
  BY <1>1, <1>2, PathsOf
<1> QED BY <1>3, <1>4 DEF BlankFile, WholeFile

LEMMA CopyNextKeeps ==
  ASSUME BackupInv, NEW f \in File, CopyNext(f)
  PROVE  BackupInv'
<1>1. /\ pc = "copy" /\ pc' = "copy" /\ f \in uncopied /\ uncopied' = uncopied \ {f} /\ CopyFile(f)
      /\ UNCHANGED <<source, git, origin, exclude, index, head, tracking, remote, strayed>>
  BY DEF CopyNext, env
<1>2. uncopied \subseteq File \ {Database}
  BY DEF BackupInv, BackupTyped
<1>3. BackupTyped' /\ CommitsSound'
  BY <1>1, <1>2, CopyFileTyped DEF Stages
<1>4. \A g \in File : IF g \in uncopied \cup {Database} THEN BlankFile(g) ELSE WholeFile(g)
  BY <1>1 DEF BackupInv, RunInv
<1>5. ASSUME NEW g \in File
      PROVE  IF g \in uncopied' \cup {Database} THEN BlankFile(g)' ELSE WholeFile(g)'
  <2>1. CASE g = f
    <3>1. g \notin uncopied' \cup {Database} /\ BlankFile(g)
      BY <2>1, <1>1, <1>2, <1>4
    <3>2. WholeFile(g)'
      BY <2>1, <3>1, <1>1, CopyFileFiles
    <3> QED BY <3>1, <3>2
  <2>2. CASE g # f /\ g \in uncopied \cup {Database}
    <3>1. BlankFile(g)'
      BY <2>2, <1>1, <1>2, <1>4, CopyFileFiles
    <3> QED BY <3>1, <2>2, <1>1
  <2>3. CASE g # f /\ g \notin uncopied \cup {Database}
    <3>1. WholeFile(g)'
      BY <2>3, <1>1, <1>2, <1>4, CopyFileFiles
    <3> QED BY <3>1, <2>3, <1>1
  <2> QED BY <2>1, <2>2, <2>3
<1>6. RunInv'
  BY <1>1, <1>5 DEF RunInv
<1> QED BY <1>3, <1>6 DEF BackupInv

LEMMA SnapshotKeeps ==
  ASSUME BackupInv, Snapshot
  PROVE  BackupInv'
<1>1. /\ pc = "copy" /\ uncopied = {} /\ CopyFile(Database) /\ pc' = "split" /\ uncopied' = uncopied
      /\ UNCHANGED <<source, git, origin, exclude, index, head, tracking, remote, strayed>>
  BY DEF Snapshot, env, Goto
<1>2. BackupTyped' /\ CommitsSound'
  BY <1>1, CopyFileTyped, FileAssumption DEF Stages
<1>3. BlankFile(Database) /\ \A g \in File \ {Database} : WholeFile(g)
  BY <1>1, FileAssumption DEF BackupInv, RunInv
<1>4. ASSUME NEW g \in File PROVE WholeFile(g)'
  <2>1. CASE g = Database
    BY <2>1, <1>1, <1>3, CopyFileFiles
  <2>2. CASE g # Database
    <3>1. WholeFile(g)
      BY <2>2, <1>3
    <3> QED BY <2>2, <3>1, <1>1, CopyFileFiles, FileAssumption
  <2> QED BY <2>1, <2>2
<1>5. RunInv'
  BY <1>1, <1>4 DEF RunInv
<1> QED BY <1>2, <1>5 DEF BackupInv

\* A large file is ignored.
LEMMA IgnoreKeeps ==
  ASSUME BackupInv, NEW f \in File, Ignore(f)
  PROVE  BackupInv'
<1>1. /\ UNCHANGED <<source, uncopied, mirror, git, origin, wt, index, head, tracking, remote, strayed, pc>>
      /\ pc = "split" /\ exclude' = exclude \cup {f}
  BY DEF Ignore, env, taken
<1>2. BackupTyped'
  BY <1>1 DEF BackupInv, BackupTyped, WellFormed, Tree
<1>3. CommitsSound'
  BY <1>1 DEF BackupInv, CommitsSound, Sound, WellFormed, Tree, Fits, Restores
<1>4. RunInv'
  BY <1>1 DEF BackupInv, RunInv, WholeFile, CutFile
<1> QED BY <1>2, <1>3, <1>4 DEF BackupInv

\* A large file is whole before it is cut up, and stands as cut up after.
LEMMA SplitFileKeeps ==
  ASSUME BackupInv, NEW f \in File, SplitFile(f)
  PROVE  BackupInv'
<1>1. /\ UNCHANGED <<source, uncopied, mirror, git, origin, exclude, index, head, tracking, remote, strayed, pc>>
      /\ pc = "split" /\ Large(wt[<<f, "whole">>]) /\ f \in exclude
      /\ wt' = [wt EXCEPT ![<<f, "parts">>] = PartsOf(wt[<<f, "whole">>]),
                          ![<<f, "marker">>] = wt[<<f, "whole">>],
                          ![<<f, "whole">>] = {}]
  BY DEF SplitFile, env, taken, PartsOf
<1>2. WholeFile(f)
  BY <1>1 DEF BackupInv, RunInv, CutFile, Large
<1>3. wt \in [Path -> SUBSET (Content \cup PartsOf(Content))]
  BY DEF BackupInv, BackupTyped, WellFormed
<1>4. /\ wt'[<<f, "whole">>] = {} /\ wt'[<<f, "marker">>] = mirror[f]
      /\ wt'[<<f, "parts">>] = PartsOf(mirror[f])
  BY <1>1, <1>2, <1>3, PathsOf DEF WholeFile
<1>5. ASSUME NEW g \in File \ {f}, NEW k \in {"whole", "marker", "parts"}
      PROVE  wt'[<<g, k>>] = wt[<<g, k>>]
  BY <1>1, <1>3, PathsOf
<1>6. mirror[f] \in Contents /\ PartsOf(mirror[f]) \subseteq PartsOf(Content)
  <2>1. mirror[f] \in Contents
    BY DEF BackupInv, BackupTyped
  <2> QED BY <2>1 DEF Contents, PartsOf
<1>7. WellFormed(wt')
  <2>1. Tree(wt')
    <3> SUFFICES ASSUME NEW g \in File
                 PROVE  /\ wt'[<<g, "whole">>] \in Contents /\ wt'[<<g, "marker">>] \in Contents
                        /\ wt'[<<g, "parts">>] \subseteq PartsOf(Content)
      BY DEF Tree, PartsOf
    <3>1. CASE g = f
      BY <3>1, <1>4, <1>6 DEF Contents
    <3>2. CASE g # f
      BY <3>2, <1>5 DEF BackupInv, BackupTyped, WellFormed, Tree, PartsOf
    <3> QED BY <3>1, <3>2
  <2>2. wt' \in [Path -> SUBSET (Content \cup PartsOf(Content))]
    <3>1. wt[<<f, "whole">>] \subseteq Content /\ PartsOf(wt[<<f, "whole">>]) \subseteq PartsOf(Content)
      BY <1>2, <1>6 DEF WholeFile, Contents
    <3> QED BY <1>1, <1>3, <3>1
  <2> QED BY <2>1, <2>2 DEF WellFormed
<1>8. BackupTyped'
  BY <1>1, <1>7 DEF BackupInv, BackupTyped, WellFormed, Tree
<1>9. CommitsSound'
  BY <1>1 DEF BackupInv, CommitsSound, Sound, WellFormed, Tree, Fits, Restores
<1>10. \A g \in File : WholeFile(g)' \/ CutFile(g)'
  <2>1. CutFile(f)'
    BY <1>1, <1>2, <1>4 DEF CutFile, WholeFile
  <2>2. ASSUME NEW g \in File \ {f} PROVE WholeFile(g)' \/ CutFile(g)'
    BY <1>1, <1>5 DEF BackupInv, RunInv, WholeFile, CutFile
  <2> QED BY <2>1, <2>2
<1>11. RunInv'
  BY <1>1, <1>10 DEF RunInv
<1> QED BY <1>8, <1>9, <1>11 DEF BackupInv

\* What is added restores to the mirror, whatever the index held before.
LEMMA AddedFiles ==
  ASSUME BackupInv, pc = "split", NEW f \in File, ~Large(wt[<<f, "whole">>]), NEW t,
         t[<<f, "whole">>] = wt[<<f, "whole">>] \/ (f \in exclude /\ t[<<f, "whole">>] = {}),
         t[<<f, "marker">>] = wt[<<f, "marker">>], t[<<f, "parts">>] = wt[<<f, "parts">>]
  PROVE  /\ ~Large(t[<<f, "whole">>])
         /\ \A c \in t[<<f, "marker">>] : Cut(c) \subseteq t[<<f, "parts">>]
         /\ LET of == [files |-> mirror, exclude |-> exclude]
            IN \/ RestoredFile(t, f) = of.files[f]
               \/ Shrunk(of, f) /\ RestoredFile(t, f) = {}
<1>1. ~Large(t[<<f, "whole">>])
  BY DEF Large
<1>2. CASE WholeFile(f)
  BY <1>1, <1>2 DEF WholeFile, RestoredFile, Shrunk
<1>3. CASE CutFile(f)
  BY <1>1, <1>3 DEF CutFile, RestoredFile, PartsOf, Large
<1> QED BY <1>2, <1>3 DEF BackupInv, RunInv

LEMMA AddKeeps ==
  ASSUME BackupInv, Add
  PROVE  BackupInv'
<1>1. /\ UNCHANGED <<source, uncopied, mirror, git, origin, exclude, wt, head, tracking, remote, strayed>>
      /\ pc = "split" /\ pc' = "commit" /\ \A f \in File : ~Large(wt[<<f, "whole">>])
      /\ index' = [p \in Path |-> IF Unstaged(p) THEN index[p] ELSE wt[p]]
  BY DEF Add, env, taken, Goto
<1>2. WellFormed(index')
  <2>1. \A p \in Path : index'[p] = index[p] \/ index'[p] = wt[p]
    BY <1>1
  <2>2. index' = [p \in Path |-> index'[p]]
    BY <1>1
  <2> QED BY <2>1, <2>2, MixIsWellFormed DEF BackupInv, BackupTyped
<1>3. BackupTyped'
  BY <1>1, <1>2 DEF BackupInv, BackupTyped, WellFormed, Tree, Stages
<1>4. CommitsSound'
  BY <1>1 DEF BackupInv, CommitsSound, Sound, WellFormed, Tree, Fits, Restores
<1>5. ASSUME NEW f \in File
      PROVE  /\ \/ index'[<<f, "whole">>] = wt[<<f, "whole">>]
                \/ f \in exclude /\ index'[<<f, "whole">>] = {}
             /\ index'[<<f, "marker">>] = wt[<<f, "marker">>]
             /\ index'[<<f, "parts">>] = wt[<<f, "parts">>]
  BY <1>1, PathsOf DEF Unstaged, Ignored
<1>6. Fits(index') /\ Restores(index', [files |-> mirror, exclude |-> exclude])
  BY <1>1, <1>5, AddedFiles DEF Fits, Restores, Unrestorable
<1>7. RunInv'
  BY <1>1, <1>6 DEF RunInv
<1> QED BY <1>3, <1>4, <1>7 DEF BackupInv

LEMMA MakeCommitKeeps ==
  ASSUME BackupInv, MakeCommit
  PROVE  BackupInv'
<1>1. /\ UNCHANGED <<source, uncopied, mirror, git, origin, exclude, wt, index, tracking, remote, strayed>>
      /\ pc = "commit"
  BY DEF MakeCommit, env, taken
<1>2. CASE UNCHANGED head /\ pc' = NoChange
  <2>1. BackupTyped'
    BY <1>1, <1>2 DEF NoChange, BackupInv, BackupTyped, WellFormed, Tree, Stages
  <2>2. CommitsSound'
    BY <1>1, <1>2 DEF BackupInv, CommitsSound, Sound, WellFormed, Tree, Fits, Restores
  <2>3. RunInv'
    BY <1>1, <1>2 DEF NoChange, BackupInv, CommitsSound, RunInv
  <2> QED BY <2>1, <2>2, <2>3 DEF BackupInv
<1>3. CASE /\ head' = Commit(IdOf(head), index, [files |-> mirror, exclude |-> exclude], TRUE)
           /\ pc' = "push"
  <2>1. Sound(head')
    BY <1>1, <1>3 DEF Sound, Commit, BackupInv, BackupTyped, RunInv
  <2>2. BackupTyped'
    BY <1>1, <1>3 DEF BackupInv, BackupTyped, WellFormed, Tree, Stages
  <2>3. CommitsSound'
    BY <1>1, <2>1 DEF BackupInv, CommitsSound
  <2>4. RunInv'
    BY <1>3, <2>1 DEF RunInv
  <2> QED BY <2>2, <2>3, <2>4 DEF BackupInv
<1> QED BY <1>2, <1>3 DEF MakeCommit, Goto

\* The host gets what the run committed, or what an earlier one could not push.
LEMMA PushKeeps ==
  ASSUME BackupInv, NEW ok \in BOOLEAN, Push(ok)
  PROVE  BackupInv'
<1>1. /\ UNCHANGED <<source, uncopied, mirror, git, origin, exclude, wt, index, tracking, strayed>>
      /\ pc = "push" /\ pc' \in {"pushed", "idle"}
  BY DEF Push, env, taken, Goto
<1>2. Sound(head)
  BY <1>1 DEF BackupInv, RunInv
<1>3. \A c \in {head', remote'} \ {NoCommit} : Sound(c)
  <2>1. CASE UNCHANGED <<remote, head>>
    BY <2>1 DEF BackupInv, CommitsSound
  <2>2. CASE /\ remote' = IF head.ahead THEN Commit(head.id + 1, head.tree, head.of, FALSE)
                          ELSE remote
             /\ head' = remote'
    <3>1. Sound(Commit(head.id + 1, head.tree, head.of, FALSE))
      BY <1>2, PushedIsSound
    <3> QED BY <2>2, <3>1 DEF BackupInv, CommitsSound
  <2> QED BY <2>1, <2>2 DEF Push
<1>4. BackupTyped'
  BY <1>1 DEF BackupInv, BackupTyped, WellFormed, Tree, Stages
<1>5. CommitsSound'
  BY <1>1, <1>3 DEF BackupInv, CommitsSound
<1>6. RunInv'
  BY <1>1 DEF RunInv
<1> QED BY <1>4, <1>5, <1>6 DEF BackupInv

\* The installation changes under a run, which has its own copy.
LEMMA ChangeKeeps ==
  ASSUME BackupInv, NEW f \in File, NEW cs \in Contents, Change(f, cs)
  PROVE  BackupInv'
<1>1. /\ UNCHANGED <<uncopied, mirror, git, origin, exclude, wt, index, head, tracking, remote, strayed, pc>>
      /\ source' = [source EXCEPT ![f] = cs]
  BY DEF Change, repo, taken
<1>2. source' \in [File -> Contents]
  BY <1>1 DEF BackupInv, BackupTyped
<1>3. BackupTyped'
  BY <1>1, <1>2 DEF BackupInv, BackupTyped, WellFormed, Tree
<1>4. CommitsSound'
  BY <1>1 DEF BackupInv, CommitsSound, Sound, WellFormed, Tree, Fits, Restores
<1>5. RunInv'
  BY <1>1 DEF BackupInv, RunInv, BlankFile, WholeFile, CutFile, Sound, Fits, Restores, WellFormed, Tree
<1> QED BY <1>3, <1>4, <1>5 DEF BackupInv

THEOREM BackupInvariant == Spec => []BackupInv
<1>1. Init => BackupInv
  <2> SUFFICES ASSUME Init PROVE BackupInv
    OBVIOUS
  <2>1. BackupTyped
    BY NothingIsWellFormed DEF Init, BackupTyped, Contents, Stages
  <2> QED BY <2>1 DEF Init, BackupInv, CommitsSound, RunInv
<1>2. BackupInv /\ [Next]_vars => BackupInv'
  <2> SUFFICES ASSUME BackupInv, [Next]_vars PROVE BackupInv'
    OBVIOUS
  <2>1. CASE Start \/ Fail \/ LoseWorktree
    BY <2>1, StartKeeps, FailKeeps, LoseWorktreeKeeps
  <2>2. ASSUME NEW ok \in BOOLEAN, Clone(ok) \/ Fetch(ok) \/ Pull(ok) \/ Push(ok) PROVE BackupInv'
    BY <2>2, CloneKeeps, FetchKeeps, PullKeeps, PushKeeps
  <2>3. CASE \/ InitRepo \/ AddOrigin \/ NoOrigin \/ Checkout
             \/ Reset \/ Clear \/ Snapshot \/ Add \/ MakeCommit \/ Finish
    BY <2>3, InitKeeps, CheckoutKeeps, ResetKeeps, ClearKeeps, SnapshotKeeps, AddKeeps,
       MakeCommitKeeps, FinishKeeps
  <2>4. ASSUME NEW f \in File, CopyNext(f) \/ Ignore(f) \/ SplitFile(f) PROVE BackupInv'
    BY <2>4, CopyNextKeeps, IgnoreKeeps, SplitFileKeeps
  <2>5. CASE Step
    BY <2>2, <2>3, <2>4, <2>5 DEF Step
  <2>6. ASSUME NEW f \in File, NEW cs \in Contents, Change(f, cs) PROVE BackupInv'
    BY <2>6, ChangeKeeps
  <2>7. CASE UNCHANGED vars
    BY <2>7 DEF vars, env, repo, taken, BackupInv, BackupTyped, CommitsSound, RunInv, BlankFile, WholeFile, CutFile,
                Sound, Fits, Restores, WellFormed, Tree
  <2> QED BY <2>1, <2>5, <2>6, <2>7 DEF Next, Contents
<1> QED BY <1>1, <1>2, PTL DEF Spec

\* The type invariant: every tree and commit is made of the files, markers and
\* chunks of the installation, and no commit holds a file that is too large.
THEOREM BackupsTyped == Spec => []TypeOK
<1>1. BackupInv => TypeOK
  <2> SUFFICES ASSUME BackupInv PROVE TypeOK
    OBVIOUS
  <2>1. \A c \in {head, tracking, remote} \ {NoCommit} :
           Tree(c.tree) /\ \A f \in File : ~Large(c.tree[<<f, "whole">>])
    BY DEF BackupInv, CommitsSound, Sound, WellFormed, Fits
  <2> QED BY <2>1 DEF TypeOK, BackupInv, BackupTyped, WellFormed, Stages
<1> QED BY <1>1, BackupInvariant, PTL

\* Whatever command a run, or any run before it, ended at, what the host has
\* restores to the installation as one run copied it, shrunk files apart
\* (rgit-backup.sh, and rgit-restore.sh as RestoredFile and Unrestorable).
THEOREM HostRestoresOneMirror == Spec => []RestoreGivesMirror
<1>1. BackupInv => RestoreGivesMirror
  BY DEF BackupInv, CommitsSound, Sound, Restores, RestoreGivesMirror
<1> QED BY <1>1, BackupInvariant, PTL

-----------------------------------------------------------------------------
(* The tables of the migration.  The argument: the ids that the climb from a  *)
(* group visits are its ancestors in GitLab, since a climb that is not        *)
(* rejected has ended at a root; the loop does the roots first, on paths of   *)
(* their own, and gives no path twice; and the largest of all levels a user   *)
(* has is the largest of those that the rows keep, one per source.  What the  *)
(* recursive functions compute is shown by induction on the number of steps;  *)
(* the rule of induction itself comes from every set of numbers having a      *)
(* least one.                                                                 *)

\* Some numbers have a least one.
LEMMA LeastNumber ==
  ASSUME NEW T, T \subseteq Nat, T # {}
  PROVE  \E n \in T : \A m \in T : n <= m
<1> DEFINE R == OpToRel(<, Nat)
<1>1. IsWellFoundedOn(R, Nat)
  BY NatLessThanWellFounded
<1>2. \E n \in T : \A m \in T : ~ (<<m, n>> \in R)
  <2> HIDE DEF R
  <2> QED BY <1>1, WFMin
<1>3. \A m, n \in Nat : <<m, n>> \in R <=> m < n
  BY DEF OpToRel
<1> HIDE DEF R
<1>4. PICK n \in T : \A m \in T : ~ (<<m, n>> \in R)
  BY <1>2
<1>5. \A m \in T : ~(m < n)
  BY <1>3, <1>4
<1>6. \A m \in T : n <= m
  BY <1>5
<1> QED BY <1>6

\* A set of numbers with 0 and every successor has them all.
LEMMA Induction ==
  ASSUME NEW T, 0 \in T, \A n \in T \cap Nat : n + 1 \in T
  PROVE  Nat \subseteq T
<1> SUFFICES ASSUME Nat \ T # {} PROVE FALSE
  OBVIOUS
<1>1. PICK n \in Nat \ T : \A m \in Nat \ T : n <= m
  BY LeastNumber
<1>2. n # 0 /\ n - 1 \in Nat
  BY <1>1
<1>3. n - 1 \in T
  BY <1>1, <1>2
<1>4. (n - 1) + 1 = n
  BY <1>1
<1>5. (n - 1) + 1 \in T
  BY <1>2, <1>3
<1> QED BY <1>4, <1>5

-----------------------------------------------------------------------------
(* The climb to the ancestors.                                                *)

\* The chains c[0] to c[n] of a climb of n steps, which there are for every n.
Climbs(raw, id, c, n) == c = [k \in 0..n |-> IF k = 0 THEN <<id>> ELSE Climb(raw, c[k - 1])]

LEMMA ClimbExists ==
  ASSUME NEW raw, NEW id
  PROVE  \A n \in Nat : \E c : Climbs(raw, id, c, n)
<1> DEFINE T == {n \in Nat : \E c : Climbs(raw, id, c, n)}
<1>1. 0 \in T
  <2> DEFINE c == [k \in 0..0 |-> <<id>>]
  <2>1. Climbs(raw, id, c, 0)
    BY DEF Climbs
  <2> QED BY <2>1
<1>2. ASSUME NEW n \in T \cap Nat PROVE n + 1 \in T
  <2>1. PICK c : Climbs(raw, id, c, n)
    OBVIOUS
  <2> DEFINE d == [k \in 0..n + 1 |-> IF k \in 0..n THEN c[k] ELSE Climb(raw, c[n])]
  <2>2. \A k \in 0..n : d[k] = c[k] /\ c[k] = IF k = 0 THEN <<id>> ELSE Climb(raw, c[k - 1])
    BY <2>1 DEF Climbs
  <2>3. ASSUME NEW k \in 0..n + 1 PROVE d[k] = IF k = 0 THEN <<id>> ELSE Climb(raw, d[k - 1])
    <3>1. CASE k = 0
      <4>1. 0 \in 0..n
        OBVIOUS
      <4> HIDE DEF d
      <4> QED BY <2>2, <3>1, <4>1
    <3>2. CASE k \in 1..n
      <4>1. k - 1 \in 0..n /\ k \in 0..n /\ k # 0
        BY <3>2
      <4> HIDE DEF d
      <4> QED BY <2>2, <4>1
    <3>3. CASE k = n + 1
      <4>1. k - 1 = n /\ k \notin 0..n /\ n \in 0..n /\ k # 0
        BY <3>3
      <4>2. d[k] = Climb(raw, c[n])
        BY <4>1
      <4> HIDE DEF d
      <4> QED BY <2>2, <4>1, <4>2
    <3> QED BY <3>1, <3>2, <3>3
  <2>4. Climbs(raw, id, d, n + 1)
    <3>1. d = [k \in 0..n + 1 |-> d[k]]
      OBVIOUS
    <3> HIDE DEF d
    <3>2. [k \in 0..n + 1 |-> d[k]] = [k \in 0..n + 1 |-> IF k = 0 THEN <<id>> ELSE Climb(raw, d[k - 1])]
      BY <2>3
    <3> QED BY <3>1, <3>2 DEF Climbs
  <2> QED BY <2>4
<1> HIDE DEF T
<1>3. Nat \subseteq T
  BY <1>1, <1>2, Induction
<1> QED BY <1>3 DEF T

\* Chain is the last of the chains of its climb.
LEMMA ChainClimbs ==
  ASSUME NEW raw, NEW id, Cardinality(raw) \in Nat
  PROVE  \E c : /\ Chain(raw, id) = c[Cardinality(raw)]
                /\ c[0] = <<id>>
                /\ \A k \in 1..Cardinality(raw) : c[k] = Climb(raw, c[k - 1])
<1> DEFINE n == Cardinality(raw)
           c == CHOOSE f : Climbs(raw, id, f, n)
<1>1. Chain(raw, id) = c[n]
  BY DEF Chain, Climbs
<1>2. Climbs(raw, id, c, n)
  BY ClimbExists
<1> HIDE DEF c
<1>3. \A k \in 0..n : c[k] = IF k = 0 THEN <<id>> ELSE Climb(raw, c[k - 1])
  BY <1>2 DEF Climbs
<1>4. c[0] = <<id>> /\ \A k \in 1..n : c[k] = Climb(raw, c[k - 1])
  BY <1>3
<1> QED BY <1>1, <1>4

\* A chain that leads from parent to child down to id.
Kin(raw, id) == {id} \cup {x.parent : x \in raw}
Rises(raw, id, c) ==
  /\ c \in Seq(Kin(raw, id)) /\ Len(c) >= 1 /\ c[Len(c)] = id
  /\ \A i \in 1..Len(c) - 1 : c[i] \in ParentsOf(raw, c[i + 1])

\* One step up, if the chain can rise.
LEMMA ClimbRises ==
  ASSUME NEW raw, NEW id, NEW c, Rises(raw, id, c)
  PROVE  /\ Rises(raw, id, Climb(raw, c))
         /\ ParentsOf(raw, Head(c)) = {} => Climb(raw, c) = c
         /\ ParentsOf(raw, Head(c)) # {} => Len(Climb(raw, c)) = Len(c) + 1
<1>1. CASE ParentsOf(raw, Head(c)) = {}
  BY <1>1 DEF Climb
<1>2. CASE ParentsOf(raw, Head(c)) # {}
  <2> DEFINE p == CHOOSE q \in ParentsOf(raw, Head(c)) : TRUE
             d == <<p>> \o c
  <2>1. p \in ParentsOf(raw, Head(c)) /\ Climb(raw, c) = d
    BY <1>2 DEF Climb
  <2> HIDE DEF p
  <2>2. p \in Kin(raw, id)
    BY <2>1 DEF ParentsOf, Kin
  <2>3. /\ d \in Seq(Kin(raw, id)) /\ Len(d) = Len(c) + 1 /\ d[1] = p
        /\ \A i \in 1..Len(c) : d[i + 1] = c[i]
    <3> HIDE DEF Kin
    <3> QED BY <2>2 DEF Rises
  <2> HIDE DEF d
  <2>4. Len(c) \in Nat /\ Len(c) >= 1 /\ Head(c) = c[1]
    BY DEF Rises
  <2>5. ASSUME NEW i \in 1..Len(d) - 1 PROVE d[i] \in ParentsOf(raw, d[i + 1])
    <3>1. CASE i = 1
      BY <2>1, <2>3, <2>4, <3>1
    <3>2. CASE i # 1
      <4>1. i - 1 \in 1..Len(c) - 1 /\ (i - 1) + 1 = i /\ i \in 1..Len(c) /\ i - 1 \in 1..Len(c)
        BY <2>3, <2>4, <3>2
      <4>2. d[i] = c[i - 1] /\ d[i + 1] = c[i]
        BY <2>3, <4>1
      <4> QED BY <4>1, <4>2 DEF Rises
    <3> QED BY <3>1, <3>2
  <2>6. d[Len(d)] = id
    BY <2>3, <2>4 DEF Rises
  <2> QED BY <1>2, <2>1, <2>3, <2>4, <2>5, <2>6 DEF Rises
<1> QED BY <1>1, <1>2

\* A chain ends at a root or a missing row, or has grown at every step.
LEMMA ChainRises ==
  ASSUME NEW raw, NEW id, Cardinality(raw) \in Nat
  PROVE  /\ Rises(raw, id, Chain(raw, id))
         /\ \/ Len(Chain(raw, id)) = Cardinality(raw) + 1
            \/ ParentsOf(raw, Head(Chain(raw, id))) = {}
<1> DEFINE N == Cardinality(raw)
<1>1. PICK c : /\ Chain(raw, id) = c[N] /\ c[0] = <<id>>
               /\ \A k \in 1..N : c[k] = Climb(raw, c[k - 1])
  BY ChainClimbs
<1> DEFINE Good(k) == /\ Rises(raw, id, c[k])
                      /\ Len(c[k]) = k + 1 \/ ParentsOf(raw, Head(c[k])) = {}
           T == {k \in Nat : k <= N => Good(k)}
<1>2. 0 \in T
  <2>1. Rises(raw, id, <<id>>) /\ Len(<<id>>) = 1
    BY DEF Rises, Kin
  <2> QED BY <1>1, <2>1
<1>3. ASSUME NEW k \in T \cap Nat PROVE k + 1 \in T
  <2> SUFFICES ASSUME k + 1 <= N PROVE Good(k + 1)
    OBVIOUS
  <2>1. Good(k) /\ c[k + 1] = Climb(raw, c[k])
    <3>1. k + 1 \in 1..N /\ (k + 1) - 1 = k /\ k <= N
      OBVIOUS
    <3>2. c[k + 1] = Climb(raw, c[k])
      BY <1>1, <3>1
    <3> QED BY <3>1, <3>2
  <2> QED BY <2>1, ClimbRises
<1> HIDE DEF T, Good
<1>4. N \in T
  BY <1>2, <1>3, Induction
<1> QED BY <1>1, <1>4 DEF T, Good

\* The row r that the SELECT makes of GitLab's namespace n.
FromRow(n, r) ==
  /\ r.id = n.id /\ r.path = n.path /\ r.owner = n.owner /\ r.parent = n.parent
  /\ r.kind = IF n.type = "User" THEN "user" ELSE "group"

GroupsAndUsers(gl) == {n \in gl.namespaces : n.type \in {"User", "Group"}}

\* The rows that are read: one for each group and each user's namespace.
LEMMA RawRows ==
  ASSUME NEW gl, GitlabSchema(gl)
  PROVE  /\ IsFiniteSet(RawNamespaces(gl)) /\ Cardinality(RawNamespaces(gl)) \in Nat
         /\ \A n \in GroupsAndUsers(gl) : \E r \in RawNamespaces(gl) : FromRow(n, r)
         /\ \A r \in RawNamespaces(gl) : \E n \in GroupsAndUsers(gl) : FromRow(n, r)
         /\ \A r, q \in RawNamespaces(gl) : r.id = q.id => r = q
<1> DEFINE row(n) == [id |-> n.id, path |-> n.path, owner |-> n.owner, parent |-> n.parent,
                      kind |-> IF n.type = "User" THEN "user" ELSE "group"]
           f == [n \in GroupsAndUsers(gl) |-> row(n)]
<1>1. RawNamespaces(gl) = {row(n) : n \in GroupsAndUsers(gl)}
  BY DEF RawNamespaces, GroupsAndUsers
<1>2. \A n : FromRow(n, row(n))
  BY DEF FromRow
<1>3. \A n \in GroupsAndUsers(gl) : f[n] = row(n)
  OBVIOUS
<1>4. f \in [GroupsAndUsers(gl) -> {row(n) : n \in GroupsAndUsers(gl)}]
  OBVIOUS
<1> HIDE DEF row, f
<1>5. f \in Surjection(GroupsAndUsers(gl), RawNamespaces(gl))
  BY <1>1, <1>3, <1>4 DEF Surjection
<1>6. IsFiniteSet(GroupsAndUsers(gl))
  BY FS_Subset DEF GroupsAndUsers, GitlabSchema
<1>7. IsFiniteSet(RawNamespaces(gl)) /\ Cardinality(RawNamespaces(gl)) \in Nat
  BY <1>5, <1>6, FS_Surjection, FS_CardinalityType
<1>8. \A r, q \in RawNamespaces(gl) : r.id = q.id => r = q
  <2> SUFFICES ASSUME NEW n \in GroupsAndUsers(gl), NEW o \in GroupsAndUsers(gl), row(n).id = row(o).id
               PROVE  row(n) = row(o)
    BY <1>1
  <2>1. n.id = o.id
    BY <1>2 DEF FromRow
  <2>2. n = o
    BY <2>1 DEF GitlabSchema, GroupsAndUsers
  <2> QED BY <2>2
<1> QED BY <1>1, <1>2, <1>7, <1>8

\* The parent of a row, if it has one.
LEMMA OneParent ==
  ASSUME NEW raw, \A r, q \in raw : r.id = q.id => r = q, NEW r \in raw
  PROVE  ParentsOf(raw, r.id) = {r.parent} \ {Null}
BY DEF ParentsOf

\* A chain without a cycle that the loop does not reject ends at a root.
LEMMA ChainEnds ==
  ASSUME NEW raw, IsFiniteSet(raw), NEW id, ChainOk(raw, id)
  PROVE  ParentsOf(raw, Head(Chain(raw, id))) = {}
<1> DEFINE c == Chain(raw, id)
           N == Cardinality(raw)
<1>1. N \in Nat
  BY FS_CardinalityType
<1>2. Rises(raw, id, c) /\ (Len(c) = N + 1 \/ ParentsOf(raw, Head(c)) = {})
  BY <1>1, ChainRises
<1>3. IsInjective(c) /\ \A a \in Range(c) : a \in Ids(raw)
  BY DEF ChainOk
<1> HIDE DEF c
<1>4. Len(c) # N + 1
  <2> SUFFICES ASSUME Len(c) = N + 1 PROVE FALSE
    OBVIOUS
  <2> DEFINE f == [i \in 1..N + 1 |-> CHOOSE r \in raw : r.id = c[i]]
  <2>1. \A i \in 1..N + 1 : c[i] \in Range(c) /\ i \in DOMAIN c
    BY <1>2 DEF Range, Rises
  <2>2. \A i \in 1..N + 1 : f[i] \in raw /\ f[i].id = c[i]
    BY <1>3, <2>1 DEF Ids
  <2>3. f \in [1..N + 1 -> raw]
    <3>1. f = [i \in 1..N + 1 |-> f[i]]
      OBVIOUS
    <3> HIDE DEF f
    <3> QED BY <2>2, <3>1
  <2> HIDE DEF f
  <2>4. IsFiniteSet(1..N + 1) /\ Cardinality(1..N + 1) > N
    BY <1>1, FS_Interval
  <2>5. \E i, j \in 1..N + 1 : i # j /\ f[i] = f[j]
    BY <2>3, <2>4, FS_PigeonHole
  <2> QED BY <1>3, <2>1, <2>2, <2>5 DEF IsInjective
<1> QED BY <1>2, <1>4 DEF c

\* A chain stays within every set that has id and the parents of its members.
LEMMA ChainWithin ==
  ASSUME NEW raw, NEW id, NEW c, Rises(raw, id, c), NEW S, id \in S,
         \A r \in raw : r.id \in S /\ r.parent # Null => r.parent \in S
  PROVE  Range(c) \subseteq S
<1> DEFINE T == {j \in Nat : j < Len(c) => c[Len(c) - j] \in S}
<1>1. Len(c) \in Nat /\ DOMAIN c = 1..Len(c)
  BY DEF Rises
<1>2. 0 \in T
  BY <1>1 DEF Rises
<1>3. ASSUME NEW j \in T \cap Nat PROVE j + 1 \in T
  <2> SUFFICES ASSUME j + 1 < Len(c) PROVE c[Len(c) - (j + 1)] \in S
    OBVIOUS
  <2> DEFINE i == Len(c) - (j + 1)
  <2>1. i \in 1..Len(c) - 1 /\ i + 1 = Len(c) - j
    BY <1>1
  <2>2. c[i + 1] \in S
    BY <1>1, <2>1
  <2> HIDE DEF i
  <2>3. c[i] \in ParentsOf(raw, c[i + 1])
    BY <2>1 DEF Rises
  <2>4. c[i] \in S
    BY <2>2, <2>3 DEF ParentsOf
  <2> QED BY <2>4 DEF i
<1> HIDE DEF T
<1>4. Nat \subseteq T
  BY <1>2, <1>3, Induction
<1>5. ASSUME NEW i \in 1..Len(c) PROVE c[i] \in S
  <2>1. Len(c) - i \in Nat /\ Len(c) - i < Len(c) /\ Len(c) - (Len(c) - i) = i
    BY <1>1
  <2>2. Len(c) - i \in T
    BY <1>4, <2>1
  <2> QED BY <2>1, <2>2 DEF T
<1> QED BY <1>1, <1>5 DEF Range

\* The climb finds what GitLab means by the groups above a group.
LEMMA ChainIsAbove ==
  ASSUME NEW gl, GitlabSchema(gl), NEW id, ChainOk(RawNamespaces(gl), id)
  PROVE  Range(Chain(RawNamespaces(gl), id)) = Above(gl, id)
<1> DEFINE raw == RawNamespaces(gl)
           c == Chain(raw, id)
           Closed(S) == \A n \in gl.namespaces : n.id \in S /\ n.parent # Null => n.parent \in S
<1>1. IsFiniteSet(raw) /\ Cardinality(raw) \in Nat /\ \A r, q \in raw : r.id = q.id => r = q
  BY RawRows
<1>2. Rises(raw, id, c) /\ ParentsOf(raw, Head(c)) = {}
  BY <1>1, ChainRises, ChainEnds
<1>3. /\ \A n \in GroupsAndUsers(gl) : \E r \in raw : FromRow(n, r)
      /\ \A r \in raw : \E n \in GroupsAndUsers(gl) : FromRow(n, r)
  BY RawRows
<1>4. \A a \in Range(c) : a \in Ids(raw) /\ RowOf(raw, a).kind = "group"
  BY DEF ChainOk
<1> HIDE DEF raw, c
<1>5. Len(c) \in Nat /\ Len(c) >= 1 /\ DOMAIN c = 1..Len(c) /\ Head(c) = c[1] /\ c[Len(c)] = id
  BY <1>2 DEF Rises
<1>6. Range(c) \subseteq Ids(gl.namespaces)
  BY <1>3, <1>4 DEF Ids, FromRow, GroupsAndUsers
<1>7. id \in Range(c)
  BY <1>5 DEF Range
<1>8. Range(c) \subseteq Above(gl, id)
  <2>1. ASSUME NEW S, id \in S, Closed(S) PROVE Range(c) \subseteq S
    <3>1. \A r \in raw : r.id \in S /\ r.parent # Null => r.parent \in S
      BY <1>3, <2>1 DEF FromRow, GroupsAndUsers
    <3> QED BY <1>2, <2>1, <3>1, ChainWithin
  <2> QED BY <1>6, <2>1 DEF Above
<1>9. Closed(Range(c))
  <2> SUFFICES ASSUME NEW n \in gl.namespaces, n.id \in Range(c), n.parent # Null
               PROVE  n.parent \in Range(c)
    OBVIOUS
  <2>1. PICK r \in raw : r.id = n.id
    BY <1>4 DEF Ids
  <2>2. PICK o \in GroupsAndUsers(gl) : FromRow(o, r)
    BY <1>3
  <2>3. o = n
    BY <2>1, <2>2 DEF FromRow, GroupsAndUsers, GitlabSchema
  <2>4. ParentsOf(raw, n.id) = {n.parent}
    BY <1>1, <2>1, <2>2, <2>3, OneParent DEF FromRow
  <2>5. PICK i \in 1..Len(c) : c[i] = n.id
    BY <1>5 DEF Range
  <2>6. i # 1
    BY <1>2, <1>5, <2>4, <2>5
  <2>7. i - 1 \in 1..Len(c) - 1 /\ (i - 1) + 1 = i /\ i - 1 \in 1..Len(c)
    BY <1>5, <2>6
  <2>8. c[i - 1] \in ParentsOf(raw, c[i])
    BY <1>2, <2>7 DEF Rises
  <2>9. c[i - 1] \in Range(c)
    BY <1>5, <2>7 DEF Range
  <2> QED BY <2>4, <2>5, <2>8, <2>9
<1>10. Above(gl, id) \subseteq Range(c)
  BY <1>6, <1>7, <1>9 DEF Above
<1> QED BY <1>8, <1>10 DEF c, raw

-----------------------------------------------------------------------------
(* The loop over the namespaces.                                              *)

\* What the loop relies on of the rows it is given.
SoundRows(raw) ==
  /\ IsFiniteSet(raw)
  /\ \A n \in raw : /\ n.id \in Nat /\ n.kind \in {"user", "group"}
                    /\ n.kind = "user" => n.parent = Null
                    /\ n.parent = Null => Len(n.path) <= MaxPath
  /\ \A n, o \in raw : n.id = o.id => n = o
  /\ \A n, o \in raw : n.parent = Null /\ o.parent = Null /\ n.path = o.path => n = o

\* GitLab's schema gives it.
LEMMA RawIsSound ==
  ASSUME NEW gl, GitlabSchema(gl)
  PROVE  SoundRows(RawNamespaces(gl))
<1> DEFINE raw == RawNamespaces(gl)
<1>1. /\ IsFiniteSet(raw) /\ \A r, q \in raw : r.id = q.id => r = q
      /\ \A r \in raw : \E n \in GroupsAndUsers(gl) : FromRow(n, r)
  BY RawRows
<1> HIDE DEF raw
<1>2. ASSUME NEW r \in raw
      PROVE  /\ r.id \in Nat /\ r.kind \in {"user", "group"} /\ (r.kind = "user" => r.parent = Null)
             /\ r.parent = Null => Len(r.path) <= MaxPath
  BY <1>1 DEF GroupsAndUsers, FromRow, GitlabSchema
<1>3. ASSUME NEW r \in raw, NEW q \in raw, r.parent = Null, q.parent = Null, r.path = q.path
      PROVE  r = q
  <2>1. PICK n \in GroupsAndUsers(gl), o \in GroupsAndUsers(gl) : FromRow(n, r) /\ FromRow(o, q)
    BY <1>1
  <2>2. n = o
    BY <1>3, <2>1 DEF GroupsAndUsers, FromRow, GitlabSchema
  <2> QED BY <1>1, <2>1, <2>2 DEF FromRow
<1> QED BY <1>1, <1>2, <1>3 DEF SoundRows, raw

Depth(raw, n) == Len(Ancestry(raw, n))

\* Roots, and only they, are at most one deep, and their path is their own.
LEMMA RootDepth ==
  ASSUME NEW raw, SoundRows(raw), NEW n \in raw
  PROVE  /\ Depth(raw, n) \in Nat
         /\ n.parent = Null <=> Depth(raw, n) <= 1
         /\ n.parent = Null => JoinedPath(raw, n) = n.path
<1>1. CASE n.kind = "user"
  BY <1>1 DEF Depth, Ancestry, JoinedPath, SoundRows
<1>2. CASE n.kind # "user"
  <2> DEFINE c == Chain(raw, n.id)
             N == Cardinality(raw)
  <2>1. N \in Nat /\ N >= 1
    BY FS_CardinalityType, FS_EmptySet DEF SoundRows
  <2>2. Rises(raw, n.id, c) /\ (Len(c) = N + 1 \/ ParentsOf(raw, Head(c)) = {})
    BY <2>1, ChainRises
  <2>3. ParentsOf(raw, n.id) = {n.parent} \ {Null}
    BY OneParent DEF SoundRows
  <2>4. Depth(raw, n) = Len(c) /\ JoinedPath(raw, n) = FlattenSeq([i \in DOMAIN c |-> RowOf(raw, c[i]).path])
    BY <1>2 DEF Depth, Ancestry, JoinedPath
  <2> HIDE DEF c
  <2>5. Len(c) \in Nat /\ Len(c) >= 1 /\ c[Len(c)] = n.id /\ Head(c) = c[1] /\ DOMAIN c = 1..Len(c)
    BY <2>2 DEF Rises
  <2>6. CASE n.parent # Null
    <3> SUFFICES ASSUME Len(c) = 1 PROVE FALSE
      BY <2>4, <2>5, <2>6
    <3>1. Len(c) # N + 1
      BY <2>1
    <3>2. n.parent \in ParentsOf(raw, Head(c))
      BY <2>3, <2>5, <2>6
    <3> QED BY <2>2, <3>1, <3>2
  <2>7. CASE n.parent = Null
    <3>1. Len(c) = 1
      <4> SUFFICES ASSUME Len(c) # 1 PROVE FALSE
        OBVIOUS
      <4>1. Len(c) - 1 \in 1..Len(c) - 1 /\ (Len(c) - 1) + 1 = Len(c)
        BY <2>5
      <4>2. c[Len(c) - 1] \in ParentsOf(raw, c[Len(c)])
        BY <2>2, <4>1 DEF Rises
      <4> QED BY <2>3, <2>5, <2>7, <4>2
    <3>2. RowOf(raw, n.id) = n
      BY DEF RowOf, SoundRows
    <3> DEFINE s == [i \in 1..1 |-> n.path]
    <3>3. [i \in DOMAIN c |-> RowOf(raw, c[i]).path] = s
      BY <2>5, <3>1, <3>2
    <3>4. FlattenSeq(s) = n.path
      <4> DEFINE IsFlat(f) == f = [i \in 1..Len(s) |-> IF i = 1 THEN s[i] ELSE f[i - 1] \o s[i]]
                 g == CHOOSE f : IsFlat(f)
      <4>1. Len(s) = 1 /\ s[1] = n.path
        OBVIOUS
      <4>2. FlattenSeq(s) = g[Len(s)]
        BY <4>1 DEF FlattenSeq
      <4> HIDE DEF s
      <4>3. IsFlat([i \in 1..1 |-> n.path])
        BY <4>1
      <4>4. IsFlat(g)
        <5> HIDE DEF IsFlat
        <5> QED BY <4>3
      <4>5. g[1] = s[1]
        <5> HIDE DEF g
        <5> QED BY <4>1, <4>4
      <4> QED BY <4>1, <4>2, <4>5
    <3> QED BY <2>4, <2>5, <2>7, <3>1, <3>3, <3>4
  <2> QED BY <2>6, <2>7
<1> QED BY <1>1, <1>2

\* The row taken next is one of those that are left, and none is less deep.
LEMMA NextIsFirst ==
  ASSUME NEW raw, SoundRows(raw), NEW left \in SUBSET raw, left # {}
  PROVE  /\ NextOf(raw, left) \in left
         /\ \A m \in left : Depth(raw, NextOf(raw, left)) <= Depth(raw, m)
<1> DEFINE First(n) ==
             \A m \in left \ {n} :
                \/ Depth(raw, n) < Depth(raw, m)
                \/ Depth(raw, n) = Depth(raw, m) /\ n.id < m.id
<1>1. \A m \in left : Depth(raw, m) \in Nat /\ m.id \in Nat
  BY RootDepth DEF SoundRows
<1>2. \E n \in left : First(n)
  <2>1. PICK d \in {Depth(raw, m) : m \in left} : \A e \in {Depth(raw, m) : m \in left} : d <= e
    <3>1. {Depth(raw, m) : m \in left} \subseteq Nat /\ {Depth(raw, m) : m \in left} # {}
      BY <1>1
    <3> QED BY <3>1, LeastNumber
  <2> DEFINE S == {m \in left : Depth(raw, m) = d}
  <2>2. PICK i \in {m.id : m \in S} : \A j \in {m.id : m \in S} : i <= j
    <3>1. {m.id : m \in S} \subseteq Nat /\ {m.id : m \in S} # {}
      BY <1>1, <2>1
    <3> QED BY <3>1, LeastNumber
  <2>3. PICK n \in S : n.id = i
    BY <2>2
  <2>4. ASSUME NEW m \in left \ {n}
        PROVE  Depth(raw, n) < Depth(raw, m) \/ (Depth(raw, n) = Depth(raw, m) /\ n.id < m.id)
    <3>1. CASE m \in S
      <4>1. i <= m.id /\ m.id # n.id
        BY <2>2, <3>1 DEF SoundRows
      <4> QED BY <1>1, <2>3, <3>1, <4>1
    <3>2. CASE m \notin S
      <4>1. d <= Depth(raw, m) /\ Depth(raw, m) # d
        BY <2>1, <3>2
      <4> QED BY <1>1, <2>3, <4>1
    <3> QED BY <3>1, <3>2
  <2> QED BY <2>3, <2>4
<1>3. NextOf(raw, left) = CHOOSE n \in left : First(n)
  BY DEF NextOf, Depth
<1> HIDE DEF First
<1>4. NextOf(raw, left) \in left /\ First(NextOf(raw, left))
  BY <1>2, <1>3
<1> QED BY <1>1, <1>4 DEF First

\* The states f[0] to f[n] of the first n turns of the loop.
Flattens(raw, f, n) == f = [k \in 0..n |-> IF k = 0 THEN Unflattened(raw) ELSE FlattenOne(raw, f[k - 1])]

LEMMA FlattenExists ==
  ASSUME NEW raw
  PROVE  \A n \in Nat : \E f : Flattens(raw, f, n)
<1> DEFINE T == {n \in Nat : \E f : Flattens(raw, f, n)}
<1>1. 0 \in T
  <2> DEFINE f == [k \in 0..0 |-> Unflattened(raw)]
  <2>1. Flattens(raw, f, 0)
    BY DEF Flattens
  <2> QED BY <2>1
<1>2. ASSUME NEW n \in T \cap Nat PROVE n + 1 \in T
  <2>1. PICK f : Flattens(raw, f, n)
    OBVIOUS
  <2> DEFINE g == [k \in 0..n + 1 |-> IF k \in 0..n THEN f[k] ELSE FlattenOne(raw, f[n])]
  <2>2. \A k \in 0..n : g[k] = f[k] /\ f[k] = IF k = 0 THEN Unflattened(raw) ELSE FlattenOne(raw, f[k - 1])
    BY <2>1 DEF Flattens
  <2>3. ASSUME NEW k \in 0..n + 1
        PROVE  g[k] = IF k = 0 THEN Unflattened(raw) ELSE FlattenOne(raw, g[k - 1])
    <3>1. CASE k = 0
      <4>1. 0 \in 0..n
        OBVIOUS
      <4> HIDE DEF g
      <4> QED BY <2>2, <3>1, <4>1
    <3>2. CASE k \in 1..n
      <4>1. k - 1 \in 0..n /\ k \in 0..n /\ k # 0
        BY <3>2
      <4> HIDE DEF g
      <4> QED BY <2>2, <4>1
    <3>3. CASE k = n + 1
      <4>1. k - 1 = n /\ k \notin 0..n /\ n \in 0..n /\ k # 0
        BY <3>3
      <4>2. g[k] = FlattenOne(raw, f[n])
        BY <4>1
      <4> HIDE DEF g
      <4> QED BY <2>2, <4>1, <4>2
    <3> QED BY <3>1, <3>2, <3>3
  <2>4. g = [k \in 0..n + 1 |-> g[k]]
    OBVIOUS
  <2> HIDE DEF g
  <2>5. [k \in 0..n + 1 |-> g[k]]
          = [k \in 0..n + 1 |-> IF k = 0 THEN Unflattened(raw) ELSE FlattenOne(raw, g[k - 1])]
    BY <2>3
  <2>6. Flattens(raw, g, n + 1)
    BY <2>4, <2>5 DEF Flattens
  <2> QED BY <2>6
<1> HIDE DEF T
<1>3. Nat \subseteq T
  BY <1>1, <1>2, Induction
<1> QED BY <1>3 DEF T

\* The row x that the loop makes of the row n.
MadeOf(raw, n, x) ==
  /\ x.id = n.id /\ x.kind = n.kind /\ x.owner = n.owner /\ x.ancestry = Range(Ancestry(raw, n))
  /\ n.parent = Null => x.path = n.path

\* After k rows: each that is done has one row, no two rows have one path unless
\* the loop has bailed out, and roots come first and have their own paths.
Flattened(raw, fl, k) ==
  /\ fl.left \in SUBSET raw /\ Cardinality(fl.left) = Cardinality(raw) - k
  /\ \A x \in fl.rows : x.path \in fl.used /\ \E n \in raw \ fl.left : MadeOf(raw, n, x)
  /\ \A p \in fl.used : \E x \in fl.rows : x.path = p
  /\ \A n \in raw \ fl.left : \E x \in fl.rows : MadeOf(raw, n, x)
  /\ \A x, y \in fl.rows : x.id = y.id => x = y
  /\ fl.ok => \A x, y \in fl.rows : x.path = y.path => x = y
  /\ (\E n \in fl.left : n.parent = Null) => \A n \in raw \ fl.left : n.parent = Null

\* One turn of the loop keeps that.
LEMMA FlattenOneKeeps ==
  ASSUME NEW raw, SoundRows(raw), NEW fl, NEW k \in Nat, k < Cardinality(raw), Flattened(raw, fl, k)
  PROVE  Flattened(raw, FlattenOne(raw, fl), k + 1)
<1> DEFINE n == NextOf(raw, fl.left)
           path == FlatPath(fl.used, JoinedPath(raw, n), n.id)
           x == [id |-> n.id, path |-> path, kind |-> n.kind, owner |-> n.owner,
                 ancestry |-> Range(Ancestry(raw, n))]
           gl == FlattenOne(raw, fl)
<1>1. /\ gl.ok = (fl.ok /\ path \notin fl.used) /\ gl.used = fl.used \cup {path}
      /\ gl.rows = fl.rows \cup {x} /\ gl.left = fl.left \ {n}
  BY DEF FlattenOne
<1>2. /\ x.id = n.id /\ x.path = path /\ x.kind = n.kind /\ x.owner = n.owner
      /\ x.ancestry = Range(Ancestry(raw, n))
  OBVIOUS
<1>3. IsFiniteSet(fl.left) /\ Cardinality(raw) \in Nat
  BY FS_Subset, FS_CardinalityType DEF Flattened, SoundRows
<1>4. fl.left # {}
  BY <1>3, FS_EmptySet DEF Flattened
<1>5. n \in fl.left /\ n \in raw /\ \A m \in fl.left : Depth(raw, n) <= Depth(raw, m)
  BY <1>4, NextIsFirst DEF Flattened
<1>6. Cardinality(gl.left) = Cardinality(raw) - (k + 1)
  <2>1. Cardinality(fl.left \ {n}) = Cardinality(fl.left) - 1
    BY <1>3, <1>5, FS_RemoveElement
  <2> QED BY <1>1, <1>3, <2>1 DEF Flattened
<1> HIDE DEF n
<1>7. n.parent = Null => path = n.path
  <2> SUFFICES ASSUME n.parent = Null PROVE path = n.path
    OBVIOUS
  <2>1. JoinedPath(raw, n) = n.path /\ ~(Len(n.path) > MaxPath)
    <3>1. Len(n.path) <= MaxPath /\ JoinedPath(raw, n) = n.path
      BY <1>5, RootDepth DEF SoundRows
    <3>2. Len(n.path) <= MaxPath => ~(Len(n.path) > MaxPath)
      BY MaxPathAssumption
    <3> QED BY <3>1, <3>2
  <2>2. n.path \notin fl.used
    <3> SUFFICES ASSUME n.path \in fl.used PROVE FALSE
      OBVIOUS
    <3>1. PICK y \in fl.rows, m \in raw \ fl.left : y.path = n.path /\ MadeOf(raw, m, y)
      BY DEF Flattened
    <3>2. m.parent = Null
      BY <1>5, <3>1 DEF Flattened
    <3> QED BY <1>5, <3>1, <3>2 DEF MadeOf, SoundRows
  <2> QED BY <2>1, <2>2 DEF FlatPath
<1> HIDE DEF path, gl, x
<1>8. MadeOf(raw, n, x)
  BY <1>2, <1>7 DEF MadeOf
<1>9. raw \ gl.left = (raw \ fl.left) \cup {n}
  BY <1>1, <1>5
<1>10. /\ \A y \in gl.rows : y.path \in gl.used /\ \E m \in raw \ gl.left : MadeOf(raw, m, y)
       /\ \A p \in gl.used : \E y \in gl.rows : y.path = p
       /\ \A m \in raw \ gl.left : \E y \in gl.rows : MadeOf(raw, m, y)
  BY <1>1, <1>2, <1>8, <1>9 DEF Flattened
<1>11. \A y \in fl.rows : y.id # x.id
  <2> SUFFICES ASSUME NEW y \in fl.rows, y.id = x.id PROVE FALSE
    OBVIOUS
  <2>1. PICK m \in raw \ fl.left : MadeOf(raw, m, y)
    BY DEF Flattened
  <2>2. m.id = n.id
    BY <1>2, <2>1 DEF MadeOf
  <2> QED BY <1>5, <2>1, <2>2 DEF SoundRows
<1>12. \A y, z \in gl.rows : y.id = z.id => y = z
  BY <1>1, <1>11 DEF Flattened
<1>13. gl.ok => \A y, z \in gl.rows : y.path = z.path => y = z
  BY <1>1, <1>2 DEF Flattened
<1>14. (\E m \in gl.left : m.parent = Null) => \A m \in raw \ gl.left : m.parent = Null
  <2> SUFFICES ASSUME NEW m \in gl.left, m.parent = Null PROVE \A o \in raw \ gl.left : o.parent = Null
    OBVIOUS
  <2>1. m \in fl.left /\ m \in raw
    BY <1>1 DEF Flattened
  <2>2. Depth(raw, n) <= 1
    <3>1. Depth(raw, n) <= Depth(raw, m) /\ Depth(raw, m) <= 1 /\ Depth(raw, n) \in Nat /\ Depth(raw, m) \in Nat
      BY <1>5, <2>1, RootDepth
    <3> QED BY <3>1
  <2>3. n.parent = Null
    BY <1>5, <2>2, RootDepth
  <2> QED BY <1>9, <2>1, <2>3 DEF Flattened
<1>15. gl.left \in SUBSET raw
  BY <1>1 DEF Flattened
<1> QED BY <1>6, <1>10, <1>12, <1>13, <1>14, <1>15 DEF Flattened, gl

\* What flatten_namespaces returns when it does not bail out.
LEMMA FlattenedNamespaces ==
  ASSUME NEW raw, SoundRows(raw), FlattenNamespaces(raw).ok
  PROVE  /\ \A n \in raw : n.kind = "user" \/ ChainOk(raw, n.id)
         /\ \A x \in FlattenNamespaces(raw).rows : \E n \in raw : MadeOf(raw, n, x)
         /\ \A n \in raw : \E x \in FlattenNamespaces(raw).rows : MadeOf(raw, n, x)
         /\ \A x, y \in FlattenNamespaces(raw).rows : x.id = y.id \/ x.path = y.path => x = y
<1> DEFINE N == Cardinality(raw)
           f == CHOOSE g : Flattens(raw, g, N)
           Fine == \A n \in raw : n.kind = "user" \/ ChainOk(raw, n.id)
<1>1. N \in Nat /\ IsFiniteSet(raw)
  BY FS_CardinalityType DEF SoundRows
<1>2. FlattenNamespaces(raw) = IF Fine THEN f[N] ELSE [Unflattened(raw) EXCEPT !.ok = FALSE]
  BY DEF FlattenNamespaces, Flattens
<1> HIDE DEF Fine
<1>3. Fine /\ FlattenNamespaces(raw) = f[N]
  BY <1>2 DEF Unflattened
<1>4. Flattens(raw, f, N)
  BY <1>1, FlattenExists
<1> HIDE DEF f
<1>5. \A k \in 0..N : f[k] = IF k = 0 THEN Unflattened(raw) ELSE FlattenOne(raw, f[k - 1])
  BY <1>4 DEF Flattens
<1> DEFINE T == {k \in Nat : k <= N => Flattened(raw, f[k], k)}
<1>6. 0 \in T
  <2>1. f[0] = Unflattened(raw)
    BY <1>1, <1>5
  <2>2. Flattened(raw, Unflattened(raw), 0)
    BY <1>1 DEF Unflattened, Flattened
  <2> QED BY <2>1, <2>2
<1>7. ASSUME NEW k \in T \cap Nat PROVE k + 1 \in T
  <2> SUFFICES ASSUME k + 1 <= N PROVE Flattened(raw, f[k + 1], k + 1)
    OBVIOUS
  <2>1. k + 1 \in 0..N /\ (k + 1) - 1 = k /\ k <= N /\ k + 1 # 0 /\ k < N
    BY <1>1
  <2>2. f[k + 1] = FlattenOne(raw, f[k])
    BY <1>5, <2>1
  <2> QED BY <2>1, <2>2, FlattenOneKeeps
<1> HIDE DEF T
<1>8. N \in T
  BY <1>1, <1>6, <1>7, Induction
<1>9. Flattened(raw, f[N], N)
  BY <1>1, <1>8 DEF T
<1>10. f[N].left = {}
  <2>1. Cardinality(f[N].left) = 0 /\ IsFiniteSet(f[N].left)
    BY <1>1, <1>9, FS_Subset DEF Flattened
  <2> QED BY <2>1, FS_EmptySet
<1> QED BY <1>3, <1>9, <1>10 DEF Flattened, Fine

-----------------------------------------------------------------------------
(* The levels.                                                                *)

\* Finitely many numbers have a largest one.
LEMMA MaxOfNumbers ==
  ASSUME NEW S \in SUBSET Nat, IsFiniteSet(S), S # {}
  PROVE  Max(S) \in S /\ \A y \in S : Max(S) >= y
<1> DEFINE T == {n \in Nat : \A g \in [1..n -> Nat] : \E b \in Nat : \A i \in 1..n : g[i] <= b}
<1> HIDE DEF T
<1>1. 0 \in T
  BY DEF T
<1>2. ASSUME NEW n \in T \cap Nat PROVE n + 1 \in T
  <2>0. n + 1 \in Nat /\ n \in T
    BY <1>2
  <2> SUFFICES ASSUME NEW g \in [1..n + 1 -> Nat] PROVE \E b \in Nat : \A i \in 1..n + 1 : g[i] <= b
    BY <2>0 DEF T
  <2> DEFINE h == [i \in 1..n |-> g[i]]
  <2>1. h \in [1..n -> Nat] /\ \A i \in 1..n : h[i] = g[i]
    OBVIOUS
  <2> HIDE DEF h
  <2>2. PICK b \in Nat : \A i \in 1..n : h[i] <= b
    BY <2>0, <2>1 DEF T
  <2>3. g[n + 1] \in Nat
    OBVIOUS
  <2>4. ASSUME NEW i \in 1..n + 1 PROVE g[i] <= b + g[n + 1]
    <3>1. CASE i \in 1..n
      BY <2>1, <2>2, <2>3, <3>1
    <3>2. CASE i = n + 1
      BY <2>3, <3>2
    <3> QED BY <3>1, <3>2
  <2>5. b + g[n + 1] \in Nat
    BY <2>3
  <2> QED BY <2>4, <2>5
<1>3. Nat \subseteq T
  BY <1>1, <1>2, Induction
<1>3a. PICK n \in Nat : \E g \in [1..n -> S] : \A x \in S : \E i \in 1..n : g[i] = x
  BY FS_NatSurjection DEF ExistsSurjection, Surjection
<1>4. PICK g \in [1..n -> S] : \A x \in S : \E i \in 1..n : g[i] = x
  BY <1>3a
<1>5. n \in T /\ g \in [1..n -> Nat]
  BY <1>3
<1>6. PICK b \in Nat : \A i \in 1..n : g[i] <= b
  BY <1>5 DEF T
<1> DEFINE B == {c \in Nat : \A x \in S : x <= c}
<1> HIDE DEF B
<1>7. b \in B /\ B \subseteq Nat
  BY <1>4, <1>6 DEF B
<1>8. PICK c \in B : \A d \in B : c <= d
  BY <1>7, LeastNumber
<1>9. c \in S
  <2> SUFFICES ASSUME c \notin S PROVE FALSE
    OBVIOUS
  <2>1. \A x \in S : x <= c /\ x # c
    BY <1>8 DEF B
  <2>2. c \in Nat /\ c # 0
    <3>1. c \in Nat
      BY <1>7, <1>8
    <3>2. PICK x \in S : x <= c /\ x # c
      BY <2>1
    <3> QED BY <3>1, <3>2
  <2>3. c - 1 \in Nat /\ \A x \in S : x <= c - 1
    <3>1. c - 1 \in Nat
      BY <2>2
    <3>2. \A x \in S : x \in Nat
      OBVIOUS
    <3> QED BY <2>1, <2>2, <3>1, <3>2
  <2>4. c - 1 \in B /\ ~(c <= c - 1)
    BY <2>2, <2>3 DEF B
  <2> QED BY <1>8, <2>4
<1>10. \A y \in S : c >= y
  BY <1>7, <1>8 DEF B
<1> QED BY <1>9, <1>10 DEF Max

\* The largest of some numbers, as a set.
Top(S) == IF S = {} THEN {} ELSE {Max(S)}

\* The largest of the largest is the largest of all.
LEMMA TopOfTops ==
  ASSUME NEW A \in SUBSET Nat, NEW B \in SUBSET Nat, NEW C \in SUBSET {Owner},
         IsFiniteSet(A), IsFiniteSet(B), A \cup B \cup C # {}
  PROVE  /\ Max(Top(A) \cup Top(B) \cup C) = Max(A \cup B \cup C)
         /\ Max(A \cup B \cup C) \in Top(A) \cup Top(B) \cup C
<1> DEFINE S == A \cup B \cup C
           U == Top(A) \cup Top(B) \cup C
<1>1. Owner \in Nat
  BY DEF Owner
<1>2. IsFiniteSet(S) /\ S \in SUBSET Nat
  <2>1. IsFiniteSet(C)
    BY FS_Singleton, FS_Subset
  <2> QED BY <1>1, <2>1, FS_Union
<1>3. Max(S) \in S /\ \A y \in S : Max(S) >= y
  BY <1>2, MaxOfNumbers
<1>4. /\ A # {} => Max(A) \in A /\ \A y \in A : Max(A) >= y
      /\ B # {} => Max(B) \in B /\ \A y \in B : Max(B) >= y
  BY MaxOfNumbers
<1> DEFINE m == Max(S)
<1>5. U \subseteq S
  BY <1>4 DEF Top
<1>6. m \in U
  <2>1. CASE m \in A
    <3>1. m = Max(A)
      <4>1. m >= Max(A) /\ Max(A) >= m /\ m \in Nat /\ Max(A) \in Nat
        BY <1>3, <1>4, <2>1
      <4> QED BY <4>1
    <3> QED BY <2>1, <3>1 DEF Top
  <2>2. CASE m \in B
    <3>1. m = Max(B)
      <4>1. m >= Max(B) /\ Max(B) >= m /\ m \in Nat /\ Max(B) \in Nat
        BY <1>3, <1>4, <2>2
      <4> QED BY <4>1
    <3> QED BY <2>2, <3>1 DEF Top
  <2>3. CASE m \in C
    BY <2>3
  <2> QED BY <1>3, <2>1, <2>2, <2>3
<1>7. ASSUME NEW x \in U, \A y \in U : x >= y PROVE x = m
  <2>1. m \in Nat /\ x \in Nat /\ x >= m /\ m >= x
    BY <1>2, <1>3, <1>5, <1>6, <1>7
  <2> QED BY <2>1
<1>8. \A y \in U : m >= y
  BY <1>3, <1>5
<1> HIDE DEF m, U, S
<1>9. Max(U) = m
  BY <1>6, <1>7, <1>8 DEF Max
<1> QED BY <1>6, <1>9 DEF m, U, S

\* The levels a user has been given on a project itself, on the row of its
\* namespace, and as the owner of a personal one.
Offered(t, id, user) == {m.level : m \in {x \in OfferedMembers(t) : x.source = id /\ x.user = user}}

Below(t, x, user) == IF x.kind = "group" THEN {m.level : m \in Inherited(t, x, user)} ELSE {}

Owned(gl, id, user) ==
  {Owner : o \in {y \in gl.namespaces : y.id = id /\ y.type = "User" /\ y.owner = user}}

\* The level of a project's member is the largest of those offered.
LEMMA ProjectLevels ==
  ASSUME NEW t, NEW id, NEW user
  PROVE  {m.level : m \in {x \in ProjectMemberRows(t) : x.project = id /\ x.user = user}}
           = Top(Offered(t, id, user))
<1> DEFINE A == {x \in OfferedMembers(t) : x.source = id /\ x.user = user}
           R == {x \in ProjectMemberRows(t) : x.project = id /\ x.user = user}
           top == Max({m.level : m \in A})
<1>1. ASSUME NEW x \in R PROVE A # {} /\ x.level = top
  <2>1. PICK m \in OfferedMembers(t) :
           x = [project |-> m.source, user |-> m.user,
                level |-> Highest({y \in OfferedMembers(t) : y.source = m.source /\ y.user = m.user})]
    BY DEF ProjectMemberRows
  <2>2. m.source = id /\ m.user = user
    BY <2>1
  <2>3. x.level = Highest(A)
    BY <2>1, <2>2
  <2> QED BY <2>2, <2>3 DEF Highest
<1>2. ASSUME A # {} PROVE \E x \in R : x.level = top
  <2>1. PICK m \in OfferedMembers(t) : m.source = id /\ m.user = user
    BY <1>2
  <2> DEFINE x == [project |-> m.source, user |-> m.user,
                   level |-> Highest({y \in OfferedMembers(t) : y.source = m.source /\ y.user = m.user})]
  <2>2. x \in R
    BY <2>1 DEF ProjectMemberRows
  <2>3. x.level = Highest(A)
    BY <2>1
  <2> QED BY <2>2, <2>3 DEF Highest
<1>3. {m.level : m \in A} = {} <=> A = {}
  OBVIOUS
<1> HIDE DEF A, R, top
<1>4. {m.level : m \in R} = IF A = {} THEN {} ELSE {top}
  BY <1>1, <1>2
<1> QED BY <1>3, <1>4 DEF A, R, top, Top, Offered

\* So is that of a group's member, over the group and its ancestors.
LEMMA GroupLevels ==
  ASSUME NEW t, NEW x \in t.namespaces, \A y \in t.namespaces : y.id = x.id => y = x,
         NEW user \in Ids(t.users)
  PROVE  {m.level : m \in {r \in GroupMemberRows(t) : r.ns = x.id /\ r.user = user}}
           = Top(Below(t, x, user))
<1> DEFINE I == Inherited(t, x, user)
           R == {r \in GroupMemberRows(t) : r.ns = x.id /\ r.user = user}
           top == Max({m.level : m \in I})
           Pairs == {y \in {n \in t.namespaces : n.kind = "group"} \X Ids(t.users) :
                       Inherited(t, y[1], y[2]) # {}}
<1>1. ASSUME NEW r \in R PROVE x.kind = "group" /\ I # {} /\ r.level = top
  <2>1. PICK y \in Pairs :
           r = [ns |-> y[1].id, user |-> y[2], level |-> Highest(Inherited(t, y[1], y[2]))]
    BY DEF GroupMemberRows
  <2>2. y[1] \in t.namespaces /\ y[1].kind = "group" /\ Inherited(t, y[1], y[2]) # {}
    BY <2>1
  <2>3. y[1] = x /\ y[2] = user
    BY <2>1, <2>2
  <2>4. r.level = Highest(I)
    BY <2>1, <2>3
  <2> QED BY <2>2, <2>3, <2>4 DEF Highest
<1>2. ASSUME x.kind = "group", I # {} PROVE \E r \in R : r.level = top
  <2> DEFINE y == <<x, user>>
             r == [ns |-> y[1].id, user |-> y[2], level |-> Highest(Inherited(t, y[1], y[2]))]
  <2>1. y \in Pairs
    BY <1>2
  <2>2. r \in GroupMemberRows(t)
    BY <2>1 DEF GroupMemberRows
  <2>3. r.ns = x.id /\ r.user = user /\ r.level = Highest(I)
    OBVIOUS
  <2> QED BY <2>2, <2>3 DEF Highest
<1>3. {m.level : m \in I} = {} <=> I = {}
  OBVIOUS
<1> HIDE DEF I, R, top
<1>4. {m.level : m \in R} = IF x.kind = "group" /\ I # {} THEN {top} ELSE {}
  BY <1>1, <1>2
<1> QED BY <1>3, <1>4 DEF I, R, top, Top, Below

\* GitLab's row of a migrated project's namespace, and the flattened one.
HomeOf(gl, id, n, x) ==
  /\ n \in GroupsAndUsers(gl) /\ n.id = id
  /\ x \in ReadTables(gl).namespaces /\ x.id = id
  /\ x.kind = IF n.type = "User" THEN "user" ELSE "group"
  /\ x.owner = n.owner
  /\ n.type # "User" => x.ancestry = Above(gl, id)

\* Both rows exist when nothing has bailed out.
LEMMA HomeExists ==
  ASSUME NEW gl, GitlabSchema(gl), ReadTables(gl).ok, NEW id \in Ids(ReadTables(gl).namespaces)
  PROVE  /\ \E n, x : HomeOf(gl, id, n, x)
         /\ \A x, y \in ReadTables(gl).namespaces : x.id = y.id \/ x.path = y.path => x = y
<1> DEFINE raw == RawNamespaces(gl)
           rows == FlattenNamespaces(raw).rows
<1>1. SoundRows(raw) /\ FlattenNamespaces(raw).ok /\ ReadTables(gl).namespaces = rows
  BY RawIsSound DEF ReadTables
<1>2. /\ \A n \in raw : n.kind = "user" \/ ChainOk(raw, n.id)
      /\ \A x \in rows : \E n \in raw : MadeOf(raw, n, x)
      /\ \A x, y \in rows : x.id = y.id \/ x.path = y.path => x = y
  BY <1>1, FlattenedNamespaces
<1>3. PICK x \in rows : x.id = id
  BY <1>1 DEF Ids
<1>4. PICK r \in raw : MadeOf(raw, r, x)
  BY <1>2, <1>3
<1>5. PICK n \in GroupsAndUsers(gl) : FromRow(n, r)
  BY <1>4, RawRows
<1>6. r.id = id /\ n.id = id /\ x.owner = n.owner /\ x.kind = r.kind
  BY <1>3, <1>4, <1>5 DEF MadeOf, FromRow
<1>7. r.kind = IF n.type = "User" THEN "user" ELSE "group"
  BY <1>5 DEF FromRow
<1>8. ASSUME n.type # "User" PROVE x.ancestry = Above(gl, id)
  <2>1. ChainOk(raw, id) /\ r.kind # "user"
    BY <1>2, <1>4, <1>6, <1>7, <1>8
  <2>2. x.ancestry = Range(Chain(raw, id))
    BY <1>4, <1>6, <2>1 DEF MadeOf, Ancestry
  <2> QED BY <2>1, <2>2, ChainIsAbove
<1>9. HomeOf(gl, id, n, x)
  BY <1>1, <1>3, <1>5, <1>6, <1>7, <1>8 DEF HomeOf
<1> QED BY <1>1, <1>2, <1>9

\* The owner's level, in the rows and in GitLab.
LEMMA OwnerLevels ==
  ASSUME NEW gl, GitlabSchema(gl), ReadTables(gl).ok, NEW id, NEW n, NEW x, HomeOf(gl, id, n, x),
         NEW user \in Ids(ReadTables(gl).users), user # Null
  PROVE  {Owner : r \in {y \in NamespaceRows(ReadTables(gl)) : y.id = id /\ y.owner = user}}
           = Owned(gl, id, user)
<1> DEFINE t == ReadTables(gl)
           R == {y \in NamespaceRows(t) : y.id = id /\ y.owner = user}
           G == {y \in gl.namespaces : y.id = id /\ y.type = "User" /\ y.owner = user}
           Row(m) == IF m.kind = "user" /\ m.owner \in Ids(t.users)
                     THEN [id |-> m.id, path |-> m.path, kind |-> "user", owner |-> m.owner]
                     ELSE [id |-> m.id, path |-> m.path, kind |-> "group", owner |-> Null]
<1>1. \A y \in t.namespaces : y.id = id => y = x
  BY HomeExists DEF HomeOf, Ids
<1>2. \A m : Row(m).id = m.id
  OBVIOUS
<1>3. \A m : Row(m).owner = IF m.kind = "user" /\ m.owner \in Ids(t.users) THEN m.owner ELSE Null
  OBVIOUS
<1>4. NamespaceRows(t) = {Row(m) : m \in t.namespaces}
  BY DEF NamespaceRows
<1>5. R # {} <=> x.kind = "user" /\ x.owner = user
  <2>1. ASSUME NEW y \in R PROVE x.kind = "user" /\ x.owner = user
    <3>1. PICK m \in t.namespaces : y = Row(m)
      BY <1>4
    <3>2. m = x
      BY <1>1, <1>2, <3>1
    <3> HIDE DEF Row, t
    <3> QED BY <1>3, <3>1, <3>2
  <2>2. ASSUME x.kind = "user", x.owner = user PROVE Row(x) \in R
    <3>1. Row(x).owner = user
      BY <1>3, <2>2
    <3> QED BY <1>2, <1>4, <3>1 DEF HomeOf
  <2> QED BY <2>1, <2>2
<1>6. G # {} <=> n.type = "User" /\ n.owner = user
  <2>1. \A y \in gl.namespaces : y.id = id => y = n
    BY DEF HomeOf, GroupsAndUsers, GitlabSchema
  <2> QED BY <2>1 DEF HomeOf, GroupsAndUsers
<1>7. R = {} <=> G = {}
  BY <1>5, <1>6 DEF HomeOf
<1>8. {Owner : r \in R} = {Owner : o \in G}
  <2> HIDE DEF R, G
  <2> QED BY <1>7
<1>9. Owned(gl, id, user) = {Owner : o \in G}
  BY DEF Owned
<1> HIDE DEF G
<1> QED BY <1>8, <1>9

\* GitLab's levels on a project, sorted by where they come from.
LEMMA GitlabLevelsSorted ==
  ASSUME NEW gl, GitlabSchema(gl), NEW p, p.id \in Ids(ReadTables(gl).projects),
         NEW n, NEW x, HomeOf(gl, p.ns, n, x), NEW user \in Ids(ReadTables(gl).users)
  PROVE  GitlabLevels(gl, user, p) =
           Offered(ReadTables(gl), p.id, user) \cup Below(ReadTables(gl), x, user)
             \cup Owned(gl, p.ns, user)
<1> DEFINE t == ReadTables(gl)
           Own == {y \in OfferedMembers(t) : y.source = p.id /\ y.user = user}
           Inh == IF x.kind = "group" THEN Inherited(t, x, user) ELSE {}
           All == {y \in ReadMembers(gl) : /\ y.user = user
                                           /\ \/ y.type = "Project" /\ y.source = p.id
                                              \/ y.type = "Namespace" /\ y.source \in Above(gl, p.ns)}
<1>1. t.members = ReadMembers(gl)
  BY DEF ReadTables
<1>2. Own = {y \in ReadMembers(gl) : y.user = user /\ y.type = "Project" /\ y.source = p.id}
  BY <1>1 DEF OfferedMembers
<1>3. Inh = {y \in ReadMembers(gl) : y.user = user /\ y.type = "Namespace" /\ y.source \in Above(gl, p.ns)}
  <2>1. CASE x.kind = "group"
    <3>1. x.ancestry = Above(gl, p.ns)
      BY <2>1 DEF HomeOf
    <3> QED BY <1>1, <2>1, <3>1 DEF Inherited
  <2>2. CASE x.kind # "group"
    <3>1. n \in gl.namespaces /\ n.type = "User" /\ n.parent = Null /\ n.id = p.ns
      BY <2>2 DEF HomeOf, GroupsAndUsers, GitlabSchema
    <3>2. Above(gl, p.ns) \subseteq {p.ns}
      <4>1. \A o \in gl.namespaces : o.id \in {p.ns} => o = n
        BY <3>1 DEF GitlabSchema
      <4>2. {p.ns} \in SUBSET Ids(gl.namespaces)
        BY <3>1 DEF Ids
      <4> QED BY <3>1, <4>1, <4>2 DEF Above
    <3>3. \A y \in ReadMembers(gl) : y.type = "Namespace" => y.source # p.ns
      BY <3>1 DEF ReadMembers, GitlabSchema
    <3> QED BY <2>2, <3>2, <3>3
  <2> QED BY <2>1, <2>2
<1>4. All = Own \cup Inh
  <2> HIDE DEF Own, Inh
  <2> QED BY <1>2, <1>3
<1>5. Below(t, x, user) = {m.level : m \in Inh} /\ Offered(t, p.id, user) = {m.level : m \in Own}
  BY DEF Below, Offered
<1>6. {m.level : m \in All} = {m.level : m \in Own} \cup {m.level : m \in Inh}
  <2> HIDE DEF Own, Inh, All
  <2> QED BY <1>4
<1>7. GitlabLevels(gl, user, p) = {m.level : m \in All} \cup Owned(gl, p.ns, user)
  BY DEF GitlabLevels, Owned
<1> HIDE DEF Own, Inh, All
<1> QED BY <1>5, <1>6, <1>7

\* The levels are finitely many numbers.
LEMMA LevelsOfMembers ==
  ASSUME NEW gl, GitlabSchema(gl), NEW B, B \subseteq gl.members
  PROVE  {m.level : m \in B} \in SUBSET Nat /\ IsFiniteSet({m.level : m \in B})
<1> DEFINE f == [m \in B |-> m.level]
<1>1. f \in Surjection(B, {m.level : m \in B})
  BY DEF Surjection
<1>2. IsFiniteSet(B)
  BY FS_Subset DEF GitlabSchema
<1>3. IsFiniteSet({m.level : m \in B})
  BY <1>1, <1>2, FS_Surjection
<1>4. \A m \in gl.members : m.level \in Nat
  BY DEF GitlabSchema
<1> QED BY <1>3, <1>4

LEMMA LevelsAreNumbers ==
  ASSUME NEW gl, GitlabSchema(gl), NEW id, NEW x, NEW user
  PROVE  /\ Offered(ReadTables(gl), id, user) \in SUBSET Nat
         /\ IsFiniteSet(Offered(ReadTables(gl), id, user))
         /\ Below(ReadTables(gl), x, user) \in SUBSET Nat
         /\ IsFiniteSet(Below(ReadTables(gl), x, user))
<1> DEFINE t == ReadTables(gl)
           A == {y \in OfferedMembers(t) : y.source = id /\ y.user = user}
           I == Inherited(t, x, user)
<1>1. t.members \subseteq gl.members
  BY DEF ReadTables, ReadMembers
<1>2. A \subseteq gl.members /\ I \subseteq gl.members
  BY <1>1 DEF OfferedMembers, Inherited
<1>3. {} \in SUBSET Nat /\ IsFiniteSet({})
  BY FS_EmptySet
<1>4. /\ Offered(t, id, user) = {m.level : m \in A}
      /\ Below(t, x, user) = IF x.kind = "group" THEN {m.level : m \in I} ELSE {}
  BY DEF Below, Offered
<1> HIDE DEF A, I
<1> QED BY <1>2, <1>3, <1>4, LevelsOfMembers

\* Nested groups flattened and memberships materialised, nobody's level changes.
LEMMA SameLevel ==
  ASSUME NEW gl, GitlabSchema(gl), ReadTables(gl).ok, WriteOk(ReadTables(gl)),
         NEW u \in WriteSqlite(ReadTables(gl)).users, NEW p \in WriteSqlite(ReadTables(gl)).projects
  PROVE  EffectiveAccessLevel(WriteSqlite(ReadTables(gl)), u.id, p) = GitlabLevel(gl, u.id, p)
<1> DEFINE t == ReadTables(gl)
           db == WriteSqlite(t)
<1>1. db.users = UserRows(t) /\ db.projects = ProjectRows(t) /\ db.namespaces = NamespaceRows(t)
      /\ db.projectMembers = ProjectMemberRows(t) /\ db.groupMembers = GroupMemberRows(t)
  BY DEF WriteSqlite
<1>2. u.id \in Ids(t.users) /\ u.id # Null
  <2>1. PICK v \in t.users : u.id = v.id
    BY <1>1 DEF UserRows
  <2>2. v \in gl.users
    BY <2>1 DEF ReadTables, ReadUsers
  <2> QED BY <2>1, <2>2 DEF Ids, GitlabSchema
<1>3. p.id \in Ids(t.projects) /\ p.ns \in Ids(t.namespaces)
  <2>1. PICK q \in t.projects : p.id = q.id /\ p.ns = q.ns
    BY <1>1 DEF ProjectRows
  <2> QED BY <2>1 DEF Ids, WriteOk
<1>4. PICK n, x : HomeOf(gl, p.ns, n, x)
  BY <1>3, HomeExists
<1> DEFINE A == Offered(t, p.id, u.id)
           B == Below(t, x, u.id)
           C == Owned(gl, p.ns, u.id)
<1>5. GitlabLevels(gl, u.id, p) = A \cup B \cup C
  BY <1>2, <1>3, <1>4, GitlabLevelsSorted
<1>6. {m.level : m \in {r \in GroupMemberRows(t) : r.ns = p.ns /\ r.user = u.id}} = Top(B)
  <2>1. x \in t.namespaces /\ x.id = p.ns /\ \A y \in t.namespaces : y.id = x.id => y = x
    BY <1>3, <1>4, HomeExists DEF HomeOf
  <2> HIDE DEF t
  <2> QED BY <1>2, <2>1, GroupLevels
<1>7. LevelsOf(db, u.id, p) = Top(A) \cup Top(B) \cup C
  <2>1. {Owner : r \in {y \in NamespaceRows(t) : y.id = p.ns /\ y.owner = u.id}} = C
    BY <1>2, <1>4, OwnerLevels
  <2>2. {m.level : m \in {y \in ProjectMemberRows(t) : y.project = p.id /\ y.user = u.id}} = Top(A)
    BY ProjectLevels
  <2> HIDE DEF A, B, C, t, db
  <2> QED BY <1>1, <1>6, <2>1, <2>2 DEF LevelsOf
<1>8. A \in SUBSET Nat /\ IsFiniteSet(A) /\ B \in SUBSET Nat /\ IsFiniteSet(B) /\ C \in SUBSET {Owner}
  <2>1. C \in SUBSET {Owner}
    BY DEF Owned
  <2> QED BY <2>1, LevelsAreNumbers
<1>9. Top(A) \cup Top(B) \cup C \subseteq AccessLevel
  <2>1. A \subseteq AccessLevel
    BY DEF WriteOk, Offered
  <2>2. Top(A) \subseteq A
    BY <1>8, MaxOfNumbers DEF Top
  <2>3. Top(B) \subseteq AccessLevel
    BY <1>6 DEF WriteOk
  <2>4. Owner \in AccessLevel
    BY DEF Owner, AccessLevel
  <2> QED BY <1>8, <2>1, <2>2, <2>3, <2>4
<1> HIDE DEF A, B, C, t, db
<1>10. CASE A \cup B \cup C = {}
  <2>1. Top(A) \cup Top(B) \cup C = {}
    BY <1>10 DEF Top
  <2> QED BY <1>5, <1>7, <1>10, <2>1 DEF EffectiveAccessLevel, GitlabLevel, db, t
<1>11. CASE A \cup B \cup C # {}
  <2> DEFINE m == Max(A \cup B \cup C)
  <2>1. Max(Top(A) \cup Top(B) \cup C) = m /\ m \in Top(A) \cup Top(B) \cup C
    BY <1>8, <1>11, TopOfTops
  <2> HIDE DEF m
  <2>2. EffectiveAccessLevel(db, u.id, p) = m
    BY <1>7, <1>9, <2>1 DEF EffectiveAccessLevel, FromI32
  <2>3. GitlabLevel(gl, u.id, p) = m
    BY <1>5, <1>11 DEF GitlabLevel, m
  <2> QED BY <2>2, <2>3 DEF db, t
<1> QED BY <1>10, <1>11

\* Roots keep their paths, and no path is given twice.
LEMMA PathsKept ==
  ASSUME NEW gl, GitlabSchema(gl), ReadTables(gl).ok
  PROVE  LET rows == NamespaceRows(ReadTables(gl))
         IN /\ \A n \in gl.namespaces : n.parent = Null /\ n.type \in {"User", "Group"} =>
                  RowOf(rows, n.id).path = n.path
            /\ \A x, y \in rows : x.path = y.path => x = y
<1> DEFINE raw == RawNamespaces(gl)
           flat == FlattenNamespaces(raw).rows
           users == Ids(ReadTables(gl).users)
           Row(m) == IF m.kind = "user" /\ m.owner \in users
                     THEN [id |-> m.id, path |-> m.path, kind |-> "user", owner |-> m.owner]
                     ELSE [id |-> m.id, path |-> m.path, kind |-> "group", owner |-> Null]
           rows == NamespaceRows(ReadTables(gl))
<1>1. SoundRows(raw) /\ FlattenNamespaces(raw).ok /\ ReadTables(gl).namespaces = flat
  BY RawIsSound DEF ReadTables
<1>2. /\ \A n \in raw : \E x \in flat : MadeOf(raw, n, x)
      /\ \A x, y \in flat : x.id = y.id \/ x.path = y.path => x = y
  BY <1>1, FlattenedNamespaces
<1>3. rows = {Row(m) : m \in flat}
  BY <1>1 DEF NamespaceRows
<1>4. \A m : Row(m).id = m.id /\ Row(m).path = m.path
  OBVIOUS
<1> HIDE DEF Row, rows, flat, raw
<1>5. \A x, y \in rows : x.id = y.id \/ x.path = y.path => x = y
  BY <1>2, <1>3, <1>4
<1>6. ASSUME NEW n \in gl.namespaces, n.parent = Null, n.type \in {"User", "Group"}
      PROVE  RowOf(rows, n.id).path = n.path
  <2>1. PICK r \in raw : FromRow(n, r)
    BY <1>6, RawRows DEF GroupsAndUsers, raw
  <2>2. PICK x \in flat : MadeOf(raw, r, x)
    BY <1>2, <2>1
  <2>3. x.id = n.id /\ x.path = n.path
    BY <1>6, <2>1, <2>2 DEF MadeOf, FromRow
  <2>4. Row(x) \in rows /\ Row(x).id = n.id /\ Row(x).path = n.path
    BY <1>3, <1>4, <2>3
  <2>5. RowOf(rows, n.id) \in rows /\ RowOf(rows, n.id).id = n.id
    BY <2>4 DEF RowOf
  <2> QED BY <1>5, <2>4, <2>5
<1> QED BY <1>5, <1>6 DEF rows

-----------------------------------------------------------------------------
(* Migration.  The argument: a run that is about to publish holds the tables  *)
(* of its GitLab and their rows; every repository it has finished copying     *)
(* either is whole, with refs that the source really had, or has left an      *)
(* error in the report; and a run with an error in the report never publishes.*)

\* The phases by what a run holds in them.
Reading == {"preflight", "stage"}
Copying == {"cp", "refs", "check"}
Checked == {"verify", "report", "publish", "rename"}
Built == {"defaults", "copy"} \cup Copying \cup Checked
Staged == {"write"} \cup Built

IsCopy(r) == r = [k \in {"refs", "objects", "alternates", "head", "left"} |-> r[k]]
IsStaging(s) ==
    /\ s = [k \in {"db", "repos", "lfs", "defaults"} |-> s[k]]
    /\ s.repos = [p \in Projects |-> s.repos[p]]

\* GitLab's repositories, and what the history says of their refs.
SourceInv ==
    /\ site \in Sites
    /\ DOMAIN repos = DOMAIN site.repos /\ DOMAIN seen = DOMAIN site.repos
    /\ \A p \in DOMAIN site.repos : repos[p] # Null => repos[p].refs \in seen[p]

\* The tables and the staging directory of a run.
HoldsTables(m) ==
    /\ phase[m] \in Label
    /\ errors[m] \in BOOLEAN
    /\ todo[m] \subseteq Projects
    /\ phase[m] \in Reading \cup Staged => tables[m] = TablesOf[site] /\ TablesOf[site].ok
    /\ phase[m] \in Staged => IsStaging(staging[m])
    /\ phase[m] \in Built => /\ staging[m].db = WriteSqlite(TablesOf[site])
                            /\ WriteOk(TablesOf[site])
    /\ phase[m] \in {"defaults"} => site.mode = "reuse"

\* The copies: the one being made, and the others that are done.
Finished(m, p) == Promise!WholeRepo(staging[m].repos[p], seen[p])
HoldsCopies(m) ==
    /\ phase[m] \in Copying =>
          /\ todo[m] # {}
          /\ Current(m) \in Projects => IsCopy(staging[m].repos[Current(m)])
    /\ phase[m] = "check" /\ Current(m) \in Projects => sourceRefs[m] \in seen[Current(m)]
    /\ phase[m] \in {"copy"} \cup Copying /\ ~errors[m] =>
          \A p \in Projects \ todo[m] : (phase[m] \in Copying => p # Current(m)) => Finished(m, p)
    /\ phase[m] \in Checked /\ ~errors[m] /\ site.mode # "reuse" =>
          /\ \A p \in Projects : Finished(m, p)
          /\ \A p \in Projects : phase[m] # "verify" => staging[m].repos[p] # Null
          /\ Wanted.objects \subseteq staging[m].lfs
    /\ phase[m] \in {"publish", "rename"} => ~errors[m]

Arrays ==
    /\ phase = [m \in Migrator |-> phase[m]] /\ tables = [m \in Migrator |-> tables[m]]
    /\ errors = [m \in Migrator |-> errors[m]] /\ todo = [m \in Migrator |-> todo[m]]
    /\ staging = [m \in Migrator |-> staging[m]]
    /\ sourceRefs = [m \in Migrator |-> sourceRefs[m]]

MigrationInv ==
    /\ SourceInv
    /\ Arrays
    /\ dest.kind \in {"absent", "empty", "other", "published"}
    /\ \A m \in Migrator : HoldsTables(m) /\ HoldsCopies(m)

\* A run that changes its own state only.
Acts(m) ==
    /\ Arrays'
    /\ \A n \in Migrator \ {m} :
          /\ phase'[n] = phase[n] /\ tables'[n] = tables[n] /\ errors'[n] = errors[n]
          /\ todo'[n] = todo[n] /\ staging'[n] = staging[n] /\ sourceRefs'[n] = sourceRefs[n]

SeenGrows == \A p \in Projects : seen[p] \subseteq seen'[p]

LEMMA SameSite ==
  ASSUME UNCHANGED site
  PROVE  Projects' = Projects /\ Wanted' = Wanted
BY DEF Projects, Wanted

\* A run that does nothing keeps its part of the invariant.
LEMMA RestKeeps ==
  ASSUME NEW n \in Migrator, HoldsTables(n), HoldsCopies(n), UNCHANGED site, SeenGrows,
         phase'[n] = phase[n], tables'[n] = tables[n], errors'[n] = errors[n],
         todo'[n] = todo[n], staging'[n] = staging[n], sourceRefs'[n] = sourceRefs[n]
  PROVE  HoldsTables(n)' /\ HoldsCopies(n)'
<1>1. Projects' = Projects /\ Wanted' = Wanted
  BY SameSite
<1>2. HoldsTables(n)'
  BY <1>1 DEF HoldsTables, IsStaging
<1>3. Current(n)' = Current(n)
  BY DEF Current
<1>4. \A p \in Projects : Finished(n, p) => Finished(n, p)'
  BY DEF Finished, Promise!WholeRepo, SeenGrows
<1>5. HoldsCopies(n)'
  <2>1. phase'[n] \in Copying => /\ todo'[n] # {}
                                 /\ Current(n)' \in Projects' => IsCopy(staging'[n].repos[Current(n)'])
    BY <1>1, <1>3 DEF HoldsCopies
  <2>2. phase'[n] = "check" /\ Current(n)' \in Projects' => sourceRefs'[n] \in seen'[Current(n)']
    BY <1>1, <1>3 DEF HoldsCopies, SeenGrows
  <2>3. phase'[n] \in {"copy"} \cup Copying /\ ~errors'[n] =>
          \A p \in Projects' \ todo'[n] :
             (phase'[n] \in Copying => p # Current(n)') => Finished(n, p)'
    BY <1>1, <1>3, <1>4 DEF HoldsCopies
  <2>4. phase'[n] \in Checked /\ ~errors'[n] /\ site'.mode # "reuse" =>
          /\ \A p \in Projects' : Finished(n, p)'
          /\ \A p \in Projects' : phase'[n] # "verify" => staging'[n].repos[p] # Null
          /\ Wanted'.objects \subseteq staging'[n].lfs
    BY <1>1, <1>4 DEF HoldsCopies
  <2>5. phase'[n] \in {"publish", "rename"} => ~errors'[n]
    BY DEF HoldsCopies
  <2> QED BY <2>1, <2>2, <2>3, <2>4, <2>5 DEF HoldsCopies
<1> QED BY <1>2, <1>5

LEMMA ActKeeps ==
  ASSUME MigrationInv, NEW m \in Migrator, Acts(m), UNCHANGED <<site, repos, seen>>,
         dest'.kind \in {"absent", "empty", "other", "published"},
         HoldsTables(m)', HoldsCopies(m)'
  PROVE  MigrationInv'
<1>1. SeenGrows
  BY DEF SeenGrows
<1>2. \A n \in Migrator \ {m} : HoldsTables(n)' /\ HoldsCopies(n)'
  BY <1>1, RestKeeps DEF MigrationInv, Acts
<1>3. SourceInv'
  BY DEF MigrationInv, SourceInv
<1> QED BY <1>2, <1>3 DEF MigrationInv, Acts

\* A run that ends, or starts again.
Outsider == {"start"} \cup Ended

LEMMA OutsideKeeps ==
  ASSUME MigrationInv, NEW m \in Migrator, Acts(m), UNCHANGED <<site, repos, seen>>,
         dest'.kind \in {"absent", "empty", "other", "published"},
         phase'[m] \in Outsider, errors'[m] \in BOOLEAN, todo'[m] \subseteq Projects
  PROVE  MigrationInv'
<1>1. Projects' = Projects
  BY SameSite
<1>2. HoldsTables(m)'
  BY <1>1 DEF HoldsTables, Label, Outsider, Ended, Reading, Staged, Built, Copying, Checked
<1>3. HoldsCopies(m)'
  BY DEF HoldsCopies, Outsider, Ended, Copying, Checked
<1> QED BY <1>2, <1>3, ActKeeps

LEMMA BailKeeps ==
  ASSUME MigrationInv, NEW m \in Migrator, Bail(m), UNCHANGED <<site, repos, seen, dest>>
  PROVE  MigrationInv'
<1>1. Acts(m) /\ phase'[m] = "failed" /\ UNCHANGED <<errors, todo>>
  BY DEF Bail, Acts, MigrationInv, Arrays
<1> QED BY <1>1, OutsideKeeps DEF Outsider, Ended, MigrationInv, HoldsTables

\* What the tables hold.
LEMMA TablesHold ==
  ASSUME SourceInv
  PROVE  /\ TablesOf[site].projects = ReadProjects(site.gl)
         /\ TablesOf[site].lfs = ReadLfs(site.gl)
         /\ Ids(TablesOf[site].projects) = Projects
         /\ TablesOf[site].lfs.objects = Wanted.objects
<1>1. TablesOf[site] = ReadTables(site.gl)
  BY DEF SourceInv, TablesOf
<1>2. /\ ReadTables(site.gl).projects = ReadProjects(site.gl)
      /\ ReadTables(site.gl).lfs = ReadLfs(site.gl)
  BY DEF ReadTables
<1> QED BY <1>1, <1>2 DEF Projects, Wanted

\* What the database holds: a row of each project, and every LFS object.
LEMMA RowsHold ==
  ASSUME NEW t
  PROVE  Ids(WriteSqlite(t).projects) = Ids(t.projects) /\ WriteSqlite(t).objects = t.lfs.objects
<1>1. WriteSqlite(t).projects = ProjectRows(t) /\ WriteSqlite(t).objects = t.lfs.objects
  BY DEF WriteSqlite
<1> DEFINE parent(q) ==
      LET linked == {f[2] : f \in {x \in t.forks : x[1] = q.id}} \cap Ids(t.projects)
      IN IF linked = {} THEN Null ELSE CHOOSE l \in linked : TRUE
           row(q) == [id |-> q.id, ns |-> q.ns, disk |-> q.id, visibility |-> q.visibility,
                      archived |-> q.archived, parent |-> parent(q)]
<1>2. ProjectRows(t) = {row(q) : q \in t.projects}
  BY DEF ProjectRows
<1> HIDE DEF parent
<1>3. \A q : row(q).id = q.id
  OBVIOUS
<1> HIDE DEF row
<1>4. Ids(ProjectRows(t)) = Ids(t.projects)
  BY <1>2, <1>3 DEF Ids
<1> QED BY <1>1, <1>4

\* What setting one repository of a staging directory, or one part of a copy, does.
LEMMA SetRepo ==
  ASSUME NEW s, IsStaging(s), NEW p, NEW w
  PROVE  LET n == [s EXCEPT !.repos[p] = w]
         IN /\ IsStaging(n) /\ n.db = s.db /\ n.lfs = s.lfs
            /\ \A q \in Projects \ {p} : n.repos[q] = s.repos[q]
            /\ p \in Projects => n.repos[p] = w
BY DEF IsStaging

LEMMA CopiedIsCopy ==
  ASSUME NEW r, IsCopy(r), NEW source0, NEW part
  PROVE  IsCopy(Copied(r, source0, part))
<1>1. CASE part \in Branch
  <2>1. Copied(r, source0, part) = [r EXCEPT !.refs[part] = source0.refs[part], !.left = @ \ {part}]
    BY <1>1 DEF Copied
  <2> QED BY <2>1 DEF IsCopy
<1>2. CASE part \notin Branch
  <2>1. Copied(r, source0, part) =
           [r EXCEPT !.objects = source0.objects, !.alternates = source0.pool # {},
                     !.head = source0.head, !.left = @ \ {part}]
    BY <1>2 DEF Copied
  <2> QED BY <2>1 DEF IsCopy
<1> QED BY <1>1, <1>2

\* The phases before the copies: the tables, the preflight, the staging
\* directory and the database.
LEMMA ReadKeeps ==
  ASSUME MigrationInv, NEW m \in Migrator, Read(m)
  PROVE  MigrationInv'
<1>1. UNCHANGED <<site, repos, seen, dest>>
  BY DEF Read, Outside
<1>2. CASE Bail(m)
  BY <1>1, <1>2, BailKeeps
<1>3. CASE /\ TablesOf[site].ok
           /\ tables' = [tables EXCEPT ![m] = TablesOf[site]]
           /\ Report(m, TablesOf[site].errors) /\ Enter(m, "preflight")
           /\ UNCHANGED <<todo, staging, sourceRefs>>
  <2>1. Acts(m) /\ phase'[m] = "preflight" /\ tables'[m] = TablesOf[site] /\ UNCHANGED <<todo, staging>>
    BY <1>3 DEF Acts, MigrationInv, Arrays, Report, Enter
  <2>2. errors'[m] \in BOOLEAN
    <3>1. errors'[m] = (errors[m] \/ TablesOf[site].errors)
      BY <1>3 DEF Report, MigrationInv, Arrays
    <3> QED BY <3>1
  <2>3. HoldsTables(m)'
    BY <1>1, <1>3, <2>1, <2>2, SameSite
    DEF HoldsTables, MigrationInv, Label, Staged, Built, Copying, Checked
  <2>4. HoldsCopies(m)'
    BY <2>1 DEF HoldsCopies, Copying, Checked
  <2> QED BY <1>1, <2>1, <2>3, <2>4, ActKeeps DEF MigrationInv
<1> QED BY <1>2, <1>3 DEF Read

LEMMA PreflightKeeps ==
  ASSUME MigrationInv, NEW m \in Migrator, PreflightSources(m)
  PROVE  MigrationInv'
<1>1. UNCHANGED <<site, repos, seen, dest>> /\ phase[m] = "preflight"
  BY DEF PreflightSources, Outside
<1>2. CASE Bail(m)
  BY <1>1, <1>2, BailKeeps
<1>3. CASE /\ Enter(m, IF site.mode = "dry" THEN "done" ELSE "stage")
           /\ UNCHANGED <<tables, errors, todo, staging, sourceRefs>>
  <2>1. Acts(m) /\ phase'[m] \in {"done", "stage"}
    BY <1>3 DEF Acts, MigrationInv, Arrays, Enter
  <2>2. HoldsTables(m)'
    BY <1>1, <1>3, <2>1, SameSite
    DEF HoldsTables, MigrationInv, Label, Ended, Reading, Staged, Built, Copying, Checked
  <2>3. HoldsCopies(m)'
    BY <2>1 DEF HoldsCopies, Copying, Checked
  <2> QED BY <1>1, <2>1, <2>2, <2>3, ActKeeps DEF MigrationInv
<1> QED BY <1>2, <1>3 DEF PreflightSources

LEMMA NewStagingIsStaging == IsStaging(NewStaging)
BY DEF IsStaging, NewStaging

LEMMA StageKeeps ==
  ASSUME MigrationInv, NEW m \in Migrator, Stage(m)
  PROVE  MigrationInv'
<1>1. UNCHANGED <<site, repos, seen, dest>> /\ phase[m] = "stage"
  BY DEF Stage, Outside
<1>2. CASE Bail(m)
  BY <1>1, <1>2, BailKeeps
<1>3. CASE /\ SetStaging(m, NewStaging) /\ Enter(m, "write")
           /\ UNCHANGED <<tables, errors, todo, sourceRefs>>
  <2>1. Acts(m) /\ phase'[m] = "write" /\ staging'[m] = NewStaging
    BY <1>3 DEF Acts, MigrationInv, Arrays, Enter, SetStaging
  <2>2. IsStaging(staging[m])'
    BY <1>1, <2>1, NewStagingIsStaging, SameSite DEF IsStaging
  <2>3. HoldsTables(m)'
    BY <1>1, <1>3, <2>1, <2>2, SameSite
    DEF HoldsTables, MigrationInv, Label, Reading, Staged, Built, Copying, Checked
  <2>4. HoldsCopies(m)'
    BY <2>1 DEF HoldsCopies, Copying, Checked
  <2> QED BY <1>1, <2>1, <2>3, <2>4, ActKeeps DEF MigrationInv
<1> QED BY <1>2, <1>3 DEF Stage

LEMMA WriteKeeps ==
  ASSUME MigrationInv, NEW m \in Migrator, Write(m)
  PROVE  MigrationInv'
<1>1. UNCHANGED <<site, repos, seen, dest>> /\ phase[m] = "write"
  BY DEF Write, Outside
<1>2. CASE Bail(m)
  BY <1>1, <1>2, BailKeeps
<1>3. CASE /\ WriteOk(tables[m])
           /\ SetStaging(m, [staging[m] EXCEPT !.db = WriteSqlite(tables[m])])
           /\ todo' = [todo EXCEPT ![m] = Ids(tables[m].projects)]
           /\ Enter(m, IF site.mode = "reuse" THEN "defaults" ELSE "copy")
           /\ UNCHANGED <<tables, errors, sourceRefs>>
  <2>1. /\ Acts(m) /\ phase'[m] = IF site.mode = "reuse" THEN "defaults" ELSE "copy"
        /\ staging'[m] = [staging[m] EXCEPT !.db = WriteSqlite(tables[m])]
        /\ todo'[m] = Ids(tables[m].projects)
    BY <1>3 DEF Acts, MigrationInv, Arrays, Enter, SetStaging
  <2>2. tables[m] = TablesOf[site] /\ IsStaging(staging[m])
    BY <1>1 DEF MigrationInv, HoldsTables, Staged
  <2>3. todo'[m] = Projects
    BY <2>1, <2>2, TablesHold DEF MigrationInv
  <2>4. IsStaging(staging'[m]) /\ staging'[m].db = WriteSqlite(TablesOf[site])
    BY <2>1, <2>2 DEF IsStaging
  <2>5. HoldsTables(m)'
    BY <1>1, <1>3, <2>1, <2>2, <2>3, <2>4, SameSite
    DEF HoldsTables, MigrationInv, IsStaging, Label, Reading, Staged, Built, Copying, Checked
  <2>6. HoldsCopies(m)'
    BY <1>1, <2>1, <2>3, SameSite DEF HoldsCopies, Copying, Checked
  <2> QED BY <1>1, <2>1, <2>5, <2>6, ActKeeps DEF MigrationInv
<1> QED BY <1>2, <1>3 DEF Write

LEMMA DefaultsKeeps ==
  ASSUME MigrationInv, NEW m \in Migrator, PopulateSharedDefaultBranches(m)
  PROVE  MigrationInv'
<1>1. UNCHANGED <<site, repos, seen, dest>> /\ phase[m] = "defaults"
  BY DEF PopulateSharedDefaultBranches, Outside
<1>2. CASE Bail(m)
  BY <1>1, <1>2, BailKeeps
<1>3. CASE ~Bail(m)
  <2> DEFINE d == [p \in Projects |-> IF repos[p].head = "invalid" THEN Null ELSE repos[p].head]
             bad == \E p \in Projects : repos[p].head = "invalid"
  <2>1. /\ SetStaging(m, [staging[m] EXCEPT !.defaults = d])
        /\ Report(m, bad) /\ Enter(m, "report")
        /\ UNCHANGED <<tables, todo, sourceRefs>>
    BY <1>3 DEF PopulateSharedDefaultBranches
  <2> HIDE DEF d, bad
  <2>2. /\ Acts(m) /\ phase'[m] = "report" /\ errors'[m] = (errors[m] \/ bad)
        /\ staging'[m] = [staging[m] EXCEPT !.defaults = d]
    BY <2>1 DEF Acts, MigrationInv, Arrays, Enter, SetStaging, Report
  <2>3. /\ tables[m] = TablesOf[site] /\ IsStaging(staging[m]) /\ site.mode = "reuse"
        /\ staging[m].db = WriteSqlite(TablesOf[site])
    BY <1>1 DEF MigrationInv, HoldsTables, Staged, Built
  <2>4. IsStaging(staging'[m]) /\ staging'[m].db = WriteSqlite(TablesOf[site])
    <3> DEFINE s == staging[m]
    <3>1. IsStaging(s) /\ staging'[m] = [s EXCEPT !.defaults = d]
      BY <2>2, <2>3
    <3> HIDE DEF s
    <3>2. IsStaging(staging'[m])
      BY <3>1 DEF IsStaging
    <3>3. staging'[m].db = s.db
      BY <3>1 DEF IsStaging
    <3> QED BY <2>3, <3>2, <3>3 DEF s
  <2>5. HoldsTables(m)'
    BY <1>1, <2>1, <2>2, <2>3, <2>4, SameSite
    DEF HoldsTables, MigrationInv, IsStaging, Label, Reading, Staged, Built, Copying, Checked
  <2>6. HoldsCopies(m)'
    BY <1>1, <2>2, <2>3 DEF HoldsCopies, Copying, Checked
  <2> QED BY <1>1, <2>2, <2>5, <2>6, ActKeeps DEF MigrationInv
<1> QED BY <1>2, <1>3

\* The phases of the copies and after.
Later == {"copy"} \cup Copying \cup Checked

LEMMA LaterHolds ==
  ASSUME MigrationInv, NEW m \in Migrator, phase[m] \in Later
  PROVE  /\ tables[m] = TablesOf[site] /\ IsStaging(staging[m])
         /\ staging[m].db = WriteSqlite(TablesOf[site])
         /\ TablesOf[site].ok /\ WriteOk(TablesOf[site])
         /\ errors[m] \in BOOLEAN /\ todo[m] \subseteq Projects
BY DEF MigrationInv, HoldsTables, Later, Staged, Built

LEMMA LaterTables ==
  ASSUME MigrationInv, NEW m \in Migrator, UNCHANGED site, phase[m] \in Later, phase'[m] \in Later,
         tables'[m] = tables[m], errors'[m] \in BOOLEAN, todo'[m] \subseteq todo[m],
         IsStaging(staging'[m]), staging'[m].db = staging[m].db
  PROVE  HoldsTables(m)'
<1>1. Projects' = Projects /\ (IsStaging(staging[m]))'
  BY SameSite DEF IsStaging
<1>2. phase'[m] \in Label /\ phase'[m] # "defaults"
  BY DEF Label, Later, Copying, Checked
<1>3. /\ tables'[m] = TablesOf[site]' /\ staging'[m].db = WriteSqlite(TablesOf[site]')
      /\ TablesOf[site]'.ok /\ WriteOk(TablesOf[site]')
      /\ todo'[m] \subseteq Projects
  BY LaterHolds
<1> QED BY <1>1, <1>2, <1>3 DEF HoldsTables

\* CopyRepository: the next copy is begun, or its source is not found.
LEMMA CopyRepositoryKeeps ==
  ASSUME MigrationInv, NEW m \in Migrator, CopyRepository(m)
  PROVE  MigrationInv'
<1> DEFINE p == Current(m)
           s == staging[m]
<1>1. /\ UNCHANGED <<site, repos, seen, dest, tables, sourceRefs>> /\ phase[m] = "copy" /\ todo[m] # {}
  BY DEF CopyRepository, Outside
<1>2. tables[m] = TablesOf[site] /\ IsStaging(s) /\ errors[m] \in BOOLEAN /\ todo[m] \subseteq Projects
  BY <1>1, LaterHolds DEF Later
<1>3. ~errors[m] => \A q \in Projects \ todo[m] : Finished(m, q)
  BY <1>1 DEF MigrationInv, HoldsCopies, Copying
<1>4. Projects' = Projects /\ Wanted' = Wanted
  BY <1>1, SameSite
<1>5. CASE SetStaging(m, [s EXCEPT !.repos[p] = Blank]) /\ Enter(m, "cp") /\ UNCHANGED <<errors, todo>>
  <2>1. /\ Acts(m) /\ phase'[m] = "cp" /\ staging'[m] = [s EXCEPT !.repos[p] = Blank]
        /\ errors'[m] = errors[m] /\ todo'[m] = todo[m] /\ tables'[m] = tables[m]
    BY <1>1, <1>5 DEF Acts, MigrationInv, Arrays, Enter, SetStaging
  <2> HIDE DEF p, s
  <2>2. /\ IsStaging(staging'[m]) /\ staging'[m].db = s.db
        /\ \A q \in Projects \ {p} : staging'[m].repos[q] = s.repos[q]
        /\ p \in Projects => staging'[m].repos[p] = Blank
    BY <1>2, <2>1 DEF IsStaging
  <2>3. Current(m)' = p
    BY <2>1 DEF Current, p
  <2>4. HoldsTables(m)'
    BY <1>1, <1>2, <2>1, <2>2, LaterTables DEF Later, Copying, s
  <2>5. \A q \in Projects \ {p} : Finished(m, q) => Finished(m, q)'
    BY <1>1, <2>2 DEF Finished, Promise!WholeRepo, s
  <2>6. IsCopy(Blank)
    BY DEF IsCopy, Blank
  <2>7. p \in Projects => IsCopy(staging'[m].repos[p])
    BY <2>2, <2>6
  <2>8. HoldsCopies(m)'
    BY <1>1, <1>3, <1>4, <2>1, <2>3, <2>5, <2>7 DEF HoldsCopies, Copying, Checked, IsCopy
  <2> QED BY <1>1, <2>1, <2>4, <2>8, ActKeeps DEF MigrationInv
<1>6. CASE Report(m, TRUE) /\ todo' = [todo EXCEPT ![m] = @ \ {p}] /\ UNCHANGED <<phase, staging>>
  <2>1. /\ Acts(m) /\ phase'[m] = "copy" /\ staging'[m] = s
        /\ errors'[m] = TRUE /\ todo'[m] = todo[m] \ {p} /\ tables'[m] = tables[m]
    BY <1>1, <1>6 DEF Acts, MigrationInv, Arrays, Report
  <2>2. HoldsTables(m)'
    BY <1>1, <1>2, <2>1, LaterTables DEF Later
  <2>3. HoldsCopies(m)'
    BY <2>1 DEF HoldsCopies, Copying, Checked
  <2> QED BY <1>1, <2>1, <2>2, <2>3, ActKeeps DEF MigrationInv
<1> QED BY <1>5, <1>6 DEF CopyRepository

\* A step on the copy of the current repository; the other copies stay.
LEMMA CurrentCopy ==
  ASSUME MigrationInv, NEW m \in Migrator, phase[m] \in Copying
  PROVE  /\ todo[m] # {}
         /\ Current(m) \in Projects => IsCopy(staging[m].repos[Current(m)])
         /\ ~errors[m] => \A q \in Projects \ todo[m] : q # Current(m) => Finished(m, q)
BY DEF MigrationInv, HoldsCopies

LEMMA CopyingHolds ==
  ASSUME NEW m \in Migrator, phase'[m] \in Copying, todo'[m] # {},
         Current(m)' \in Projects' => IsCopy(staging'[m].repos[Current(m)']),
         phase'[m] = "check" /\ Current(m)' \in Projects' => sourceRefs'[m] \in seen'[Current(m)'],
         ~errors'[m] => \A q \in Projects' \ todo'[m] : q # Current(m)' => Finished(m, q)'
  PROVE  HoldsCopies(m)'
<1>1. phase'[m] \notin Checked /\ phase'[m] \notin {"publish", "rename"}
  BY DEF Copying, Checked
<1> QED BY <1>1 DEF HoldsCopies

LEMMA CopyDirKeeps ==
  ASSUME MigrationInv, NEW m \in Migrator, NEW part \in Branch \cup {"rest"}, CopyDir(m, part)
  PROVE  MigrationInv'
<1> DEFINE p == Current(m)
           s == staging[m]
           w == Copied(s.repos[p], repos[p], part)
<1>1. UNCHANGED <<site, repos, seen, dest>> /\ phase[m] = "cp"
  BY DEF CopyDir, Outside
<1>2. IsStaging(s) /\ errors[m] \in BOOLEAN
  BY <1>1, LaterHolds DEF Later, Copying
<1>3. CASE Bail(m)
  BY <1>1, <1>3, BailKeeps
<1>4. CASE /\ SetStaging(m, [s EXCEPT !.repos[p] = w])
           /\ Enter(m, IF s.repos[p].left = {part} THEN "refs" ELSE "cp")
           /\ UNCHANGED <<tables, errors, todo, sourceRefs>>
  <2>1. /\ Acts(m) /\ phase'[m] \in {"refs", "cp"} /\ staging'[m] = [s EXCEPT !.repos[p] = w]
        /\ errors'[m] = errors[m] /\ todo'[m] = todo[m] /\ tables'[m] = tables[m]
    BY <1>4 DEF Acts, MigrationInv, Arrays, Enter, SetStaging
  <2>2. p \in Projects => IsCopy(w)
    <3>1. p \in Projects => IsCopy(s.repos[p])
      BY <1>1, CurrentCopy DEF Copying
    <3> QED BY <3>1, CopiedIsCopy
  <2>3. /\ todo[m] # {}
        /\ ~errors[m] => \A q \in Projects \ todo[m] : q # p => Finished(m, q)
    BY <1>1, CurrentCopy DEF Copying
  <2>4. Current(m)' = p
    BY <2>1 DEF Current
  <2> HIDE DEF p, s, w
  <2>5. /\ IsStaging(staging'[m]) /\ staging'[m].db = s.db
        /\ \A q \in Projects \ {p} : staging'[m].repos[q] = s.repos[q]
        /\ p \in Projects => staging'[m].repos[p] = w
    BY <1>2, <2>1 DEF IsStaging
  <2>6. HoldsTables(m)'
    BY <1>1, <1>2, <2>1, <2>5, LaterTables DEF Later, Copying, s
  <2>7. \A q \in Projects \ {p} : Finished(m, q) => Finished(m, q)'
    BY <1>1, <2>5 DEF Finished, Promise!WholeRepo, s
  <2>8. p \in Projects => IsCopy(staging'[m].repos[p])
    BY <2>2, <2>5
  <2>9. Projects' = Projects
    BY <1>1, SameSite
  <2>10. HoldsCopies(m)'
    <3>1. phase'[m] \in Copying /\ phase'[m] # "check"
      BY <2>1 DEF Copying
    <3>2. ~errors'[m] => \A q \in Projects' \ todo'[m] : q # Current(m)' => Finished(m, q)'
      BY <2>1, <2>3, <2>4, <2>7, <2>9
    <3>3. todo'[m] # {} /\ (Current(m)' \in Projects' => IsCopy(staging'[m].repos[Current(m)']))
      BY <2>1, <2>3, <2>4, <2>8, <2>9
    <3> QED BY <3>1, <3>2, <3>3, CopyingHolds
  <2> QED BY <1>1, <2>1, <2>6, <2>10, ActKeeps DEF MigrationInv
<1> QED BY <1>3, <1>4 DEF CopyDir

\* The refs that are read are refs that the source has.
LEMMA ReadSourceRefsKeeps ==
  ASSUME MigrationInv, NEW m \in Migrator, ReadSourceRefs(m)
  PROVE  MigrationInv'
<1> DEFINE p == Current(m)
<1>1. UNCHANGED <<site, repos, seen, dest>> /\ phase[m] = "refs"
  BY DEF ReadSourceRefs, Outside
<1>2. CASE Bail(m)
  BY <1>1, <1>2, BailKeeps
<1>3. CASE /\ repos[p] # Null /\ sourceRefs' = [sourceRefs EXCEPT ![m] = repos[p].refs]
           /\ Enter(m, "check") /\ UNCHANGED <<tables, errors, todo, staging>>
  <2>1. /\ Acts(m) /\ phase'[m] = "check" /\ sourceRefs'[m] = repos[p].refs
        /\ UNCHANGED <<tables, errors, todo, staging>>
    BY <1>3 DEF Acts, MigrationInv, Arrays, Enter
  <2>2. p \in Projects => sourceRefs'[m] \in seen[p]
    <3>1. Projects \subseteq DOMAIN site.repos
      BY SiteAssumption DEF MigrationInv, SourceInv, Projects
    <3> QED BY <1>3, <2>1, <3>1 DEF MigrationInv, SourceInv
  <2>3. HoldsTables(m)'
    BY <1>1, <2>1, LaterHolds, LaterTables DEF Later, Copying
  <2>4. /\ todo[m] # {}
        /\ ~errors[m] => \A q \in Projects \ todo[m] : q # p => Finished(m, q)
        /\ p \in Projects => IsCopy(staging[m].repos[p])
    BY <1>1, CurrentCopy DEF Copying
  <2>5. Current(m)' = p /\ Projects' = Projects
    BY <1>1, <2>1, SameSite DEF Current
  <2>6. \A q \in Projects : Finished(m, q) => Finished(m, q)'
    BY <1>1, <2>1 DEF Finished, Promise!WholeRepo
  <2> HIDE DEF p
  <2>7. HoldsCopies(m)'
    <3>1. phase'[m] \in Copying
      BY <2>1 DEF Copying
    <3>2. ~errors'[m] => \A q \in Projects' \ todo'[m] : q # Current(m)' => Finished(m, q)'
      BY <2>1, <2>4, <2>5, <2>6
    <3>3. /\ todo'[m] # {}
          /\ Current(m)' \in Projects' => IsCopy(staging'[m].repos[Current(m)'])
          /\ Current(m)' \in Projects' => sourceRefs'[m] \in seen'[Current(m)']
      BY <1>1, <2>1, <2>2, <2>4, <2>5
    <3> QED BY <3>1, <3>2, <3>3, CopyingHolds
  <2> QED BY <1>1, <2>1, <2>3, <2>7, ActKeeps DEF MigrationInv
<1> QED BY <1>2, <1>3 DEF ReadSourceRefs

\* A copy that is checked is whole, or its run reports an error.
LEMMA CheckCopyKeeps ==
  ASSUME MigrationInv, NEW m \in Migrator, CheckCopy(m)
  PROVE  MigrationInv'
<1> DEFINE p == Current(m)
           s == staging[m]
           copy == s.repos[p]
           whole == [copy EXCEPT !.objects = Reachable(p, copy), !.alternates = FALSE]
           bad == \/ sourceRefs[m] # copy.refs
                  \/ ~Connected(whole, whole.objects)
                  \/ site.repos[p].auxDamaged
<1>1. UNCHANGED <<site, repos, seen, dest>> /\ phase[m] = "check"
  BY DEF CheckCopy, Outside
<1>2. CASE Bail(m)
  BY <1>1, <1>2, BailKeeps
<1>3. CASE /\ SetStaging(m, [s EXCEPT !.repos[p] = whole]) /\ Report(m, bad)
           /\ todo' = [todo EXCEPT ![m] = @ \ {p}]
           /\ sourceRefs' = [sourceRefs EXCEPT ![m] = Null]
           /\ Enter(m, "copy") /\ UNCHANGED tables
  <2>1. /\ Acts(m) /\ phase'[m] = "copy" /\ staging'[m] = [s EXCEPT !.repos[p] = whole]
        /\ todo'[m] = todo[m] \ {p} /\ tables'[m] = tables[m] /\ errors'[m] = (errors[m] \/ bad)
    <3> HIDE DEF p, s, copy, whole, bad
    <3>1. /\ staging' = [staging EXCEPT ![m] = [s EXCEPT !.repos[p] = whole]]
          /\ errors' = [errors EXCEPT ![m] = errors[m] \/ bad]
          /\ todo' = [todo EXCEPT ![m] = todo[m] \ {p}]
          /\ sourceRefs' = [sourceRefs EXCEPT ![m] = Null]
          /\ phase' = [phase EXCEPT ![m] = "copy"] /\ tables' = tables
      BY <1>3 DEF Enter, SetStaging, Report
    <3> DEFINE n == [s EXCEPT !.repos[p] = whole]
    <3> HIDE DEF n
    <3>2. staging' = [staging EXCEPT ![m] = n]
      BY <3>1 DEF n
    <3>3. Acts(m)
      BY <3>1, <3>2 DEF Acts, MigrationInv, Arrays
    <3>4. staging'[m] = n /\ todo'[m] = todo[m] \ {p} /\ errors'[m] = (errors[m] \/ bad)
      BY <3>1, <3>2 DEF MigrationInv, Arrays
    <3> QED BY <3>1, <3>3, <3>4 DEF n, MigrationInv, Arrays
  <2>2. errors'[m] = (errors[m] \/ bad)
    BY <2>1
  <2>3. IsStaging(s) /\ errors[m] \in BOOLEAN
    BY <1>1, LaterHolds DEF Later, Copying
  <2>4. /\ ~errors[m] => \A q \in Projects \ todo[m] : q # p => Finished(m, q)
        /\ p \in Projects => IsCopy(copy)
        /\ p \in Projects => sourceRefs[m] \in seen[p]
    BY <1>1, CurrentCopy DEF Copying, MigrationInv, HoldsCopies
  <2>5. p \in Projects /\ ~bad => Promise!WholeRepo(whole, seen[p])
    <3>1. SUFFICES ASSUME p \in Projects, ~bad PROVE Promise!WholeRepo(whole, seen[p])
      OBVIOUS
    <3> HIDE DEF copy
    <3>2. whole.refs = copy.refs /\ whole.alternates = FALSE
      BY <2>4, <3>1 DEF IsCopy
    <3> HIDE DEF whole
    <3>3. whole.refs \in seen[p] /\ Connected(whole, whole.objects)
      BY <2>4, <3>1, <3>2
    <3> QED BY <3>2, <3>3 DEF Promise!WholeRepo, Connected
  <2> HIDE DEF p, s, copy, whole, bad
  <2>6. /\ IsStaging(staging'[m]) /\ staging'[m].db = s.db
        /\ \A q \in Projects \ {p} : staging'[m].repos[q] = s.repos[q]
        /\ p \in Projects => staging'[m].repos[p] = whole
    BY <2>1, <2>3 DEF IsStaging
  <2>7. HoldsTables(m)'
    BY <1>1, <2>1, <2>2, <2>3, <2>6, LaterTables DEF Later, Copying, s
  <2>8. ASSUME NEW q \in Projects \ todo'[m], ~errors'[m] PROVE Finished(m, q)'
    <3>1. CASE q = p
      BY <1>1, <2>2, <2>5, <2>6, <2>8, <3>1 DEF Finished, Promise!WholeRepo
    <3>2. CASE q # p
      BY <1>1, <2>1, <2>2, <2>4, <2>6, <2>8, <3>2 DEF Finished, Promise!WholeRepo, s
    <3> QED BY <3>1, <3>2
  <2>9. Projects' = Projects
    BY <1>1, SameSite
  <2>10. HoldsCopies(m)'
    BY <2>1, <2>8, <2>9 DEF HoldsCopies, Copying, Checked
  <2> QED BY <1>1, <2>1, <2>7, <2>10, ActKeeps DEF MigrationInv
<1> QED BY <1>2, <1>3 DEF CheckCopy

\* The phases after the copies: they hold what HoldsCopies says of Checked.
LEMMA CheckedHolds ==
  ASSUME NEW m \in Migrator, phase'[m] \in Checked,
         ~errors'[m] /\ site'.mode # "reuse" =>
           /\ \A q \in Projects' : Finished(m, q)'
           /\ \A q \in Projects' : phase'[m] # "verify" => staging'[m].repos[q] # Null
           /\ Wanted'.objects \subseteq staging'[m].lfs,
         phase'[m] \in {"publish", "rename"} => ~errors'[m]
  PROVE  HoldsCopies(m)'
<1>1. phase'[m] \notin Copying /\ phase'[m] \notin {"copy", "check"}
  BY DEF Copying, Checked
<1> QED BY <1>1 DEF HoldsCopies

\* Every LFS object is copied, or an error is reported.
LEMMA CopyLfsKeeps ==
  ASSUME MigrationInv, NEW m \in Migrator, NEW spoilt \in SUBSET DOMAIN site.lfs,
         CopyLfsObjects(m, spoilt)
  PROVE  MigrationInv'
<1> DEFINE s == staging[m]
           wanted == tables[m].lfs.objects
           good == {o \in wanted : SizeMatches(o) /\ HashMatches(o)}
           bad == good # wanted \/ spoilt # {}
<1>1. /\ UNCHANGED <<site, repos, seen, dest, tables, todo, sourceRefs>>
      /\ phase[m] = "copy" /\ todo[m] = {}
      /\ SetStaging(m, [s EXCEPT !.lfs = good \ spoilt]) /\ Report(m, bad) /\ Enter(m, "verify")
  BY DEF CopyLfsObjects
<1>2. /\ tables[m] = TablesOf[site] /\ IsStaging(s) /\ errors[m] \in BOOLEAN
  BY <1>1, LaterHolds DEF Later
<1>3. ~bad => Wanted.objects \subseteq good \ spoilt
  BY <1>2, TablesHold DEF MigrationInv
<1> HIDE DEF s, wanted, good, bad
<1>4. /\ Acts(m) /\ phase'[m] = "verify" /\ staging'[m] = [s EXCEPT !.lfs = good \ spoilt]
      /\ errors'[m] = (errors[m] \/ bad)
  BY <1>1 DEF Acts, MigrationInv, Arrays, Enter, SetStaging, Report
<1>5. /\ IsStaging(staging'[m]) /\ staging'[m].db = s.db
      /\ staging'[m].repos = s.repos /\ staging'[m].lfs = good \ spoilt
  BY <1>2, <1>4 DEF IsStaging
<1>6. HoldsTables(m)'
  BY <1>1, <1>2, <1>4, <1>5, LaterTables DEF Later, Checked, s
<1>7. ~errors[m] => \A q \in Projects : Finished(m, q)
  BY <1>1 DEF MigrationInv, HoldsCopies, Copying
<1>8. \A q \in Projects : Finished(m, q) => Finished(m, q)'
  BY <1>1, <1>5 DEF Finished, Promise!WholeRepo, s
<1>9. HoldsCopies(m)'
  <2>1. Projects' = Projects /\ Wanted' = Wanted
    BY <1>1, SameSite
  <2> QED BY <1>2, <1>3, <1>4, <1>5, <1>7, <1>8, <2>1, CheckedHolds DEF Checked
<1> QED BY <1>1, <1>4, <1>6, <1>9, ActKeeps DEF MigrationInv

\* A repository that has no copy is an error.
LEMMA VerifyKeeps ==
  ASSUME MigrationInv, NEW m \in Migrator, Verify(m)
  PROVE  MigrationInv'
<1> DEFINE s == staging[m]
           bad == \E p \in Ids(s.db.projects) : s.repos[p] = Null
           d == [p \in Projects |-> IF s.repos[p] = Null THEN Null ELSE s.repos[p].head]
<1>1. /\ UNCHANGED <<site, repos, seen, dest, tables, todo, sourceRefs>> /\ phase[m] = "verify"
      /\ SetStaging(m, [s EXCEPT !.defaults = d]) /\ Report(m, bad) /\ Enter(m, "report")
  BY DEF Verify, Outside
<1>2. /\ IsStaging(s) /\ errors[m] \in BOOLEAN /\ s.db = WriteSqlite(TablesOf[site])
  BY <1>1, LaterHolds DEF Later, Checked
<1>3. ~bad => \A p \in Projects : s.repos[p] # Null
  BY <1>2, TablesHold, RowsHold DEF MigrationInv
<1> HIDE DEF s, bad, d
<1>4. /\ Acts(m) /\ phase'[m] = "report" /\ staging'[m] = [s EXCEPT !.defaults = d]
      /\ errors'[m] = (errors[m] \/ bad)
  BY <1>1 DEF Acts, MigrationInv, Arrays, Enter, SetStaging, Report
<1>5. /\ IsStaging(staging'[m]) /\ staging'[m].db = s.db
      /\ staging'[m].repos = s.repos /\ staging'[m].lfs = s.lfs
  BY <1>2, <1>4 DEF IsStaging
<1>6. HoldsTables(m)'
  BY <1>1, <1>2, <1>4, <1>5, LaterTables DEF Later, Checked, s
<1>7. ~errors[m] /\ site.mode # "reuse" =>
         (\A q \in Projects : Finished(m, q)) /\ Wanted.objects \subseteq s.lfs
  BY <1>1 DEF MigrationInv, HoldsCopies, Checked, s
<1>8. \A q \in Projects : Finished(m, q) => Finished(m, q)'
  BY <1>1, <1>5 DEF Finished, Promise!WholeRepo, s
<1>9. HoldsCopies(m)'
  <2>1. Projects' = Projects /\ Wanted' = Wanted
    BY <1>1, SameSite
  <2> QED BY <1>1, <1>2, <1>3, <1>4, <1>5, <1>7, <1>8, <2>1, CheckedHolds DEF Checked
<1> QED BY <1>1, <1>4, <1>6, <1>9, ActKeeps DEF MigrationInv

\* What a run holds from its report to its rename.
LEMMA ReportHolds ==
  ASSUME MigrationInv, NEW m \in Migrator, phase[m] \in {"report", "publish", "rename"}
  PROVE  /\ ~errors[m] /\ site.mode # "reuse" =>
              /\ \A p \in Projects : Finished(m, p) /\ staging[m].repos[p] # Null
              /\ Wanted.objects \subseteq staging[m].lfs
         /\ phase[m] \in {"publish", "rename"} => ~errors[m]
BY DEF MigrationInv, HoldsCopies, Checked

\* The report, and the removal of an empty destination: the run goes on as it is.
LEMMA GoesOnKeeps ==
  ASSUME MigrationInv, NEW m \in Migrator, phase[m] \in {"report", "publish"}, ~errors[m],
         NEW l \in {"publish", "rename"}, Enter(m, l), UNCHANGED <<site, repos, seen>>,
         dest'.kind \in {"absent", "empty", "other", "published"},
         UNCHANGED <<tables, errors, todo, staging, sourceRefs>>
  PROVE  MigrationInv'
<1>1. Acts(m) /\ phase'[m] = l
  BY DEF Acts, MigrationInv, Arrays, Enter
<1>2. HoldsTables(m)'
  BY <1>1, LaterHolds, LaterTables DEF Later, Checked
<1>3. \A q \in Projects : Finished(m, q) => Finished(m, q)'
  BY DEF Finished, Promise!WholeRepo
<1>4. HoldsCopies(m)'
  <2>1. Projects' = Projects /\ Wanted' = Wanted
    BY SameSite
  <2> QED BY <1>1, <1>3, <2>1, ReportHolds, CheckedHolds DEF Checked
<1> QED BY <1>1, <1>2, <1>4, ActKeeps

LEMMA WriteReportKeeps ==
  ASSUME MigrationInv, NEW m \in Migrator, WriteReport(m)
  PROVE  MigrationInv'
<1>1. UNCHANGED <<site, repos, seen, dest>> /\ phase[m] = "report"
  BY DEF WriteReport, Outside
<1>2. CASE Bail(m)
  BY <1>1, <1>2, BailKeeps
<1>3. CASE ~errors[m] /\ Enter(m, "publish") /\ UNCHANGED <<tables, errors, todo, staging, sourceRefs>>
  BY <1>1, <1>3, GoesOnKeeps DEF MigrationInv
<1> QED BY <1>2, <1>3 DEF WriteReport

LEMMA KindOfAbsent == Absent.kind = "absent" /\ Empty.kind = "empty" /\ Other.kind = "other"
BY DEF Absent, Empty, Other, Promise!Absent, Promise!Empty, Promise!Other

LEMMA RemoveKeeps ==
  ASSUME MigrationInv, NEW m \in Migrator, RemoveEmptyDestination(m)
  PROVE  MigrationInv'
<1>1. UNCHANGED <<site, repos, seen>> /\ phase[m] = "publish"
  BY DEF RemoveEmptyDestination, Outside
<1>2. CASE Bail(m) /\ UNCHANGED dest
  BY <1>1, <1>2, BailKeeps
<1>3. CASE dest' = Absent /\ Enter(m, "rename") /\ UNCHANGED <<tables, errors, todo, staging, sourceRefs>>
  <2>1. ~errors[m]
    BY <1>1, ReportHolds
  <2> QED BY <1>1, <1>3, <2>1, GoesOnKeeps, KindOfAbsent
<1> QED BY <1>2, <1>3 DEF RemoveEmptyDestination

LEMMA RenameKeeps ==
  ASSUME MigrationInv, NEW m \in Migrator, Rename(m)
  PROVE  MigrationInv'
<1>1. UNCHANGED <<site, repos, seen>> /\ phase[m] = "rename"
  BY DEF Rename, Outside
<1>2. CASE Bail(m) /\ UNCHANGED dest
  BY <1>1, <1>2, BailKeeps
<1>3. CASE /\ dest' = Published(staging[m]) /\ SetStaging(m, Null) /\ Enter(m, "done")
           /\ UNCHANGED <<tables, errors, todo, sourceRefs>>
  <2>1. Acts(m) /\ phase'[m] = "done"
    BY <1>3 DEF Acts, MigrationInv, Arrays, Enter, SetStaging
  <2>2. dest'.kind = "published"
    BY <1>3 DEF Published
  <2>3. errors'[m] \in BOOLEAN /\ todo'[m] \subseteq Projects
    BY <1>1, <1>3, LaterHolds DEF Later, Checked
  <2> QED BY <1>1, <2>1, <2>2, <2>3, OutsideKeeps DEF Outsider, Ended
<1> QED BY <1>2, <1>3 DEF Rename

\* Around the run.
LEMMA AroundKeeps ==
  ASSUME MigrationInv, NEW m \in Migrator, IoError(m) \/ Kill(m) \/ Rerun(m)
  PROVE  MigrationInv'
<1>1. UNCHANGED <<site, repos, seen, dest>>
  BY DEF IoError, Kill, Rerun, Outside
<1>2. errors[m] \in BOOLEAN /\ todo[m] \subseteq Projects
  BY DEF MigrationInv, HoldsTables
<1>3. CASE IoError(m)
  BY <1>1, <1>3, BailKeeps DEF IoError
<1>4. CASE Kill(m)
  <2>1. Acts(m) /\ phase'[m] = "killed" /\ UNCHANGED <<errors, todo>>
    BY <1>4 DEF Kill, Acts, MigrationInv, Arrays, Enter
  <2> QED BY <1>1, <1>2, <2>1, OutsideKeeps DEF Outsider, Ended, MigrationInv
<1>5. CASE Rerun(m)
  <2>1. Acts(m) /\ phase'[m] = "start" /\ errors'[m] = FALSE /\ todo'[m] = {}
    BY <1>5 DEF Rerun, Acts, MigrationInv, Arrays, Enter
  <2> QED BY <1>1, <2>1, OutsideKeeps DEF Outsider, MigrationInv
<1> QED BY <1>3, <1>4, <1>5

\* GitLab goes on, or the operator does: every run stays as it is.
LEMMA WorldKeeps ==
  ASSUME MigrationInv, UNCHANGED <<site, run>>, SourceInv', SeenGrows,
         dest'.kind \in {"absent", "empty", "other", "published"}
  PROVE  MigrationInv'
<1>1. \A m \in Migrator : HoldsTables(m)' /\ HoldsCopies(m)'
  BY RestKeeps DEF MigrationInv, run
<1> QED BY <1>1 DEF MigrationInv, Arrays, run

\* A push makes new refs, and the history notes them.
LEMMA PushGitlabKeeps ==
  ASSUME MigrationInv, NEW p \in DOMAIN repos, NEW b \in Branch, NEW v, PushGitlab(p, b, v)
  PROVE  MigrationInv'
<1>1. /\ UNCHANGED <<site, dest, run>>
      /\ repos' = [repos EXCEPT ![p].refs[b] = v, ![p].objects = @ \cup ({v} \ {0})]
      /\ seen' = [seen EXCEPT ![p] = @ \cup {repos'[p].refs}]
  BY DEF PushGitlab
<1>2. /\ DOMAIN repos = DOMAIN site.repos /\ DOMAIN seen = DOMAIN site.repos
      /\ \A q \in DOMAIN site.repos : repos[q] # Null => repos[q].refs \in seen[q]
      /\ p \in DOMAIN site.repos /\ Projects \subseteq DOMAIN site.repos
  BY SiteAssumption DEF MigrationInv, SourceInv, Projects
<1>3. /\ DOMAIN repos' = DOMAIN site.repos
      /\ \A q \in DOMAIN site.repos \ {p} : repos'[q] = repos[q]
  BY <1>1, <1>2
<1> DEFINE r == repos'[p].refs
<1>4. seen' = [seen EXCEPT ![p] = @ \cup {r}]
  BY <1>1
<1> HIDE DEF r
<1>5. /\ DOMAIN seen' = DOMAIN site.repos /\ r \in seen'[p]
      /\ \A q \in DOMAIN site.repos : seen[q] \subseteq seen'[q]
  BY <1>2, <1>4
<1>6. SourceInv'
  BY <1>1, <1>2, <1>3, <1>5 DEF r, SourceInv, MigrationInv
<1>7. SeenGrows
  BY <1>2, <1>5 DEF SeenGrows
<1> QED BY <1>1, <1>6, <1>7, WorldKeeps DEF MigrationInv

LEMMA RemoveRepositoryKeeps ==
  ASSUME MigrationInv, NEW p \in DOMAIN repos, RemoveRepository(p)
  PROVE  MigrationInv'
<1>1. UNCHANGED <<site, dest, run, seen>> /\ repos' = [repos EXCEPT ![p] = Null]
  BY DEF RemoveRepository
<1>2. SourceInv'
  BY <1>1 DEF SourceInv, MigrationInv
<1>3. SeenGrows
  BY <1>1 DEF SeenGrows
<1> QED BY <1>1, <1>2, <1>3, WorldKeeps DEF MigrationInv

LEMMA OccupyKeeps ==
  ASSUME MigrationInv, NEW d, Occupy(d)
  PROVE  MigrationInv'
<1>1. UNCHANGED <<site, repos, seen, run>> /\ dest' = d /\ d \in {Empty, Other}
  BY DEF Occupy, Outside
<1>2. SourceInv' /\ SeenGrows
  BY <1>1 DEF SourceInv, MigrationInv, SeenGrows
<1> QED BY <1>1, <1>2, WorldKeeps, KindOfAbsent

LEMMA MigrationStarts == MigrationInit => MigrationInv
<1> SUFFICES ASSUME MigrationInit PROVE MigrationInv
  OBVIOUS
<1>1. site \in Sites /\ repos = site.repos /\ dest = site.start
  BY DEF MigrationInit
<1>2. dest.kind \in {"absent", "empty", "other", "published"}
  BY <1>1, SiteAssumption, KindOfAbsent
<1>3. ASSUME NEW m \in Migrator PROVE HoldsTables(m) /\ HoldsCopies(m)
  <2>1. phase[m] \in {"start", "done"} /\ errors[m] = FALSE /\ todo[m] = {}
    BY DEF MigrationInit
  <2> QED BY <2>1 DEF HoldsTables, HoldsCopies, Label, Ended, Reading, Staged, Built, Copying, Checked
<1>4. Arrays
  BY DEF MigrationInit, Arrays
<1>5. SourceInv
  <2>1. seen = [p \in DOMAIN repos |-> IF repos[p] = Null THEN {} ELSE {repos[p].refs}]
    BY DEF MigrationInit
  <2> QED BY <1>1, <2>1 DEF SourceInv
<1> QED BY <1>2, <1>3, <1>4, <1>5 DEF MigrationInv

LEMMA MigrationStepKeeps == MigrationInv /\ [MigrationNext]_migrationVars => MigrationInv'
<1> SUFFICES ASSUME MigrationInv, [MigrationNext]_migrationVars PROVE MigrationInv'
  OBVIOUS
<1>1. ASSUME NEW m \in Migrator, RunStep(m) PROVE MigrationInv'
  <2>1. CASE Read(m) \/ PreflightSources(m) \/ Stage(m) \/ Write(m) \/ PopulateSharedDefaultBranches(m)
    BY <2>1, ReadKeeps, PreflightKeeps, StageKeeps, WriteKeeps, DefaultsKeeps
  <2>2. CASE CopyRepository(m) \/ ReadSourceRefs(m) \/ CheckCopy(m)
    BY <2>2, CopyRepositoryKeeps, ReadSourceRefsKeeps, CheckCopyKeeps
  <2>3. ASSUME NEW part \in Branch \cup {"rest"}, CopyDir(m, part) PROVE MigrationInv'
    BY <2>3, CopyDirKeeps
  <2>4. ASSUME NEW spoilt \in SUBSET DOMAIN site.lfs, CopyLfsObjects(m, spoilt) PROVE MigrationInv'
    BY <2>4, CopyLfsKeeps
  <2>5. CASE Verify(m) \/ WriteReport(m) \/ RemoveEmptyDestination(m) \/ Rename(m)
    BY <2>5, VerifyKeeps, WriteReportKeeps, RemoveKeeps, RenameKeeps
  <2> QED BY <1>1, <2>1, <2>2, <2>3, <2>4, <2>5 DEF RunStep
<1>2. ASSUME NEW m \in Migrator, IoError(m) \/ Kill(m) \/ Rerun(m) PROVE MigrationInv'
  BY <1>2, AroundKeeps
<1>3. ASSUME NEW p \in DOMAIN repos, NEW b \in Branch, NEW v \in 0 .. MaxPushes + 1, PushGitlab(p, b, v)
      PROVE  MigrationInv'
  BY <1>3, PushGitlabKeeps
<1>4. ASSUME NEW p \in DOMAIN repos, RemoveRepository(p) PROVE MigrationInv'
  BY <1>4, RemoveRepositoryKeeps
<1>5. ASSUME NEW d \in {Empty, Other}, Occupy(d) PROVE MigrationInv'
  BY <1>5, OccupyKeeps
<1>6. CASE UNCHANGED migrationVars
  <2>1. UNCHANGED <<site, repos, seen, dest, run>>
    BY <1>6 DEF migrationVars
  <2>2. SourceInv' /\ SeenGrows
    BY <2>1 DEF SourceInv, MigrationInv, SeenGrows
  <2> QED BY <2>1, <2>2, WorldKeeps DEF MigrationInv
<1> QED BY <1>1, <1>2, <1>3, <1>4, <1>5, <1>6 DEF MigrationNext

THEOREM MigrationInvariant == MigrationSpec => []MigrationInv
BY MigrationStarts, MigrationStepKeeps, PTL DEF MigrationSpec

\* Null is neither a staging directory nor a database.
NullIsNoRecord ==
    /\ \A s : s = [k \in {"db", "repos", "lfs", "defaults"} |-> s[k]] => s # Null
    /\ \A t : WriteSqlite(t) # Null

\* The type invariant: from its staging step to its end a run has a staging
\* directory, with a database in it once that is written, and a copy under way
\* is of a project that is still to be done.
THEOREM MigrationTyped ==
  ASSUME NullIsNoRecord
  PROVE  MigrationSpec => []MigrationTypeOK
<1>1. MigrationInv => MigrationTypeOK
  <2> SUFFICES ASSUME MigrationInv PROVE MigrationTypeOK
    OBVIOUS
  <2>1. phase \in [Migrator -> Label] /\ errors \in [Migrator -> BOOLEAN]
    <3>1. \A m \in Migrator : phase[m] \in Label /\ errors[m] \in BOOLEAN
      BY DEF MigrationInv, HoldsTables
    <3> QED BY <3>1 DEF MigrationInv, Arrays
  <2>2. /\ \A s : IsStaging(s) => s # Null
        /\ \A t : WriteSqlite(t) # Null
    BY DEF IsStaging, NullIsNoRecord
  <2>3. ASSUME NEW m \in Migrator
        PROVE  /\ phase[m] \notin {"start", "preflight", "stage", "failed", "killed", "done"} =>
                     staging[m] # Null /\ (phase[m] # "write" => staging[m].db # Null)
               /\ todo[m] \subseteq Projects
               /\ phase[m] \in {"cp", "refs", "check"} => todo[m] # {}
    <3>1. todo[m] \subseteq Projects /\ (phase[m] \in {"cp", "refs", "check"} => todo[m] # {})
      BY DEF MigrationInv, HoldsTables, HoldsCopies, Copying
    <3>2. CASE phase[m] \notin {"start", "preflight", "stage", "failed", "killed", "done"}
      <4>1. phase[m] \in Staged /\ (phase[m] # "write" => phase[m] \in Built)
        BY <3>2 DEF MigrationInv, HoldsTables, Label, Ended, Staged, Built, Copying, Checked
      <4> QED BY <2>2, <3>1, <4>1 DEF MigrationInv, HoldsTables
    <3> QED BY <3>1, <3>2
  <2> QED BY <2>1, <2>3 DEF MigrationTypeOK, MigrationInv
<1> QED BY <1>1, MigrationInvariant, PTL

\* What a rename puts in place is a whole copy.
LEMMA PublishedIsWhole ==
  ASSUME MigrationInv, NEW m \in Migrator, phase[m] = "rename"
  PROVE  Promise!Whole(Published(staging[m]))
<1> DEFINE d == Published(staging[m])
<1>1. /\ d.kind = "published" /\ d.mode = site.mode /\ d.db = staging[m].db
      /\ d.repos = staging[m].repos /\ d.lfs = staging[m].lfs
  BY DEF Published
<1> HIDE DEF d
<1>2. staging[m].db = WriteSqlite(TablesOf[site])
  BY LaterHolds DEF Later, Checked
<1>3. Ids(d.db.projects) = Projects /\ d.db.objects = Wanted.objects
  BY <1>1, <1>2, TablesHold, RowsHold DEF MigrationInv
<1>4. Wanted.projects = Projects
  BY DEF Wanted
<1>5. d.mode = "copy" =>
        /\ \A p \in Projects : d.repos[p] # Null /\ Promise!WholeRepo(d.repos[p], seen[p])
        /\ Wanted.objects \subseteq d.lfs
  BY <1>1, ReportHolds DEF Finished
<1> QED BY <1>1, <1>3, <1>4, <1>5 DEF d, Promise!Whole, Ids

\* What a step does to the destination: nothing; or somebody makes, fills or
\* removes an empty one; or a run moves its staging directory there.
LEMMA DestinationMoves ==
  ASSUME MigrationInv, [MigrationNext]_migrationVars
  PROVE  /\ UNCHANGED site
         /\ \/ UNCHANGED dest
            \/ /\ UNCHANGED seen
               /\ dest \in {Absent, Empty} /\ dest' \in {Absent, Empty, Other}
            \/ /\ UNCHANGED seen
               /\ dest \in {Absent, Empty}
               /\ \E m \in Migrator : phase[m] = "rename" /\ dest' = Published(staging[m])
<1> DEFINE Made == dest \in {Absent, Empty} /\ dest' \in {Absent, Empty, Other}
           Moved(m) == /\ dest \in {Absent, Empty} /\ phase[m] = "rename"
                       /\ dest' = Published(staging[m])
<1>1. ASSUME NEW m \in Migrator, RunStep(m)
      PROVE  UNCHANGED <<site, seen>> /\ (UNCHANGED dest \/ Made \/ Moved(m))
  <2>1. CASE RemoveEmptyDestination(m) \/ Rename(m)
    BY <2>1 DEF RemoveEmptyDestination, Rename, Outside
  <2>2. CASE Read(m) \/ PreflightSources(m) \/ Stage(m) \/ Write(m) \/ PopulateSharedDefaultBranches(m)
    BY <2>2 DEF Read, PreflightSources, Stage, Write, PopulateSharedDefaultBranches, Outside
  <2>3. CASE CopyRepository(m) \/ ReadSourceRefs(m) \/ CheckCopy(m) \/ Verify(m) \/ WriteReport(m)
    BY <2>3 DEF CopyRepository, ReadSourceRefs, CheckCopy, Verify, WriteReport, Outside
  <2>4. ASSUME NEW part \in Branch \cup {"rest"}, CopyDir(m, part) PROVE UNCHANGED <<site, seen, dest>>
    BY <2>4 DEF CopyDir, Outside
  <2>5. ASSUME NEW spoilt \in SUBSET DOMAIN site.lfs, CopyLfsObjects(m, spoilt)
        PROVE  UNCHANGED <<site, seen, dest>>
    BY <2>5 DEF CopyLfsObjects
  <2> QED BY <1>1, <2>1, <2>2, <2>3, <2>4, <2>5 DEF RunStep
<1>2. ASSUME NEW m \in Migrator, IoError(m) \/ Kill(m) \/ Rerun(m) PROVE UNCHANGED <<site, dest>>
  BY <1>2 DEF IoError, Kill, Rerun, Outside
<1>3. ASSUME NEW p \in DOMAIN repos, NEW b \in Branch, NEW v \in 0 .. MaxPushes + 1, PushGitlab(p, b, v)
      PROVE  UNCHANGED <<site, dest>>
  BY <1>3 DEF PushGitlab
<1>4. ASSUME NEW p \in DOMAIN repos, RemoveRepository(p) PROVE UNCHANGED <<site, dest>>
  BY <1>4 DEF RemoveRepository
<1>5. ASSUME NEW d \in {Empty, Other}, Occupy(d) PROVE UNCHANGED <<site, seen>> /\ Made
  BY <1>5 DEF Occupy, Outside
<1>6. CASE UNCHANGED migrationVars
  BY <1>6 DEF migrationVars
<1> QED BY <1>1, <1>2, <1>3, <1>4, <1>5, <1>6 DEF MigrationNext

\* The run implements the promise: whatever GitLab, the operator, other runs,
\* kills and errors do, the destination is left alone until it becomes, in one
\* step, a whole copy of states that GitLab really had (MigrationPromise).
THEOREM MigrationKeepsItsPromise == MigrationSpec => PromiseKept
<1>1. MigrationInit => Promise!Init
  <2> SUFFICES ASSUME MigrationInit PROVE Promise!Init
    OBVIOUS
  <2>1. site \in Sites /\ dest = site.start
    BY DEF MigrationInit
  <2> QED BY <2>1, SiteAssumption DEF Promise!Init, Absent, Empty, Other
<1>2. MigrationInv /\ [MigrationNext]_migrationVars => [Promise!Next]_<<Wanted, seen, dest>>
  <2> SUFFICES ASSUME MigrationInv, [MigrationNext]_migrationVars
               PROVE  [Promise!Next]_<<Wanted, seen, dest>>
    OBVIOUS
  <2>1. UNCHANGED site => UNCHANGED Wanted
    BY SameSite
  <2>2. CASE UNCHANGED dest
    BY <2>1, <2>2, DestinationMoves DEF Promise!Next, Promise!Source
  <2>3. CASE UNCHANGED seen /\ dest \in {Absent, Empty} /\ dest' \in {Absent, Empty, Other}
    BY <2>1, <2>3, DestinationMoves DEF Promise!Next, Promise!Directory, Absent, Empty, Other
  <2>4. ASSUME NEW m \in Migrator, UNCHANGED seen, dest \in {Absent, Empty}, phase[m] = "rename",
               dest' = Published(staging[m])
        PROVE  Promise!Publish
    BY <2>4, PublishedIsWhole DEF Promise!Publish, Absent, Empty
  <2> QED BY <2>1, <2>2, <2>3, <2>4, DestinationMoves DEF Promise!Next
<1> QED BY <1>1, <1>2, MigrationInvariant, PTL DEF MigrationSpec, PromiseKept, Promise!Spec

\* Nothing is overwritten: a destination that is somebody's, or that a run has
\* published, stays as it is (validate_destination, StagingDir::publish).
THEOREM NothingIsOverwritten ==
  MigrationSpec => [][dest \notin {Absent, Empty} => UNCHANGED dest]_dest
<1>1. ASSUME [Promise!Next]_<<Wanted, seen, dest>>
      PROVE  [dest \notin {Absent, Empty} => UNCHANGED dest]_dest
  BY <1>1 DEF Promise!Next, Promise!Source, Promise!Directory, Promise!Publish, Absent, Empty
<1> QED BY <1>1, MigrationKeepsItsPromise, PTL DEF PromiseKept, Promise!Spec

\* The database that is published is, row by row, what write_sqlite makes of
\* the tables of the one GitLab, whichever runs, kills and errors came before,
\* and those were tables that neither the reads nor the transaction refuse.
PublishedDb ==
    dest.kind = "published" =>
        /\ ReadTables(site.gl).ok /\ WriteOk(ReadTables(site.gl))
        /\ dest.db = WriteSqlite(ReadTables(site.gl))

THEOREM PublishedRowsAreGitlabs == MigrationSpec => []PublishedDb
<1>1. MigrationInit => PublishedDb
  BY SiteAssumption, KindOfAbsent DEF MigrationInit, PublishedDb
<1>2. MigrationInv /\ PublishedDb /\ [MigrationNext]_migrationVars => PublishedDb'
  <2> SUFFICES ASSUME MigrationInv, PublishedDb, [MigrationNext]_migrationVars PROVE PublishedDb'
    OBVIOUS
  <2>1. CASE UNCHANGED <<site, dest>>
    BY <2>1 DEF PublishedDb
  <2>2. ASSUME NEW m \in Migrator, phase[m] = "rename", dest' = Published(staging[m]), UNCHANGED site
        PROVE  PublishedDb'
    <3>1. /\ dest'.db = WriteSqlite(TablesOf[site])
          /\ TablesOf[site].ok /\ WriteOk(TablesOf[site])
      BY <2>2, LaterHolds DEF Published, Later, Checked
    <3>2. TablesOf[site] = ReadTables(site.gl)
      BY DEF MigrationInv, SourceInv, TablesOf
    <3> QED BY <2>2, <3>1, <3>2 DEF PublishedDb
  <2>3. CASE UNCHANGED site /\ dest' \in {Absent, Empty, Other}
    BY <2>3, KindOfAbsent DEF PublishedDb
  <2>4. UNCHANGED site
    BY DestinationMoves
  <2> QED BY <2>1, <2>2, <2>3, <2>4, DestinationMoves
<1> QED BY <1>1, <1>2, MigrationInvariant, PTL DEF MigrationSpec

\* Whatever tree of groups GitLab has, and whichever memberships: every user has
\* on every project of a published database the level that GitLab gave
\* (flatten_namespaces, write_sqlite, effective_access_level).
THEOREM AccessIsPreserved == MigrationSpec => []AccessPreserved
<1>1. MigrationInv /\ PublishedDb => AccessPreserved
  <2> SUFFICES ASSUME site \in Sites, PublishedDb, dest.kind = "published",
                      NEW u \in dest.db.users, NEW p \in dest.db.projects
               PROVE  EffectiveAccessLevel(dest.db, u.id, p) = GitlabLevel(site.gl, u.id, p)
    BY DEF AccessPreserved, MigrationInv, SourceInv
  <2>1. GitlabSchema(site.gl)
    BY SiteAssumption
  <2> QED BY <2>1, SameLevel DEF PublishedDb
<1> QED BY <1>1, MigrationInvariant, PublishedRowsAreGitlabs, PTL

\* In a published database every root namespace has its own path, whatever
\* nested ones are flattened beside it, and no path is given twice.
THEOREM RootPathsAreKept == MigrationSpec => []RootPathsKept
<1>1. MigrationInv /\ PublishedDb => RootPathsKept
  <2> SUFFICES ASSUME site \in Sites, PublishedDb, dest.kind = "published"
               PROVE  RootPathsKept
    BY DEF RootPathsKept, MigrationInv, SourceInv
  <2>1. GitlabSchema(site.gl) /\ dest.db.namespaces = NamespaceRows(ReadTables(site.gl))
    BY SiteAssumption DEF PublishedDb, WriteSqlite
  <2> QED BY <2>1, PathsKept DEF PublishedDb, RootPathsKept
<1> QED BY <1>1, MigrationInvariant, PublishedRowsAreGitlabs, PTL
=============================================================================
