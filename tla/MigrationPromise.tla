-------------------------- MODULE MigrationPromise --------------------------
(* What rgit-migrate promises of the destination it is given                  *)
(* (docs/MIGRATION.md and DESIGN.md section 13: nothing is overwritten, no     *)
(* half-finished data directory is left, no project is lost), without a word   *)
(* about how: in one step, or never, the destination becomes a whole copy.     *)
EXTENDS Integers

\* Branch: the refs of a repository; Null: nothing.
CONSTANTS Branch, Null

\* wanted: the projects and LFS objects of the GitLab instance;
\* seen: for a project, every state its refs have been in since the start;
\* dest: the destination directory.
VARIABLES wanted, seen, dest

Absent == [kind |-> "absent"]
Empty == [kind |-> "empty"]
Other == [kind |-> "other"]

\* A repository that stands alone, with the refs the source had at one instant.
WholeRepo(repo, states) ==
    /\ repo.refs \in states
    /\ \A b \in Branch : repo.refs[b] = 0 \/ repo.refs[b] \in repo.objects
    /\ ~repo.alternates

\* A copy has every repository and LFS object; with shared storage they stay
\* where GitLab has them, and only the rows are there.
Whole(d) ==
    /\ d.kind = "published"
    /\ {p.id : p \in d.db.projects} = wanted.projects
    /\ d.db.objects = wanted.objects
    /\ d.mode = "copy" =>
          /\ \A p \in wanted.projects : d.repos[p] # Null /\ WholeRepo(d.repos[p], seen[p])
          /\ wanted.objects \subseteq d.lfs

-----------------------------------------------------------------------------

Init == dest \in {Absent, Empty, Other}

\* GitLab's repositories change, or the operator makes or fills the directory.
Source == seen' # seen /\ dest' = dest
Directory == /\ dest \in {Absent, Empty}
             /\ dest' \in {Absent, Empty, Other}
             /\ seen' = seen
Publish == /\ dest \in {Absent, Empty}
           /\ Whole(dest')
           /\ seen' = seen

Next == wanted' = wanted /\ (Source \/ Directory \/ Publish)

Spec == Init /\ [][Next]_<<wanted, seen, dest>>
=============================================================================
