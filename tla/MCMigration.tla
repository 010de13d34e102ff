---------------------------- MODULE MCMigration -----------------------------
(* GitLab instances for Migration: many small trees of groups with one run    *)
(* and a quiet GitLab; few trees with a live GitLab, a pool, damage, an       *)
(* operator in the way; and two runs with the same destination.               *)
EXTENDS Migration

CONSTANTS b1, b2, m1, m2

User(id, human, state) == [id |-> id, human |-> human, admin |-> id = 1, state |-> state]
Ns(id, type, path, owner, parent) ==
    [id |-> id, type |-> type, path |-> path, owner |-> owner, parent |-> parent]
Project(id, ns, storage) ==
    [id |-> id, ns |-> ns, storage |-> storage, legacy |-> FALSE, pendingDelete |-> FALSE,
     visibility |-> 0, archived |-> FALSE]
Member(type, source, user, level, pending) ==
    [type |-> type, source |-> source, user |-> user, level |-> level, pending |-> pending]
Key(user, f, usable) == [user |-> user, fingerprint |-> f, usable |-> usable]

\* A repository: main (b1) and an optional branch b2, with commit 1.
Repo(root, pool, resolves) ==
    [root |-> root, head |-> b1, refs |-> (b1 :> 1 @@ b2 :> 0),
     objects |-> IF pool = {} THEN {1} ELSE {}, pool |-> pool, poolResolves |-> resolves,
     auxDamaged |-> FALSE]
Plain == Repo("default", {}, TRUE)

Users == {User(1, TRUE, "active"), User(2, TRUE, "blocked"), User(3, FALSE, "active")}

\* Namespaces 1 and 3 are personal (3's owner is a bot), 10 to 12 groups.
Tree(parent11, parent12, path12, path3) ==
    {Ns(1, "User", <<"u">>, 1, Null), Ns(3, "User", path3, 3, Null),
     Ns(10, "Group", <<"a">>, Null, Null), Ns(11, "Group", <<"b", "c">>, Null, parent11),
     Ns(12, "Group", path12, Null, parent12), Ns(20, "Project", <<"p">>, Null, 10)}

Gl(namespaces, projects, members) ==
    [users |-> Users, namespaces |-> namespaces, projects |-> projects, members |-> members,
     keys |-> {Key(1, "f1", TRUE), Key(2, "f1", TRUE), Key(3, "f2", TRUE), Key(1, "f3", FALSE)},
     objects |-> {[oid |-> "o1", local |-> TRUE], [oid |-> "o2", local |-> TRUE]},
     links |-> {<<1, "o1">>, <<9, "o1">>, <<1, "gone">>}, forks |-> {<<1, 2>>, <<2, 9>>}]

Site(gl, rs, mode, crew, start, live, nfaults) ==
    [gl |-> gl, storages |-> <<>>, mode |-> mode, crew |-> crew, repos |-> rs,
     lfs |-> [o \in {"o1", "o2"} |-> "good"], start |-> start, live |-> live, faults |-> nfaults]

Home == {Project(1, 12, "default"), Project(2, 3, "default")}
Members(l10, l11, l12, lp) ==
    {Member("Namespace", 10, 2, l10, FALSE), Member("Namespace", 11, 2, l11, FALSE),
     Member("Namespace", 12, 2, l12, l12 = 50), Member("Project", 1, 2, lp, FALSE),
     Member("Project", 9, 2, 5, FALSE), Member("Project", 1, 3, 50, FALSE),
     Member("Project", 2, Null, 50, FALSE)}

Both == (1 :> Plain @@ 2 :> Plain)

\* GitLab has no two root namespaces with one path.
DistinctRoots(site_) ==
    \A x, y \in {n \in site_.gl.namespaces : n.parent = Null} : x.path = y.path => x = y

AllTrees ==
    {Site(Gl(Tree(q11, q12, path, path3), Home, Members(l10, l11, 50, lp)), Both, "reuse", {m1},
          [kind |-> "absent"], FALSE, 0) :
        q11 \in {Null, 10, 12}, q12 \in {Null, 10, 11, 1, 99},
        path \in {<<"b">>, <<"a", "b", "c">>, <<"a", "b", "c", "11">>},
        path3 \in {<<"x">>, <<"a", "b", "c">>},
        l10 \in {20, 40}, l11 \in {5, 30}, lp \in {10}}

Trees == {s \in AllTrees : DistinctRoots(s)}

One == Gl(Tree(10, 11, <<"c">>, <<"x">>), {Project(1, 12, "default")}, Members(20, 30, 50, 10))
Alone(r) == (1 :> r)

Live == {Site(One, Alone(r), "copy", {m1}, Empty, TRUE, 1) :
            r \in {Plain, Repo("default", {1}, TRUE), Repo("default", {1}, FALSE)}}

Crowd == {Site(One, Alone(Plain), mode, {m1, m2}, start, FALSE, 1) :
             mode \in {"copy", "reuse"}, start \in {Absent, Empty}}

\* One thing wrong, or unusual, each.
Two == Gl(Tree(10, 11, <<"c">>, <<"x">>), Home, Members(20, 30, 50, 10))
Quiet == Site(Two, Both, "copy", {m1}, Absent, FALSE, 1)
Odd ==
    {Quiet,
     [Quiet EXCEPT !.mode = "dry"],
     [Quiet EXCEPT !.start = Other],
     [Quiet EXCEPT !.repos[2] = Null],
     [Quiet EXCEPT !.repos[2].refs[b2] = 7],
     [Quiet EXCEPT !.repos[2].auxDamaged = TRUE],
     [Quiet EXCEPT !.repos[2].head = Null],
     [Quiet EXCEPT !.repos[2].head = "invalid"],
     [Quiet EXCEPT !.repos[2].head = "invalid", !.mode = "reuse"],
     [Quiet EXCEPT !.lfs["o1"] = "short"],
     [Quiet EXCEPT !.lfs["o2"] = "corrupt"],
     [Quiet EXCEPT !.gl.objects = {[oid |-> "o1", local |-> FALSE]}],
     [Quiet EXCEPT !.gl.projects = {[p EXCEPT !.legacy = p.id = 2] : p \in Home}],
     [Quiet EXCEPT !.gl.projects = {[p EXCEPT !.pendingDelete = p.id = 2] : p \in Home}],
     [Quiet EXCEPT !.gl.projects = {Project(1, 12, "default"), Project(2, 3, "fast")},
                   !.repos[2].root = "fast"],
     [Quiet EXCEPT !.gl.projects = {Project(1, 12, "default"), Project(2, 3, "fast")},
                   !.repos[2].root = "fast", !.storages = <<"fast">>],
     [Quiet EXCEPT !.gl.projects = {Project(1, 12, "default"), Project(2, 3, "fast")},
                   !.repos[2].root = "fast", !.storages = <<"slow">>],
     [Quiet EXCEPT !.gl.projects = {Project(1, 12, "default"), Project(2, 3, "fast")},
                   !.repos[2].root = "fast", !.storages = <<"fast">>, !.mode = "reuse"],
     [Quiet EXCEPT !.storages = <<"fast", "fast">>]}

AllSites == Trees \cup Live \cup Crowd \cup Odd
=============================================================================
