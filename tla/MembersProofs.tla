---------------------------- MODULE MembersProofs ----------------------------
(***************************************************************************)
(* Who may read, push and give levels, for any set of users, levels and    *)
(* requests.  The ways to read agree since a user has a level exactly when *)
(* one of the three joins of the list finds a row, and the least level is  *)
(* the one that reading asks for.  Levels are changed from above since a   *)
(* request about to write has seen nothing above its caller's level in the *)
(* target's row, and what groups give on top stays as it is.               *)
(***************************************************************************)
EXTENDS Members, FiniteSetTheorems, TLAPS

-----------------------------------------------------------------------------
(* Levels.                                                                  *)

\* A set of levels has a largest one.
LEMMA MaxLevel ==
  ASSUME NEW S \in SUBSET AccessLevel, S # {}
  PROVE  Max(S) \in S /\ \A y \in S : Max(S) >= y
<1>1. \E x \in S : \A y \in S : x >= y
  <2>1. CASE 50 \in S  BY <2>1 DEF AccessLevel
  <2>2. CASE 50 \notin S /\ 40 \in S  BY <2>2 DEF AccessLevel
  <2>3. CASE 50 \notin S /\ 40 \notin S /\ 30 \in S  BY <2>3 DEF AccessLevel
  <2>4. CASE 50 \notin S /\ 40 \notin S /\ 30 \notin S /\ 20 \in S  BY <2>4 DEF AccessLevel
  <2>5. CASE 50 \notin S /\ 40 \notin S /\ 30 \notin S /\ 20 \notin S
    <3>1. \A y \in S : y = 10  BY <2>5 DEF AccessLevel
    <3>2. 10 \in S  BY <3>1
    <3> QED  BY <3>1, <3>2
  <2> QED  BY <2>1, <2>2, <2>3, <2>4, <2>5
<1> QED
  BY <1>1 DEF Max

\* The tables hold levels only.
Typed == members \subseteq Member /\ groupMembers \subseteq GroupMember

LEMMA MemberRows ==
  ASSUME Typed
  PROVE  /\ \A m \in members : m.level \in AccessLevel /\ m.user \in Users /\ m.project = Project
         /\ \A g \in groupMembers : g.level \in AccessLevel /\ g.user \in Users /\ g.ns = Group
BY DEF Typed, Member, GroupMember

\* effective_access_level is the largest of the levels there are, or none.
LEMMA LevelIsMax ==
  ASSUME Typed, NEW u, NEW p
  PROVE  LET S == LevelsOf(Db, u, p)
             l == EffectiveAccessLevel(Db, u, p)
         IN /\ S \subseteq AccessLevel
            /\ S = {} => l = 0
            /\ S # {} => l \in S /\ \A y \in S : l >= y
<1> DEFINE S == LevelsOf(Db, u, p)
<1>1. S \subseteq AccessLevel
  <2>1. Db.projectMembers = members /\ Db.groupMembers = groupMembers
    BY DEF Db
  <2>2. Owner \in AccessLevel
    BY DEF Owner, AccessLevel
  <2> QED
    BY <2>1, <2>2, MemberRows DEF LevelsOf
<1>2. S = {} => EffectiveAccessLevel(Db, u, p) = 0
  BY DEF EffectiveAccessLevel
<1>3. ASSUME S # {} PROVE EffectiveAccessLevel(Db, u, p) = Max(S) /\ Max(S) \in S
                          /\ \A y \in S : Max(S) >= y
  <2>1. Max(S) \in S /\ \A y \in S : Max(S) >= y
    BY <1>1, <1>3, MaxLevel
  <2>2. FromI32(Max(S)) = Max(S)
    BY <1>1, <2>1 DEF FromI32
  <2> QED
    BY <1>3, <2>1, <2>2 DEF EffectiveAccessLevel
<1> QED
  BY <1>1, <1>2, <1>3

\* A user has a level when one of the joins of the list finds a row.
Joined(u, p) ==
  \/ \E m \in Db.projectMembers : m.project = p.id /\ m.user = u
  \/ \E m \in Db.groupMembers : m.ns = p.ns /\ m.user = u
  \/ \E n \in Db.namespaces : n.id = p.ns /\ n.owner = u

LEMMA LevelIffJoined ==
  ASSUME Typed, NEW u, NEW p
  PROVE  /\ EffectiveAccessLevel(Db, u, p) \in {0} \cup AccessLevel
         /\ EffectiveAccessLevel(Db, u, p) >= 10 <=> Joined(u, p)
<1> DEFINE S == LevelsOf(Db, u, p)
<1>1. S # {} <=> Joined(u, p)
  BY DEF LevelsOf, Joined
<1>2. S = {} => EffectiveAccessLevel(Db, u, p) = 0
  BY LevelIsMax
<1>3. S # {} => EffectiveAccessLevel(Db, u, p) \in AccessLevel
  BY LevelIsMax
<1> QED
  BY <1>1, <1>2, <1>3 DEF AccessLevel

-----------------------------------------------------------------------------
(* The ways to read and to push.                                            *)

LEMMA RowFields ==
  ASSUME NEW p \in Rows
  PROVE  p.visibility \in {0, 10, 20} /\ p.archived \in BOOLEAN /\ p.lfs \in BOOLEAN
BY DEF Rows, Row, RowIn, Private, Internal, Public

LEMMA ReadIffListed ==
  ASSUME Typed, NEW user, NEW p \in Rows, user # Null => user.active = TRUE
  PROVE  AuthorizeRepo(Db, user, p, "read") <=> Listed(Db, user, p)
<1>1. RequiredLevel("read") = 10
  BY DEF RequiredLevel
<1>2. CASE user = Null
  BY <1>2, RowFields DEF AuthorizeRepo, Listed, VisibleFloor, Public
<1>3. CASE user # Null /\ user.admin
  BY <1>3, RowFields DEF AuthorizeRepo, Listed
<1>4. CASE user # Null /\ ~user.admin
  <2>1. Listed(Db, user, p) <=> p.visibility >= Internal \/ Joined(user.id, p)
    BY <1>4 DEF Listed, VisibleFloor, Joined
  <2>2. AuthorizeRepo(Db, user, p, "read") <=>
          p.visibility >= Internal \/ EffectiveAccessLevel(Db, user.id, p) >= 10
    BY <1>1, <1>4 DEF AuthorizeRepo
  <2> QED
    BY <2>1, <2>2, LevelIffJoined
<1> QED
  BY <1>2, <1>3, <1>4

LEMMA WriteImpliesRead ==
  ASSUME Typed, NEW user, NEW p, AuthorizeRepo(Db, user, p, "write")
  PROVE  AuthorizeRepo(Db, user, p, "read")
<1>1. RequiredLevel("read") = 10 /\ RequiredLevel("write") = 30
  BY DEF RequiredLevel
<1>2. EffectiveAccessLevel(Db, user.id, p) \in {0} \cup AccessLevel
  BY LevelIffJoined
<1>3. EffectiveAccessLevel(Db, user.id, p) >= 30 => EffectiveAccessLevel(Db, user.id, p) >= 10
  BY <1>2 DEF AccessLevel
<1> QED
  BY <1>1, <1>3 DEF AuthorizeRepo

LEMMA TypedLists == Typed => ListMatchesAccess
<1> SUFFICES ASSUME Typed, NEW user \in Callers, NEW p \in Rows
             PROVE  LET full == IF user = Null THEN Anonymous ELSE Identity(user, "session")
                        listed == Listed(Db, user, p)
                    IN /\ listed = Page(Db, full, p)
                       /\ listed = GitHttp(Db, full, p, "read")
                       /\ p.lfs => listed = Lfs(Db, full, p, "read")
                       /\ user # Null => listed = Ssh(Db, user, p, "read")
                       /\ \A i \in LfsIdentities :
                            i.user = user => listed = Page(Db, i, p)
  BY DEF ListMatchesAccess
<1> DEFINE full == IF user = Null THEN Anonymous ELSE Identity(user, "session")
           allowed == AuthorizeRepo(Db, user, p, "read")
<1>1. user # Null => user.active = TRUE
  BY DEF Callers, UserRows
<1>2. full.user = user /\ full.method \in {"none", "session"}
  BY DEF Anonymous, Identity
<1>3. full.user # Null => full.method = "session"
  BY DEF Anonymous, Identity
<1>4. ScopeSuffices(full, "read")
  BY <1>3 DEF ScopeSuffices, Allows
<1> HIDE DEF full
<1>5. Page(Db, full, p) <=> allowed
  BY <1>2 DEF Page
<1>6. GitHttp(Db, full, p, "read") <=> allowed
  BY <1>2, <1>4 DEF GitHttp
<1>7. p.lfs => (Lfs(Db, full, p, "read") <=> allowed)
  BY <1>2, <1>4, RowFields DEF Lfs
<1>8. Ssh(Db, user, p, "read") <=> allowed
  BY DEF Ssh
<1>9. Listed(Db, user, p) <=> allowed
  BY <1>1, ReadIffListed
<1>10. /\ Listed(Db, user, p) \in BOOLEAN /\ Page(Db, full, p) \in BOOLEAN
       /\ GitHttp(Db, full, p, "read") \in BOOLEAN /\ Ssh(Db, user, p, "read") \in BOOLEAN
       /\ p.lfs => Lfs(Db, full, p, "read") \in BOOLEAN
  BY DEF Listed, Page, GitHttp, Ssh, Lfs, AuthorizeRepo
<1>11. ASSUME NEW i \in LfsIdentities, i.user = user
       PROVE  Listed(Db, user, p) = Page(Db, i, p)
  <2>1. i.method = "lfs"
    BY DEF LfsIdentities, LfsIdentity
  <2>2. Page(Db, i, p) <=> allowed
    BY <1>11, <2>1 DEF Page
  <2>3. Page(Db, i, p) \in BOOLEAN
    BY DEF Page, AuthorizeRepo
  <2> QED
    BY <1>9, <1>10, <2>2, <2>3
<1> QED
  BY <1>5, <1>6, <1>7, <1>8, <1>9, <1>10, <1>11 DEF full

LEMMA TypedPushes == Typed => PushersCanFetch
<1> SUFFICES ASSUME Typed, NEW identity \in Identities, NEW p \in Rows
             PROVE  /\ GitHttp(Db, identity, p, "write") => GitHttp(Db, identity, p, "read")
                    /\ Lfs(Db, identity, p, "write") => Lfs(Db, identity, p, "read")
  BY DEF PushersCanFetch
<1>1. ScopeSuffices(identity, "write") => ScopeSuffices(identity, "read")
  <2>1. ASSUME NEW s, ScopesAllow(s, "write_repository") PROVE ScopesAllow(s, "read_repository")
    BY <2>1 DEF ScopesAllow
  <2>2. Allows(identity, "write_repository") => Allows(identity, "read_repository")
    <3>1. identity \in TokenIdentities => identity.method = "token"
      BY DEF TokenIdentities, TokenIdentity
    <3>2. identity \in LfsIdentities => identity.method = "lfs"
      BY DEF LfsIdentities, LfsIdentity
    <3> QED
      BY <2>1, <3>1, <3>2 DEF Allows, Identities
  <2> QED
    BY <2>2 DEF ScopeSuffices, ScopeFor
<1>2. AuthorizeRepo(Db, identity.user, p, "write") => AuthorizeRepo(Db, identity.user, p, "read")
  BY WriteImpliesRead
<1> QED
  BY <1>1, <1>2 DEF GitHttp, Lfs

-----------------------------------------------------------------------------
(* Types.                                                                   *)

LevelOrNone == {0} \cup AccessLevel

LEMMA RequestRows ==
  /\ \A q \in Request :
       /\ q.pc \in {"idle", "level", "target", "write"} /\ q.user \in Users /\ q.target \in Users
       /\ q.admin \in BOOLEAN /\ q.new \in LevelOrNone /\ q.level \in LevelOrNone /\ q.moved \in BOOLEAN
       /\ [q EXCEPT !.pc = "target"] \in Request
       /\ [q EXCEPT !.pc = "write"] \in Request
       /\ \A b \in BOOLEAN : [q EXCEPT !.moved = b] \in Request
       /\ \A l \in LevelOrNone : [q EXCEPT !.pc = "target", !.ns = Null, !.level = l] \in Request
  /\ Idle \in Request
<1>1. Request = [pc : {"idle", "level", "target", "write"}, user : Users, admin : BOOLEAN,
                 ns : {Null, Group, Home}, target : Users, new : LevelOrNone,
                 level : LevelOrNone, moved : BOOLEAN]
  BY DEF Request, LevelOrNone
<1>2. 0 \in LevelOrNone
  BY DEF LevelOrNone
<1>3. Idle \in Request
  BY <1>1, <1>2, UserAssumption DEF Idle
<1> QED
  BY <1>1, <1>3

\* A request that is about to write has seen nothing above its caller's level.
Cleared(q) ==
  q.pc = "write" /\ ~q.admin /\ ~q.moved /\ ~(q.new = 0 /\ q.target = q.user) =>
    /\ q.new <= q.level
    /\ \A m \in RowsOf(q.target) : m.level <= q.level

MemInv == TypeOK /\ \A r \in Requests : Cleared(req[r])

THEOREM InitMemInv == Init => MemInv
<1> SUFFICES ASSUME Init PROVE MemInv
  OBVIOUS
<1>1. TypeOK
  <2>1. members \subseteq Member /\ groupMembers \subseteq GroupMember
    BY DEF Init, GroupMember, Owner, AccessLevel
  <2>2. \A u \in Users : Cardinality(RowsOf(u)) <= 1
    <3>1. \A u \in Users : RowsOf(u) = {}
      BY DEF Init, RowsOf
    <3> QED
      BY <3>1, FS_EmptySet
  <2>3. req \in [Requests -> Request]
    BY RequestRows DEF Init
  <2> QED
    BY <2>1, <2>2, <2>3 DEF TypeOK, Init
<1>2. \A r \in Requests : Cleared(req[r])
  BY DEF Init, Cleared, Idle
<1> QED
  BY <1>1, <1>2 DEF MemInv

\* A step of one request that leaves the tables alone.
LEMMA OwnStep ==
  ASSUME MemInv, NEW r \in Requests, NEW q \in Request,
         req' = [req EXCEPT ![r] = q], UNCHANGED <<members, groupMembers, ns>>, Cleared(q)
  PROVE  MemInv'
<1>1. \A u : RowsOf(u)' = RowsOf(u)
  BY DEF RowsOf
<1>2. req' \in [Requests -> Request]
  BY DEF MemInv, TypeOK
<1>3. TypeOK'
  BY <1>1, <1>2 DEF MemInv, TypeOK
<1>4. ASSUME NEW x \in Requests PROVE Cleared(req[x])'
  <2>1. Cleared(req[x])' = Cleared(req'[x])
    BY <1>1 DEF Cleared
  <2>2. req'[x] = q \/ req'[x] = req[x]
    BY DEF MemInv, TypeOK
  <2> QED
    BY <2>1, <2>2 DEF MemInv
<1> QED
  BY <1>3, <1>4 DEF MemInv

LEMMA IdleCleared == \A q : q.pc # "write" => Cleared(q)
BY DEF Cleared

LEMMA BeginInv == ASSUME MemInv, NEW r \in Requests, Begin(r) PROVE MemInv'
<1>1. PICK u \in Users, t \in Users, new \in {0} \cup Levels, admin \in BOOLEAN :
        req' = [req EXCEPT ![r] =
            [pc |-> IF new = 0 /\ t = u THEN "write" ELSE "level", user |-> u, admin |-> admin,
             ns |-> IF new = 0 /\ t = u THEN Null ELSE ns, target |-> t, new |-> new, level |-> 0, moved |-> FALSE]]
  BY DEF Begin
<1> DEFINE q == [pc |-> IF new = 0 /\ t = u THEN "write" ELSE "level", user |-> u, admin |-> admin,
                 ns |-> IF new = 0 /\ t = u THEN Null ELSE ns, target |-> t, new |-> new, level |-> 0, moved |-> FALSE]
<1>2. q \in Request
  <2>1. new \in LevelOrNone /\ 0 \in LevelOrNone /\ ns \in {Group, Home}
    BY LevelAssumption DEF LevelOrNone, MemInv, TypeOK
  <2> QED
    BY <2>1 DEF Request, LevelOrNone
<1>3. Cleared(q)
  BY DEF Cleared
<1> QED
  BY <1>1, <1>2, <1>3, OwnStep DEF Begin

LEMMA LevelInv == ASSUME MemInv, NEW r \in Requests, CallerLevel(r) PROVE MemInv'
<1> DEFINE level == IF req[r].admin THEN Owner
                    ELSE EffectiveAccessLevel(Db, req[r].user, RowIn(req[r].ns))
           q == IF level >= RequiredLevel("admin")
                THEN [req[r] EXCEPT !.pc = "target", !.ns = Null, !.level = level] ELSE Idle
<1>1. req[r] \in Request
  BY DEF MemInv, TypeOK
<1>2. level \in LevelOrNone
  <2>1. Typed
    BY DEF MemInv, TypeOK, Typed
  <2>2. EffectiveAccessLevel(Db, req[r].user, RowIn(req[r].ns)) \in {0} \cup AccessLevel
    BY <2>1, LevelIffJoined
  <2> QED
    BY <2>2 DEF LevelOrNone, Owner, AccessLevel
<1>3. req' = [req EXCEPT ![r] = q]
  BY DEF CallerLevel
<1> HIDE DEF level
<1>4. q \in Request
  BY <1>1, <1>2, RequestRows
<1>5. Cleared(q)
  <2>1. q.pc # "write"
    BY <1>1 DEF Idle, Request
  <2> QED
    BY <2>1, IdleCleared
<1> QED
  BY <1>3, <1>4, <1>5, OwnStep DEF CallerLevel

LEMMA TargetInv == ASSUME MemInv, NEW r \in Requests, Target(r) PROVE MemInv'
<1> DEFINE w == [req[r] EXCEPT !.pc = "write"]
           q == IF Refused(r) THEN Idle ELSE w
<1>1. req[r] \in Request
  BY DEF MemInv, TypeOK
<1>2. req' = [req EXCEPT ![r] = q]
  BY DEF Target
<1>3. q \in Request
  BY <1>1, RequestRows
<1>4. Cleared(Idle)
  BY IdleCleared DEF Idle
<1>5. ASSUME ~Refused(r) PROVE Cleared(w)
  <2>1. /\ w.admin = req[r].admin /\ w.new = req[r].new /\ w.level = req[r].level
        /\ w.target = req[r].target
    BY <1>1 DEF Request
  <2>2. ASSUME ~req[r].admin
        PROVE  /\ req[r].new <= req[r].level
               /\ \A m \in RowsOf(req[r].target) : m.level <= req[r].level
    <3>1. \A l \in {req[r].new} \cup {m.level : m \in RowsOf(req[r].target)} : ~(l > req[r].level)
      BY <1>5, <2>2 DEF Refused
    <3>2. req[r].new \in LevelOrNone /\ req[r].level \in LevelOrNone
      BY <1>1, RequestRows
    <3>3. \A m \in RowsOf(req[r].target) : m.level \in AccessLevel
      BY DEF MemInv, TypeOK, Member, RowsOf
    <3> QED
      BY <3>1, <3>2, <3>3 DEF LevelOrNone, AccessLevel
  <2> QED
    BY <2>1, <2>2 DEF Cleared
<1> QED
  BY <1>2, <1>3, <1>4, <1>5, OwnStep DEF Target

LEMMA CancelInv == ASSUME MemInv, NEW r \in Requests, Cancel(r) PROVE MemInv'
<1>1. Cleared(Idle)
  BY IdleCleared DEF Idle
<1> QED
  BY <1>1, RequestRows, OwnStep DEF Cancel

\* A step that leaves requests and rows of project_members alone.
LEMMA OutsideStep ==
  ASSUME MemInv, UNCHANGED <<members, req>>, groupMembers' \subseteq GroupMember,
         ns' \in {Group, Home}
  PROVE  MemInv'
<1>1. \A u : RowsOf(u)' = RowsOf(u)
  BY DEF RowsOf
<1>2. TypeOK'
  BY <1>1 DEF MemInv, TypeOK
<1>3. \A x \in Requests : Cleared(req[x])'
  BY <1>1 DEF MemInv, Cleared
<1> QED
  BY <1>2, <1>3 DEF MemInv

LEMMA GroupChangeInv == ASSUME MemInv, GroupChange PROVE MemInv'
<1>1. PICK u \in Users, level \in {0} \cup Levels :
        groupMembers' = {g \in groupMembers : g.user # u}
                          \cup {[ns |-> Group, user |-> u, level |-> l] : l \in {level} \ {0}}
  BY DEF GroupChange
<1>2. \A l \in {level} \ {0} : [ns |-> Group, user |-> u, level |-> l] \in GroupMember
  BY LevelAssumption DEF GroupMember
<1>3. groupMembers' \subseteq GroupMember
  BY <1>1, <1>2 DEF MemInv, TypeOK
<1> QED
  BY <1>3, OutsideStep DEF GroupChange, MemInv, TypeOK

LEMMA TransferInv == ASSUME MemInv, Transfer PROVE MemInv'
BY OutsideStep DEF Transfer, MemInv, TypeOK

\* The row that a request writes is one row at most.
LEMMA GivenRows ==
  ASSUME MemInv, NEW r \in Requests
  PROVE  /\ Given(r) \subseteq Member
         /\ \A m \in Given(r) : m.user = req[r].target /\ m.level = req[r].new
         /\ Cardinality(Given(r)) <= 1
<1>1. req[r] \in Request
  BY DEF MemInv, TypeOK
<1>2. req[r].target \in Users /\ req[r].new \in LevelOrNone
  BY <1>1, RequestRows
<1>3. CASE req[r].new = 0
  <2>1. Given(r) = {}
    BY <1>3 DEF Given
  <2> QED
    BY <2>1, FS_EmptySet
<1>4. CASE req[r].new # 0
  <2> DEFINE g == [project |-> Project, user |-> req[r].target, level |-> req[r].new]
  <2>1. Given(r) = {g}
    BY <1>4 DEF Given
  <2>2. g \in Member
    BY <1>2, <1>4 DEF Member, LevelOrNone
  <2>3. Cardinality({g}) = 1
    BY FS_Singleton
  <2> QED
    BY <2>1, <2>2, <2>3
<1> QED
  BY <1>3, <1>4

RowsNext(u) == {m \in members' : m.user = u}

LEMMA RowsAfterWrite ==
  ASSUME MemInv, NEW r \in Requests, Write(r)
  PROVE  /\ members' = (members \ RowsOf(req[r].target)) \cup Given(r)
         /\ RowsNext(req[r].target) = Given(r)
         /\ \A u : u # req[r].target => RowsNext(u) = RowsOf(u)
<1>1. members' = (members \ RowsOf(req[r].target)) \cup Given(r)
  BY DEF Write, After
<1> QED
  BY <1>1, GivenRows DEF RowsOf, RowsNext

LEMMA WriteInv == ASSUME MemInv, NEW r \in Requests, Write(r) PROVE MemInv'
<1> DEFINE Moves(q) == req[q].moved \/ (/\ req[q].pc = "write" /\ req[q].target = req[r].target
                                       /\ members' # members)
<1>1. req' = [q \in Requests |-> IF q = r THEN Idle ELSE [req[q] EXCEPT !.moved = Moves(q)]]
  BY DEF Write
<1>2. \A q \in Requests : req[q] \in Request
  BY DEF MemInv, TypeOK
<1>3. \A q \in Requests : Moves(q) \in BOOLEAN
  BY <1>2, RequestRows
<1> HIDE DEF Moves
<1>4. TypeOK'
  <2>1. req' \in [Requests -> Request]
    BY <1>1, <1>2, <1>3, RequestRows
  <2>2. members' \subseteq Member
    BY RowsAfterWrite, GivenRows DEF MemInv, TypeOK
  <2>3. \A u \in Users : Cardinality(RowsOf(u)') <= 1
    <3> SUFFICES ASSUME NEW u \in Users PROVE Cardinality(RowsNext(u)) <= 1
      BY DEF RowsOf, RowsNext
    <3>1. CASE u = req[r].target
      BY <3>1, RowsAfterWrite, GivenRows
    <3>2. CASE u # req[r].target
      BY <3>2, RowsAfterWrite DEF MemInv, TypeOK
    <3> QED
      BY <3>1, <3>2
  <2>4. groupMembers' = groupMembers /\ ns' = ns
    BY DEF Write
  <2> QED
    BY <2>1, <2>2, <2>3, <2>4 DEF MemInv, TypeOK
<1>5. ASSUME NEW x \in Requests PROVE Cleared(req[x])'
  <2>1. CASE x = r
    <3>1. req'[x] = Idle
      BY <1>1, <2>1
    <3> QED
      BY <3>1 DEF Cleared, Idle
  <2>2. CASE x # r
    <3>1. req'[x] = [req[x] EXCEPT !.moved = Moves(x)]
      BY <1>1, <2>2
    <3>2. /\ req'[x].pc = req[x].pc /\ req'[x].admin = req[x].admin /\ req'[x].new = req[x].new
          /\ req'[x].target = req[x].target /\ req'[x].user = req[x].user
          /\ req'[x].level = req[x].level /\ req'[x].moved = Moves(x)
      BY <1>2, <3>1 DEF Request
    <3>3. CASE ~req'[x].moved /\ req[x].pc = "write"
      <4>1. ~req[x].moved /\ (req[x].target # req[r].target \/ members' = members)
        BY <3>2, <3>3 DEF Moves
      <4>2. RowsNext(req[x].target) = RowsOf(req[x].target)
        BY <4>1, RowsAfterWrite DEF RowsOf, RowsNext
      <4>3. RowsOf(req[x].target)' = RowsOf(req[x].target)
        BY <3>2, <4>2 DEF RowsOf, RowsNext
      <4>4. Cleared(req[x])
        BY DEF MemInv
      <4> QED
        BY <3>2, <3>3, <4>1, <4>3, <4>4 DEF Cleared
    <3>4. CASE req'[x].moved \/ req[x].pc # "write"
      BY <3>2, <3>4 DEF Cleared
    <3> QED
      BY <3>3, <3>4
  <2> QED
    BY <2>1, <2>2
<1> QED
  BY <1>4, <1>5 DEF MemInv

THEOREM NextMemInv == MemInv /\ [Next]_vars => MemInv'
<1> SUFFICES ASSUME MemInv, [Next]_vars PROVE MemInv'
  OBVIOUS
<1>1. CASE UNCHANGED vars
  BY <1>1, OutsideStep DEF vars, MemInv, TypeOK
<1>2. ASSUME NEW r \in Requests, Begin(r) PROVE MemInv'
  BY <1>2, BeginInv
<1>3. ASSUME NEW r \in Requests, CallerLevel(r) PROVE MemInv'
  BY <1>3, LevelInv
<1>4. ASSUME NEW r \in Requests, Target(r) PROVE MemInv'
  BY <1>4, TargetInv
<1>5. ASSUME NEW r \in Requests, Write(r) PROVE MemInv'
  BY <1>5, WriteInv
<1>6. ASSUME NEW r \in Requests, Cancel(r) PROVE MemInv'
  BY <1>6, CancelInv
<1>7. CASE GroupChange
  BY <1>7, GroupChangeInv
<1>8. CASE Transfer
  BY <1>8, TransferInv
<1> QED
  BY <1>1, <1>2, <1>3, <1>4, <1>5, <1>6, <1>7, <1>8 DEF Next

\* Spec => []MemInv, the invariant the theorems below rest on.
THEOREM SpecMemInv == Spec => []MemInv
BY InitMemInv, NextMemInv, PTL DEF Spec

\* A user never has two rows on a project, and rows hold levels of perm.rs only.
THEOREM MembersTyped == Spec => []TypeOK
<1>1. MemInv => TypeOK
  BY DEF MemInv
<1> QED
  BY <1>1, SpecMemInv, PTL

\* The list of projects and the ways to read one agree (ListMatchesAccess).
THEOREM ListsMatchAccess == Spec => []ListMatchesAccess
<1>1. MemInv => ListMatchesAccess
  BY TypedLists DEF MemInv, TypeOK, Typed
<1> QED
  BY <1>1, SpecMemInv, PTL

\* Whoever may push with a credential may fetch with it (PushersCanFetch).
THEOREM PushersFetch == Spec => []PushersCanFetch
<1>1. MemInv => PushersCanFetch
  BY TypedPushes DEF MemInv, TypeOK, Typed
<1> QED
  BY <1>1, SpecMemInv, PTL

-----------------------------------------------------------------------------
(* Levels are changed from above.                                           *)

Top(S) == IF S = {} THEN 0 ELSE FromI32(Max(S))

\* What a user has without a row of project_members.
Behind(u) ==
  {m.level : m \in {x \in groupMembers : x.ns = ns /\ x.user = u}}
    \cup {Owner : n \in {x \in Namespaces : x.id = ns /\ x.owner = u}}

LevelsIn(rows) == {m.level : m \in rows}

\* A level is the top of the user's row and of what is behind it.
LEMMA LevelParts ==
  Typed => /\ \A u : Level(u) = Top(LevelsIn(RowsOf(u)) \cup Behind(u))
           /\ \A u : Behind(u) \subseteq AccessLevel
           /\ \A u : LevelsIn(RowsOf(u)) \subseteq AccessLevel
<1> SUFFICES ASSUME Typed, NEW u
             PROVE  /\ Level(u) = Top(LevelsIn(RowsOf(u)) \cup Behind(u))
                    /\ Behind(u) \subseteq AccessLevel
                    /\ LevelsIn(RowsOf(u)) \subseteq AccessLevel
  OBVIOUS
<1>1. /\ Db.projectMembers = members /\ Db.groupMembers = groupMembers
      /\ Db.namespaces = Namespaces /\ Row.id = Project /\ Row.ns = ns
  BY DEF Db, Row, RowIn
<1>2. {x \in members : x.project = Project /\ x.user = u} = RowsOf(u)
  BY MemberRows DEF RowsOf
<1>3. LevelsOf(Db, u, Row) = LevelsIn(RowsOf(u)) \cup Behind(u)
  BY <1>1, <1>2 DEF LevelsOf, LevelsIn, Behind
<1>4. Owner \in AccessLevel
  BY DEF Owner, AccessLevel
<1>5. Behind(u) \subseteq AccessLevel
  BY <1>4, MemberRows DEF Behind
<1>6. LevelsIn(RowsOf(u)) \subseteq AccessLevel
  BY MemberRows DEF LevelsIn, RowsOf
<1> QED
  BY <1>3, <1>5, <1>6 DEF Level, EffectiveAccessLevel, Top

LEMMA LevelPartsNext ==
  (Typed => /\ \A u : Level(u) = Top(LevelsIn(RowsOf(u)) \cup Behind(u))
            /\ \A u : Behind(u) \subseteq AccessLevel
            /\ \A u : LevelsIn(RowsOf(u)) \subseteq AccessLevel)'
BY LevelParts, PTL

\* Levels up to a bound are replaced by others up to it: the top moves within it.
LEMMA TopMovesBelow ==
  ASSUME NEW A \in SUBSET AccessLevel, NEW B \in SUBSET AccessLevel,
         NEW G \in SUBSET AccessLevel, NEW bound \in LevelOrNone,
         \A y \in A \cup B : y <= bound,
         Top(A \cup G) # Top(B \cup G)
  PROVE  Top(A \cup G) <= bound /\ Top(B \cup G) <= bound
<1>1. ASSUME NEW S \in SUBSET AccessLevel
      PROVE  /\ S = {} => Top(S) = 0
             /\ S # {} => Top(S) \in S /\ \A y \in S : Top(S) >= y
  <2>1. S # {} => Max(S) \in S /\ \A y \in S : Max(S) >= y
    BY MaxLevel
  <2> QED
    BY <2>1 DEF Top, FromI32
<1> DEFINE a == Top(A \cup G)
           b == Top(B \cup G)
<1>2. /\ A \cup G = {} => a = 0
      /\ A \cup G # {} => a \in A \cup G /\ \A y \in A \cup G : a >= y
  BY <1>1
<1>3. /\ B \cup G = {} => b = 0
      /\ B \cup G # {} => b \in B \cup G /\ \A y \in B \cup G : b >= y
  BY <1>1
<1>4. a # b
  OBVIOUS
<1> HIDE DEF a, b
<1>5. a \in Int /\ b \in Int /\ bound \in Int /\ bound >= 0
  <2>1. a \in LevelOrNone
    BY <1>2 DEF LevelOrNone
  <2>2. b \in LevelOrNone
    BY <1>3 DEF LevelOrNone
  <2>3. \A x \in LevelOrNone : x \in Int /\ x >= 0
    BY DEF LevelOrNone, AccessLevel
  <2> QED
    BY <2>1, <2>2, <2>3
<1>6. \A y \in A \cup B \cup G : y \in Int
  BY DEF AccessLevel
<1>7. ~(a > bound)
  <2> SUFFICES ASSUME a > bound PROVE FALSE
    OBVIOUS
  <2>1. a \in G
    BY <1>2, <1>5, <1>6
  <2>2. b >= a
    BY <1>3, <2>1
  <2>3. b \in G
    BY <1>3, <1>5, <1>6, <2>1, <2>2
  <2> QED
    BY <1>2, <1>4, <1>5, <2>2, <2>3
<1>8. ~(b > bound)
  <2> SUFFICES ASSUME b > bound PROVE FALSE
    OBVIOUS
  <2>1. b \in G
    BY <1>3, <1>5, <1>6
  <2>2. a >= b
    BY <1>2, <2>1
  <2>3. a \in G
    BY <1>2, <1>5, <1>6, <2>1, <2>2
  <2> QED
    BY <1>3, <1>4, <1>5, <2>2, <2>3
<1> QED
  BY <1>5, <1>7, <1>8 DEF a, b

\* Only a write of its own ends a request that was about to write with the
\* tables changed.
LEMMA OnlyOwnWrite ==
  ASSUME MemInv, [Next]_vars, NEW r \in Requests, req[r].pc = "write", req'[r].pc = "idle"
  PROVE  Write(r) \/ UNCHANGED <<members, groupMembers, ns>>
<1>1. req \in [Requests -> Request]
  BY DEF MemInv, TypeOK
<1>2. req' # req
  OBVIOUS
<1>3. ASSUME NEW q \in Requests, Write(q), q # r PROVE FALSE
  <2> DEFINE Moves == req[r].moved \/ (/\ req[r].pc = "write" /\ req[r].target = req[q].target
                                       /\ members' # members)
  <2>1. req'[r] = [req[r] EXCEPT !.moved = Moves]
    BY <1>3 DEF Write
  <2> HIDE DEF Moves
  <2>2. req'[r].pc = req[r].pc
    BY <1>1, <2>1 DEF Request
  <2> QED
    BY <2>2
<1> QED
  BY <1>2, <1>3 DEF Next, vars, Begin, CallerLevel, Target, Cancel, GroupChange, Transfer

LEMMA StepFromAbove ==
  ASSUME MemInv, Typed', [Next]_vars, NEW r \in Requests, NEW u \in Users,
         req[r].pc = "write", req'[r].pc = "idle", ~req[r].admin, ~req[r].moved,
         ~(req[r].new = 0 /\ req[r].target = req[r].user), Level(u)' # Level(u)
  PROVE  Level(u) <= req[r].level /\ Level(u)' <= req[r].level
<1>1. Typed
  BY DEF MemInv, TypeOK, Typed
<1>2. req[r] \in Request
  BY DEF MemInv, TypeOK
<1>3. Cleared(req[r])
  BY DEF MemInv
<1> DEFINE A == LevelsIn(RowsOf(u))
           B == LevelsIn(RowsNext(u))
           G == Behind(u)
<1>4. Level(u) = Top(A \cup G) /\ A \subseteq AccessLevel /\ G \subseteq AccessLevel
  BY <1>1, LevelParts
<1>5. CASE UNCHANGED <<members, groupMembers, ns>>
  <2>1. Level(u)' = Level(u)
    BY <1>5 DEF Level, Db, Row, RowIn, EffectiveAccessLevel, LevelsOf, Namespaces
  <2> QED
    BY <2>1
<1>6. CASE Write(r)
  <2>1. groupMembers' = groupMembers /\ ns' = ns
    BY <1>6 DEF Write
  <2>2. Behind(u)' = G
    BY <2>1 DEF Behind, Namespaces
  <2>3. LevelsIn(RowsOf(u))' = B
    BY DEF LevelsIn, RowsOf, RowsNext
  <2>4. Level(u)' = Top(B \cup G) /\ B \subseteq AccessLevel
    BY <2>2, <2>3, LevelPartsNext
  <2>5. u = req[r].target
    <3>1. u # req[r].target => B = A
      BY <1>6, RowsAfterWrite DEF LevelsIn
    <3> QED
      BY <1>4, <2>4, <3>1
  <2>6. /\ req[r].new <= req[r].level
        /\ \A m \in RowsOf(req[r].target) : m.level <= req[r].level
    BY <1>3 DEF Cleared
  <2>7. \A y \in A : y <= req[r].level
    BY <2>5, <2>6 DEF LevelsIn
  <2>8. \A y \in B : y <= req[r].level
    BY <1>6, <2>5, <2>6, RowsAfterWrite, GivenRows DEF LevelsIn
  <2>9. req[r].level \in LevelOrNone
    BY <1>2, RequestRows
  <2> QED
    BY <1>4, <2>4, <2>7, <2>8, <2>9, TopMovesBelow
<1> QED
  BY <1>5, <1>6, OnlyOwnWrite

\* No member request changes a level from or to one above its caller's
\* (LevelsChangedFromAbove), with the exceptions that the property names.
THEOREM LevelsAreChangedFromAbove == Spec => LevelsChangedFromAbove
<1>1. MemInv /\ Typed' /\ [Next]_vars =>
        [\A r \in Requests, u \in Users :
           (/\ req[r].pc = "write" /\ req'[r].pc = "idle" /\ ~req[r].admin /\ ~req[r].moved
            /\ ~(req[r].new = 0 /\ req[r].target = req[r].user)
            /\ Level(u)' # Level(u))
             => Level(u) <= req[r].level /\ Level(u)' <= req[r].level]_vars
  BY StepFromAbove
<1>2. MemInv => Typed
  BY DEF MemInv, TypeOK, Typed
<1> QED
  BY <1>1, <1>2, SpecMemInv, PTL DEF Spec, LevelsChangedFromAbove
=============================================================================
