------------------------------ MODULE Sessions ------------------------------
(***************************************************************************)
(* The credentials a user holds as rows of the database: sessions, personal *)
(* access tokens and the short-lived LFS tokens of the SSH shell.  A request *)
(* first finds its credential and then reads the user it names, or reads the *)
(* user and checks a password; what it writes it writes later, with the row  *)
(* it read.  Meanwhile users change their passwords and administrators       *)
(* block, reset, delete and create users, and ids of deleted users return.   *)
(* Whether an attempt with a password may be made is LoginThrottle's; which  *)
(* repositories an identity opens is AccessLevels' and Members'.             *)
(***************************************************************************)
EXTENDS Naturals

CONSTANTS
  Requests,   \* requests that can be in progress at once
  MaxUsers,   \* bound: user ids
  MaxRows,    \* bound: credentials that exist at once
  MaxHash     \* bound: passwords ever set

ASSUME BoundAssumption == {MaxUsers, MaxRows, MaxHash} \subseteq Nat \ {0}

Ids == 1..MaxUsers
Slots == 1..MaxRows
Hashes == 1..MaxHash

VARIABLES
  users,    \* users by id; a row of user 0 stands for none
  hashes,   \* history: how many passwords were set; each has its own hash
  cred,     \* rows of sessions, personal_access_tokens and lfs_auth_tokens
  req       \* requests

vars == <<users, hashes, cred, req>>

\* person: history, the hash the user was created with.
User == [hash : Hashes, active : BOOLEAN, person : Hashes]
Nobody == [hash |-> 0, active |-> FALSE, person |-> 0]

Kinds == {"session", "token", "lfs"}

\* person, hash: history, who was authenticated, and a session by which hash
\* since: history, what became of the user's row between its reading and the
\* insertion of this one
Credential == [kind : Kinds, user : Ids, expired : BOOLEAN, revoked : BOOLEAN,
               person : Hashes, hash : 0..MaxHash,
               since : {"same", "changed", "replaced"}]
Free == [kind |-> "free"]

\* read: the credential is found, its user not read     act: the handler runs
\* login, shell: the session or the LFS token is to be inserted
\* hash: of the row that a login read, which checked the password against it
Request == [pc : {"idle", "read", "act", "login", "shell"}, user : Ids,
            person : 0..MaxHash, hash : 0..MaxHash]
Idle == [pc |-> "idle", user |-> 1, person |-> 0, hash |-> 0]

Exists(u) == users[u] # Nobody

\* The one administrator, whom the code neither blocks nor deletes.
Root == 1

Init ==
  /\ users = [u \in Ids |-> IF u = Root THEN [hash |-> 1, active |-> TRUE, person |-> 1]
                                     ELSE Nobody]
  /\ hashes = 1
  /\ cred = [s \in Slots |-> Free]
  /\ req = [r \in Requests |-> Idle]

-----------------------------------------------------------------------------
(* Identities.                                                              *)

\* The queries of resolve_session, find_active_token and lfs_token::find.
Found(c) == c # Free /\ ~c.expired /\ ~c.revoked

Goto(r, next) == req' = [req EXCEPT ![r] = next]

\* The first read of a request that brings a credential.
Present(r, s) ==
  /\ req[r] = Idle
  /\ Found(cred[s])
  /\ Goto(r, [Idle EXCEPT !.pc = "read", !.user = cred[s].user, !.person = cred[s].person])
  /\ UNCHANGED <<users, hashes, cred>>

\* The second read: the active user of that id, or an anonymous request.
ReadUser(r) ==
  /\ req[r].pc = "read"
  /\ Goto(r, IF users[req[r].user].active THEN [req[r] EXCEPT !.pc = "act"] ELSE Idle)
  /\ UNCHANGED <<users, hashes, cred>>

As(pc, u) == [pc |-> pc, user |-> u, person |-> users[u].person,
              hash |-> IF pc = "login" THEN users[u].hash ELSE 0]

\* A password is right for the active user read, a login's or that of a Basic
\* header; or git-lfs-authenticate has read the active user of the SSH key.
Identify(r) ==
  /\ req[r] = Idle
  /\ \E u \in Ids, pc \in {"login", "act", "shell"} :
       /\ users[u].active
       /\ Goto(r, As(pc, u))
  /\ UNCHANGED <<users, hashes, cred>>

\* Any other request, or one that is refused: a mutation with a token needs
\* the api scope, a change of password the current one.
Finish(r) ==
  /\ req[r].pc = "act"
  /\ Goto(r, Idle)
  /\ UNCHANGED <<users, hashes, cred>>

-----------------------------------------------------------------------------
(* Writes.                                                                  *)

Since(r) ==
  LET now == users[req[r].user] IN
  IF now.person # req[r].person THEN "replaced"
  ELSE IF req[r].pc = "login" => now.active /\ now.hash = req[r].hash THEN "same"
  ELSE "changed"

NewCredential(r, kind) ==
  [kind |-> kind, user |-> req[r].user, expired |-> FALSE,
   revoked |-> FALSE, person |-> req[r].person, hash |-> req[r].hash, since |-> Since(r)]

\* The foreign key refuses the row of a user who is gone.
Insert(r, kind) ==
  /\ IF Exists(req[r].user)
     THEN \E s \in Slots :
            /\ cred[s] = Free /\ \A t \in Slots : t < s => cred[t] # Free
            /\ cred' = [cred EXCEPT ![s] = NewCredential(r, kind)]
     ELSE UNCHANGED cred
  /\ Goto(r, Idle)
  /\ UNCHANGED <<users, hashes>>

CreateSession(r) == req[r].pc = "login" /\ Insert(r, "session")

IssueLfs(r) == req[r].pc = "shell" /\ Insert(r, "lfs")

CreateToken(r) == req[r].pc = "act" /\ Insert(r, "token")

SlotsOf(u, kinds) == {s \in Slots : cred[s] # Free /\ cred[s].user = u /\ cred[s].kind \in kinds}

Drop(gone) == cred' = [s \in Slots |-> IF s \in gone THEN Free ELSE cred[s]]

SetHash(u) == [users EXCEPT ![u].hash = hashes + 1]

\* mutant: the sessions stay.
ChangePasswordOnly(r) ==
  /\ req[r].pc = "act" /\ hashes < MaxHash
  /\ users' = IF Exists(req[r].user) THEN SetHash(req[r].user) ELSE users
  /\ hashes' = hashes + 1
  /\ Goto(r, Idle)
  /\ UNCHANGED cred

\* One transaction: the user of that id has a new password and no sessions.
ChangePassword(r) ==
  /\ req[r].pc = "act" /\ hashes < MaxHash
  /\ users' = IF Exists(req[r].user) THEN SetHash(req[r].user) ELSE users
  /\ hashes' = hashes + 1
  /\ Drop(SlotsOf(req[r].user, {"session"}))
  /\ Goto(r, Idle)

\* mutant: any token is revoked.
RevokeAny(r) ==
  /\ req[r].pc = "act"
  /\ \/ \E s \in Slots :
          /\ cred[s] # Free /\ cred[s].kind = "token"
          /\ cred' = [cred EXCEPT ![s].revoked = TRUE]
     \/ UNCHANGED cred
  /\ Goto(r, Idle)
  /\ UNCHANGED <<users, hashes>>

\* A token of the caller is revoked; the id is the caller's to name.
Revoke(r) ==
  /\ req[r].pc = "act"
  /\ \/ \E s \in SlotsOf(req[r].user, {"token"}) :
          cred' = [cred EXCEPT ![s].revoked = TRUE]
     \/ UNCHANGED cred
  /\ Goto(r, Idle)
  /\ UNCHANGED <<users, hashes>>

\* The session whose cookie is presented.
Logout ==
  /\ \E s \in Slots : cred[s] # Free /\ cred[s].kind = "session" /\ Drop({s})
  /\ UNCHANGED <<users, hashes, req>>

-----------------------------------------------------------------------------
(* Administrators; which of their requests are refused is Accounts'.        *)

\* Ids are not AUTOINCREMENT: the next one follows the largest in use.
NextId(u) == /\ \A v \in Ids : Exists(v) => v < u
             /\ u = 1 \/ Exists(u - 1)

CreateUser(u) ==
  /\ NextId(u) /\ hashes < MaxHash
  /\ hashes' = hashes + 1
  /\ users' = [users EXCEPT ![u] =
                 [hash |-> hashes + 1, active |-> TRUE, person |-> hashes + 1]]
  /\ UNCHANGED <<cred, req>>

Patch == [state : {"none", "active", "blocked"}, reset : BOOLEAN]

Patched(row, p) ==
  [row EXCEPT !.active = IF p.state = "none" THEN @ ELSE p.state = "active",
              !.hash = IF p.reset THEN hashes + 1 ELSE @]

\* Blocking a user or resetting a password also ends the sessions.
UpdateUser(u) ==
  /\ Exists(u)
  /\ \E p \in Patch :
       /\ p.reset => hashes < MaxHash
       /\ u = Root => p.state # "blocked"
       /\ users' = [users EXCEPT ![u] = Patched(@, p)]
       /\ hashes' = IF p.reset THEN hashes + 1 ELSE hashes
       /\ IF p.state = "blocked" \/ p.reset
          THEN Drop(SlotsOf(u, {"session"}))
          ELSE UNCHANGED cred
  /\ UNCHANGED req

\* mutant: the rows of LFS credentials do not cascade.
DeleteUserKeepsLfs(u) ==
  /\ Exists(u) /\ u # Root
  /\ users' = [users EXCEPT ![u] = Nobody]
  /\ Drop(SlotsOf(u, {"session", "token"}))
  /\ UNCHANGED <<hashes, req>>

\* The foreign keys cascade.
DeleteUser(u) ==
  /\ Exists(u) /\ u # Root
  /\ users' = [users EXCEPT ![u] = Nobody]
  /\ Drop(SlotsOf(u, Kinds))
  /\ UNCHANGED <<hashes, req>>

-----------------------------------------------------------------------------
(* Time.                                                                    *)

\* A token may have no date of expiry, and one revoked is dead already.
Expire(s) ==
  /\ cred[s] # Free /\ ~cred[s].expired /\ ~cred[s].revoked
  /\ cred' = [cred EXCEPT ![s].expired = TRUE]
  /\ UNCHANGED <<users, hashes, req>>

Expired(kinds) == {s \in Slots : cred[s] # Free /\ cred[s].kind \in kinds /\ cred[s].expired}

\* The maintenance loop, every hour: the two statements succeed or fail each
\* for itself, and a failure is left to the next hour.
PurgeSessions == Drop(Expired({"session"})) /\ UNCHANGED <<users, hashes, req>>

\* mutant: only sessions are purged.
PurgeLfsNever == UNCHANGED vars

PurgeLfs == Drop(Expired({"lfs"})) /\ UNCHANGED <<users, hashes, req>>

Next ==
  \/ \E r \in Requests :
       (\E s \in Slots : Present(r, s)) \/ ReadUser(r) \/ Identify(r) \/ Finish(r) \/ CreateSession(r)
         \/ IssueLfs(r) \/ CreateToken(r) \/ ChangePassword(r) \/ Revoke(r)
  \/ Logout
  \/ \E u \in Ids : CreateUser(u) \/ UpdateUser(u) \/ DeleteUser(u)
  \/ \E s \in Slots : Expire(s)
  \/ PurgeSessions \/ PurgeLfs

\* The loop runs until the server stops, and the database does not fail it
\* for ever.
Spec == Init /\ [][Next]_vars /\ WF_vars(PurgeSessions) /\ WF_vars(PurgeLfs)

-----------------------------------------------------------------------------
TypeOK ==
  /\ users \in [Ids -> User \cup {Nobody}]
  /\ hashes \in Hashes
  /\ cred \in [Slots -> Credential \cup {Free}]
  /\ req \in [Requests -> Request]

\* A session is good for the password and the state the account has now: the
\* password it was opened with is the current one and the user is active,
\* unless the user's row changed while the login was under way (the window of
\* session.rs:135-168, which the deletions of user.rs:84 and admin.rs:187
\* cannot reach).  The session a password change is made with is no exception:
\* it ends as well, although the comment of the code (user.rs:61-62) has the
\* change end all other sessions.
SessionsAreCurrent ==
  \A s \in Slots :
    cred[s] # Free /\ cred[s].kind = "session" /\ cred[s].since = "same"
      => LET u == users[cred[s].user] IN u.active /\ u.hash = cred[s].hash

\* A credential is never inherited: although ids of deleted users are given
\* out again, the row a credential names is the person it was issued to, or
\* its request was still in progress when that person was replaced.
CredentialsKeepTheirPerson ==
  \A s \in Slots :
    cred[s] # Free
      => /\ Exists(cred[s].user)
         /\ cred[s].since # "replaced" => users[cred[s].user].person = cred[s].person

\* A token is revoked only as a request of its owner ends: the statement names
\* the caller's id beside the token's (tokens.rs:90-95), so the request and the
\* token have one user id, and belong to one person, with two exceptions.  Both
\* come of an id that was given to another person while a request of the old one
\* was in progress: that request itself may revoke a token of the new person,
\* and a token that such a request has inserted (since) is the new person's.
TokensRevokedByOwner ==
  [][\A s \in Slots :
       (cred[s] # Free /\ ~cred[s].revoked /\ cred'[s] # Free /\ cred'[s].revoked)
         => \E r \in Requests :
              /\ req[r].pc = "act" /\ req'[r] = Idle
              /\ req[r].user = cred[s].user
              /\ \/ req[r].person = cred[s].person
                 \/ users[req[r].user].person # req[r].person
                 \/ cred[s].since = "replaced"]_vars

\* Rows that expired do not pile up: the maintenance loop removes an expired
\* session or LFS credential in the end, however often users log in.
ExpiredRowsGo ==
  \A s \in Slots : s \in Expired({"session", "lfs"}) ~> s \notin Expired({"session", "lfs"})
=============================================================================
