---------------------------- MODULE LoginThrottle ----------------------------
(***************************************************************************)
(* The throttle of password attempts: a map in memory from keys to counted *)
(* failures, shared by POST /session and by HTTP basic authentication.     *)
(* An attempt looks at the key of its login and address, then at the key   *)
(* of its address alone; reads the user and checks the password without    *)
(* the lock of the map; and then counts a failure on both keys, or clears  *)
(* both.  Each of the four accesses takes the lock for itself.             *)
(***************************************************************************)
EXTENDS Naturals, FiniteSets

CONSTANTS
  Attempts,          \* attempts that can be in progress at once
  Logins,            \* login names, in lower case
  Ips,               \* client addresses
  AnyLogin,          \* stands in the key of an address alone
  MaxLoginFailures,  \* auth.max_login_failures
  IpFactor,          \* how many times that an address may fail: 5
  MaxFailureKeys,    \* MAX_FAILURE_KEYS: 10 000
  Lockout            \* auth.lockout_minutes, in ticks of the clock

ASSUME RequestAssumption == IsFiniteSet(Attempts)
ASSUME LoginAssumption == AnyLogin \notin Logins
ASSUME LimitAssumption ==
  /\ {MaxLoginFailures, IpFactor, MaxFailureKeys, Lockout} \subseteq Nat \ {0}

VARIABLES
  failures,  \* per key: failures counted, ticks until they are forgotten
  attempt    \* attempts

throttleVars == <<failures, attempt>>

Keys == (Logins \cup {AnyLogin}) \X Ips

throttle_key(login, ip) == <<login, ip>>

ip_throttle_key(ip) == <<AnyLogin, ip>>

\* check, check_ip: the keys are looked at   verify: user and password
\* fail, fail_ip: a failure is counted       clear, clear_ip: none is left
Pc == {"idle", "check", "check_ip", "verify", "fail", "fail_ip", "clear", "clear_ip"}

Attempt == [pc : Pc, login : Logins, ip : Ips]

\* The entries that retain leaves.
Live == {k \in Keys : failures[k].ttl > 0}

Limit(key) == IF key[1] = AnyLogin THEN MaxLoginFailures * IpFactor ELSE MaxLoginFailures

\* mutant: the limit itself is still allowed.
check_lockoutLate(key) == key \in Live /\ failures[key].n > Limit(key)

check_lockout(key) == key \in Live /\ failures[key].n >= Limit(key)

Forgotten == [n |-> 0, ttl |-> 0]

ThrottleInit ==
  /\ failures = [k \in Keys |-> Forgotten]
  /\ attempt \in [Attempts -> {a \in Attempt : a.pc = "idle"}]

-----------------------------------------------------------------------------
LoginKey(r) == throttle_key(attempt[r].login, attempt[r].ip)
IpKey(r) == ip_throttle_key(attempt[r].ip)

GoOn(r, pc) == attempt' = [attempt EXCEPT ![r].pc = pc]

\* A POST /session, or a request with a password in its Basic header.
Begin(r) ==
  /\ attempt[r].pc = "idle"
  /\ \E login \in Logins, ip \in Ips :
       attempt' = [attempt EXCEPT ![r] = [pc |-> "check", login |-> login, ip |-> ip]]
  /\ UNCHANGED failures

\* mutant: a refused attempt renews the lockout.
CheckRenewing(r) ==
  /\ attempt[r].pc = "check"
  /\ GoOn(r, IF check_lockout(LoginKey(r)) THEN "idle" ELSE "check_ip")
  /\ failures' = [failures EXCEPT ![LoginKey(r)].ttl =
                    IF check_lockout(LoginKey(r)) THEN Lockout ELSE @]

Check(r) ==
  /\ attempt[r].pc = "check"
  /\ GoOn(r, IF check_lockout(LoginKey(r)) THEN "idle" ELSE "check_ip")
  /\ UNCHANGED failures

CheckIp(r) ==
  /\ attempt[r].pc = "check_ip"
  /\ GoOn(r, IF check_lockout(IpKey(r)) THEN "idle" ELSE "verify")
  /\ UNCHANGED failures

\* The user is read and the password checked.  An unknown user, a wrong
\* password and a pool of workers that stays busy all count as a failure; an
\* error of the database ends the attempt.
Verify(r) ==
  /\ attempt[r].pc = "verify"
  /\ \E pc \in {"clear", "fail", "idle"} : GoOn(r, pc)
  /\ UNCHANGED failures

\* What a full map gives up for a new key.
Evictable(key) ==
  IF Cardinality(Live) >= MaxFailureKeys /\ key \notin Live THEN Live ELSE {key}

record_failure(key) ==
  \E evicted \in Evictable(key) :
    failures' = [failures EXCEPT
                   ![evicted] = IF evicted = key THEN @ ELSE Forgotten,
                   ![key] = [n |-> @.n + 1, ttl |-> Lockout]]

Fail(r) ==
  /\ attempt[r].pc = "fail"
  /\ record_failure(LoginKey(r))
  /\ GoOn(r, "fail_ip")

FailIp(r) ==
  /\ attempt[r].pc = "fail_ip"
  /\ record_failure(IpKey(r))
  /\ GoOn(r, "idle")

clear_failures(key) == failures' = [failures EXCEPT ![key] = Forgotten]

Clear(r) ==
  /\ attempt[r].pc = "clear"
  /\ clear_failures(LoginKey(r))
  /\ GoOn(r, "clear_ip")

ClearIp(r) ==
  /\ attempt[r].pc = "clear_ip"
  /\ clear_failures(IpKey(r))
  /\ GoOn(r, "idle")

\* The clock: entries that expire are forgotten by the next access.
Tick ==
  /\ failures' = [k \in Keys |->
       IF failures[k].ttl > 1 THEN [failures[k] EXCEPT !.ttl = @ - 1] ELSE Forgotten]
  /\ UNCHANGED attempt

ThrottleNext ==
  \/ \E r \in Attempts :
       Begin(r) \/ Check(r) \/ CheckIp(r) \/ Verify(r) \/ Fail(r) \/ FailIp(r)
         \/ Clear(r) \/ ClearIp(r)
  \/ Tick

\* Time passes; nothing obliges anybody to attempt, and an attempt may take
\* as long as the pool of workers makes it wait.
ThrottleSpec == ThrottleInit /\ [][ThrottleNext]_throttleVars /\ WF_throttleVars(Tick)

-----------------------------------------------------------------------------
ThrottleTypeOK ==
  /\ failures \in [Keys -> [n : Nat, ttl : 0..Lockout]]
  /\ attempt \in [Attempts -> Attempt]

\* Attempts that have passed the check of a key and may still count on it.
Pending(key) ==
  {r \in Attempts :
     \/ key = LoginKey(r) /\ attempt[r].pc \in {"check_ip", "verify", "fail"}
     \/ key = IpKey(r) /\ attempt[r].pc \in {"verify", "fail", "fail_ip"}}

\* Checking a key and counting on it are two accesses (session.rs:122-153), so
\* attempts in flight together all pass the check: what is counted for a key
\* exceeds its limit by at most the attempts that were in progress besides the
\* last one allowed, however they interleave.  This bounds the counter: an
\* eviction, a success or the end of a lockout starts it again from nothing.
GuessesBounded ==
  \A k \in Keys : failures[k].n <= Limit(k) - 1 + Cardinality(Attempts)

\* The map never holds more than MAX_FAILURE_KEYS entries, whatever names and
\* addresses are tried: a full map gives one up before it takes a new one
\* (session.rs:54-58).
MapBounded == Cardinality(Live) <= MaxFailureKeys

\* A locked key is unlocked in the end even if attempts on it never stop: a
\* refused attempt does not extend the lockout (session.rs:41-44), and those in
\* flight when the lock fell can do so only once each.
LockoutEnds == \A k \in Keys : check_lockout(k) ~> ~check_lockout(k)
=============================================================================
