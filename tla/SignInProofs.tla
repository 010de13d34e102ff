---------------------------- MODULE SignInProofs ----------------------------
(***************************************************************************)
(* What guards the way in: the throttle of password attempts               *)
(* (LoginThrottle) and the worth of a credential (Sessions).               *)
(***************************************************************************)
EXTENDS LoginThrottle, Sessions, FiniteSetTheorems, TLAPS

-----------------------------------------------------------------------------
(***************************************************************************)
(* The bounds of the login throttle for any number of attempts, names and  *)
(* addresses: how many wrong passwords a key can be charged with before it *)
(* locks, and how many keys the map holds.                                 *)
(*                                                                         *)
(* A failure is counted some time after the key was found unlocked.  What  *)
(* stays below the bound at every step is the count together with the      *)
(* attempts that may still add to it: one that passes the check joins them *)
(* only while the count is below the limit, and one that counts leaves.    *)
(***************************************************************************)

Entry == [n : Nat, ttl : 0..Lockout]

ThrottleTypes == failures \in [Keys -> Entry] /\ attempt \in [Attempts -> Attempt]

\* The count of an entry that is not in the map.
ForgottenIsZero == \A k \in Keys : k \notin Live => failures[k].n = 0

Charged(k) == failures[k].n + Cardinality(Pending(k))

Bound(k) == Limit(k) - 1 + Cardinality(Attempts)

Charges == \A k \in Keys : Charged(k) <= Bound(k)

SmallMap == IsFiniteSet(Live) /\ Cardinality(Live) <= MaxFailureKeys

ThrottleInv == ThrottleTypes /\ ForgottenIsZero /\ Charges /\ SmallMap

-----------------------------------------------------------------------------
(* Keys, limits and the attempts that may still count.                      *)

LEMMA KeysOfAttempt ==
  ASSUME ThrottleTypes, NEW r \in Attempts
  PROVE  /\ LoginKey(r) \in Keys /\ IpKey(r) \in Keys /\ LoginKey(r) # IpKey(r)
         /\ attempt[r] \in Attempt
<1>1. attempt[r] \in Attempt
  BY DEF ThrottleTypes
<1>2. attempt[r].login \in Logins /\ attempt[r].ip \in Ips
  BY <1>1 DEF Attempt
<1> QED
  BY <1>1, <1>2, LoginAssumption
     DEF LoginKey, IpKey, throttle_key, ip_throttle_key, Keys

LEMMA LimitIsPositive == \A k \in Keys : Limit(k) \in Nat /\ Limit(k) >= 1
<1>1. MaxLoginFailures \in Nat /\ MaxLoginFailures >= 1 /\ IpFactor \in Nat /\ IpFactor >= 1
  BY LimitAssumption
<1>2. MaxLoginFailures * IpFactor \in Nat /\ MaxLoginFailures * IpFactor >= 1
  <2>1. \A a, b \in Nat : a >= 1 /\ b >= 1 => a * b \in Nat /\ a * b >= 1
    OBVIOUS
  <2> QED
    BY <1>1, <2>1
<1> QED
  BY <1>1, <1>2 DEF Limit

LEMMA PendingIsFinite ==
  ASSUME NEW k
  PROVE  /\ Pending(k) \subseteq Attempts
         /\ IsFiniteSet(Pending(k)) /\ Cardinality(Pending(k)) \in Nat
         /\ Cardinality(Attempts) \in Nat
         /\ Cardinality(Pending(k)) <= Cardinality(Attempts)
<1>1. Pending(k) \subseteq Attempts
  BY DEF Pending
<1> QED
  BY <1>1, RequestAssumption, FS_Subset, FS_CardinalityType

\* A forgotten key is below its bound, and so is one whose count is below the
\* limit, whoever is in flight.
LEMMA BelowLimit ==
  ASSUME NEW k \in Keys, NEW n \in Nat, n <= Limit(k) - 1
  PROVE  n + Cardinality(Pending(k))' <= Bound(k)
<1>1. Cardinality(Pending(k))' \in Nat /\ Cardinality(Pending(k))' <= Cardinality(Attempts)
  <2>1. Pending(k)' \subseteq Attempts
    BY DEF Pending
  <2> QED
    BY <2>1, RequestAssumption, FS_Subset, FS_CardinalityType
<1> QED
  BY <1>1, LimitIsPositive, PendingIsFinite DEF Bound

\* Fewer attempts may count on k, and its count is no larger.
LEMMA NoNewPending ==
  ASSUME ThrottleInv, NEW k \in Keys, Pending(k)' \subseteq Pending(k),
         failures'[k].n \in Nat, failures'[k].n <= failures[k].n
  PROVE  Charged(k)' <= Bound(k)
<1>1. /\ Cardinality(Pending(k)') \in Nat
      /\ Cardinality(Pending(k)') <= Cardinality(Pending(k))
  BY PendingIsFinite, FS_Subset, FS_CardinalityType
<1>2. failures[k].n \in Nat /\ Charged(k) <= Bound(k) /\ Bound(k) \in Int
  BY LimitIsPositive, PendingIsFinite DEF ThrottleInv, ThrottleTypes, Entry, Charges, Bound
<1> QED
  BY <1>1, <1>2, PendingIsFinite DEF Charged

-----------------------------------------------------------------------------
(* Steps of an attempt that leave the map alone.                            *)

LEMMA Moves ==
  ASSUME ThrottleTypes, NEW r \in Attempts, NEW pc \in Pc, GoOn(r, pc)
  PROVE  /\ attempt' \in [Attempts -> Attempt] /\ attempt'[r].pc = pc
         /\ LoginKey(r)' = LoginKey(r) /\ IpKey(r)' = IpKey(r)
         /\ \A p \in Attempts \ {r} : attempt'[p] = attempt[p]
<1>1. attempt \in [Attempts -> Attempt] /\ attempt[r] \in Attempt
  BY DEF ThrottleTypes
<1>2. attempt'[r] = [attempt[r] EXCEPT !.pc = pc] /\ \A p \in Attempts \ {r} : attempt'[p] = attempt[p]
  BY <1>1 DEF GoOn
<1>3. /\ attempt'[r] \in Attempt /\ attempt'[r].pc = pc
      /\ attempt'[r].login = attempt[r].login /\ attempt'[r].ip = attempt[r].ip
  BY <1>1, <1>2 DEF Attempt
<1>4. attempt' \in [Attempts -> Attempt]
  BY <1>1, <1>3 DEF GoOn
<1> QED
  BY <1>2, <1>3, <1>4 DEF LoginKey, IpKey

\* Whoever joins those that may count on a key has seen it unlocked.
LEMMA QuietStep ==
  ASSUME ThrottleInv, UNCHANGED failures, attempt' \in [Attempts -> Attempt],
         \A k \in Keys : Pending(k)' \subseteq Pending(k) \/ ~check_lockout(k)
  PROVE  ThrottleInv'
<1>1. ThrottleTypes' /\ ForgottenIsZero' /\ SmallMap'
  BY DEF ThrottleInv, ThrottleTypes, ForgottenIsZero, SmallMap, Live
<1>2. ASSUME NEW k \in Keys PROVE Charged(k)' <= Bound(k)
  <2>1. failures[k].n \in Nat /\ failures'[k].n = failures[k].n
    BY DEF ThrottleInv, ThrottleTypes, Entry
  <2>2. CASE Pending(k)' \subseteq Pending(k)
    BY <2>1, <2>2, NoNewPending
  <2>3. CASE ~check_lockout(k)
    <3>1. failures[k].n <= Limit(k) - 1
      BY <2>1, <2>3, LimitIsPositive DEF check_lockout, ThrottleInv, ForgottenIsZero
    <3> QED
      BY <2>1, <3>1, BelowLimit DEF Charged
  <2> QED
    BY <1>2, <2>2, <2>3
<1>3. Charges'
  BY <1>2 DEF Charges, Bound, Limit
<1> QED
  BY <1>1, <1>3 DEF ThrottleInv

\* The attempt moves on to a step that is not before its checks.
LEMMA CheckedStep ==
  ASSUME ThrottleInv, NEW r \in Attempts, Check(r) \/ CheckIp(r) \/ Verify(r)
  PROVE  ThrottleInv'
<1>0. ThrottleTypes /\ UNCHANGED failures
  BY DEF ThrottleInv, Check, CheckIp, Verify
<1>1. PICK pc \in Pc :
        /\ GoOn(r, pc)
        /\ \/ pc \in {"idle", "clear"}
           \/ attempt[r].pc = "check" /\ pc = "check_ip" /\ ~check_lockout(LoginKey(r))
           \/ attempt[r].pc = "check_ip" /\ pc = "verify" /\ ~check_lockout(IpKey(r))
           \/ attempt[r].pc = "verify" /\ pc = "fail"
  <2>1. CASE Check(r)
    BY <2>1 DEF Check, Pc
  <2>2. CASE CheckIp(r)
    BY <2>2 DEF CheckIp, Pc
  <2>3. CASE Verify(r)
    BY <2>3 DEF Verify, Pc
  <2> QED
    BY <2>1, <2>2, <2>3
<1>2. /\ attempt' \in [Attempts -> Attempt] /\ attempt'[r].pc = pc
      /\ LoginKey(r)' = LoginKey(r) /\ IpKey(r)' = IpKey(r)
      /\ \A p \in Attempts \ {r} : attempt'[p] = attempt[p]
  BY <1>0, <1>1, Moves
<1>3. ASSUME NEW k \in Keys, check_lockout(k), NEW p \in Pending(k)'
      PROVE  p \in Pending(k)
  <2>1. p \in Attempts
    BY <1>3 DEF Pending
  <2>2. CASE p = r
    BY <1>1, <1>2, <1>3, <2>2 DEF Pending
  <2>3. CASE p # r
    BY <1>2, <1>3, <2>1, <2>3 DEF Pending, LoginKey, IpKey
  <2> QED
    BY <2>2, <2>3
<1> QED
  BY <1>0, <1>2, <1>3, QuietStep

LEMMA BeginStep ==
  ASSUME ThrottleInv, NEW r \in Attempts, Begin(r)
  PROVE  ThrottleInv'
<1>1. PICK login \in Logins, ip \in Ips :
        attempt' = [attempt EXCEPT ![r] = [pc |-> "check", login |-> login, ip |-> ip]]
  BY DEF Begin
<1>2. [pc |-> "check", login |-> login, ip |-> ip] \in Attempt
  BY DEF Attempt, Pc
<1>3. attempt' \in [Attempts -> Attempt] /\ attempt'[r].pc = "check"
      /\ \A p \in Attempts \ {r} : attempt'[p] = attempt[p]
  BY <1>1, <1>2 DEF ThrottleInv, ThrottleTypes
<1>4. \A k \in Keys : Pending(k)' \subseteq Pending(k)
  BY <1>3 DEF Pending, LoginKey, IpKey
<1> QED
  BY <1>3, <1>4, QuietStep DEF Begin

-----------------------------------------------------------------------------
(* Failures are counted and forgotten.                                      *)

LEMMA RecordFacts ==
  ASSUME ThrottleInv, NEW key \in Keys, record_failure(key)
  PROVE  /\ failures' \in [Keys -> Entry]
         /\ failures'[key] = [n |-> failures[key].n + 1, ttl |-> Lockout]
         /\ \A k \in Keys \ {key} : failures'[k] \in {failures[k], Forgotten}
         /\ SmallMap' /\ ForgottenIsZero'
<1>0. failures \in [Keys -> Entry] /\ Lockout \in Nat /\ Lockout > 0
      /\ MaxFailureKeys \in Nat /\ MaxFailureKeys > 0
  BY LimitAssumption DEF ThrottleInv, ThrottleTypes
<1>1. PICK evicted \in Evictable(key) :
        failures' = [failures EXCEPT
                       ![evicted] = IF evicted = key THEN @ ELSE Forgotten,
                       ![key] = [n |-> @.n + 1, ttl |-> Lockout]]
  BY DEF record_failure
<1>2. evicted \in Keys
  BY <1>1 DEF Evictable, Live
<1>3. failures[key] \in Entry /\ failures[key].n \in Nat
  BY <1>0 DEF Entry
<1>4. /\ failures'[key] = [n |-> failures[key].n + 1, ttl |-> Lockout]
      /\ evicted # key => failures'[evicted] = Forgotten
      /\ \A k \in Keys \ {key, evicted} : failures'[k] = failures[k]
      /\ DOMAIN failures' = Keys
  BY <1>0, <1>1, <1>2
<1>5. Forgotten \in Entry /\ Forgotten.n = 0 /\ Forgotten.ttl = 0
  BY <1>0 DEF Forgotten, Entry
<1>6. [n |-> failures[key].n + 1, ttl |-> Lockout] \in Entry
  BY <1>0, <1>3 DEF Entry
<1>7. failures' \in [Keys -> Entry]
  <2>1. \A k \in Keys : failures'[k] \in Entry
    BY <1>0, <1>4, <1>5, <1>6
  <2>2. failures' = [k \in Keys |-> failures'[k]]
    BY <1>0, <1>1
  <2> QED
    BY <2>1, <2>2
<1>8. Live' = IF evicted = key THEN Live \cup {key} ELSE (Live \ {evicted}) \cup {key}
  <2>1. failures'[key].ttl > 0
    BY <1>0, <1>4
  <2>2. \A k \in Keys \ {key} : failures'[k].ttl > 0 <=> k \in Live /\ k # evicted
    BY <1>4, <1>5 DEF Live
  <2> QED
    BY <2>1, <2>2 DEF Live
<1>9. SmallMap'
  <2>1. IsFiniteSet(Live) /\ Cardinality(Live) \in Nat /\ Cardinality(Live) <= MaxFailureKeys
    BY FS_CardinalityType DEF ThrottleInv, SmallMap
  <2>2. CASE evicted # key
    <3>1. evicted \in Live /\ key \notin Live
      BY <1>1, <2>2 DEF Evictable
    <3>2. IsFiniteSet(Live \ {evicted}) /\ Cardinality(Live \ {evicted}) = Cardinality(Live) - 1
      BY <2>1, <3>1, FS_RemoveElement
    <3>3. key \notin Live \ {evicted}
      BY <3>1
    <3>4. IsFiniteSet(Live') /\ Cardinality(Live') = Cardinality(Live \ {evicted}) + 1
      BY <1>8, <2>2, <3>2, <3>3, FS_AddElement
    <3> QED
      BY <2>1, <3>2, <3>4 DEF SmallMap
  <2>3. CASE evicted = key /\ key \in Live
    <3>1. Live' = Live
      BY <1>8, <2>3
    <3> QED
      BY <2>1, <3>1 DEF SmallMap
  <2>4. CASE evicted = key /\ key \notin Live
    <3>1. Cardinality(Live) < MaxFailureKeys
      BY <1>1, <1>0, <2>1, <2>4 DEF Evictable
    <3>2. IsFiniteSet(Live') /\ Cardinality(Live') = Cardinality(Live) + 1
      BY <1>8, <2>1, <2>4, FS_AddElement
    <3> QED
      BY <1>0, <2>1, <3>1, <3>2 DEF SmallMap
  <2> QED
    BY <2>2, <2>3, <2>4
<1>10. ForgottenIsZero'
  BY <1>0, <1>4, <1>5, <1>8 DEF ForgottenIsZero, ThrottleInv
<1> QED
  BY <1>4, <1>7, <1>9, <1>10

\* Attempt r counts on key and may not count on it again.
LEMMA CountStep ==
  ASSUME ThrottleInv, NEW r \in Attempts, NEW key \in Keys, NEW pc \in Pc,
         record_failure(key), GoOn(r, pc), r \in Pending(key),
         \A k \in Keys : Pending(k)' \subseteq Pending(k),
         r \notin Pending(key)'
  PROVE  ThrottleInv'
<1>1. /\ failures' \in [Keys -> Entry]
      /\ failures'[key] = [n |-> failures[key].n + 1, ttl |-> Lockout]
      /\ \A k \in Keys \ {key} : failures'[k] \in {failures[k], Forgotten}
      /\ SmallMap' /\ ForgottenIsZero'
  BY RecordFacts
<1>2. ThrottleTypes'
  BY <1>1, Moves DEF ThrottleInv, ThrottleTypes
<1>3. ASSUME NEW k \in Keys \ {key} PROVE Charged(k)' <= Bound(k)
  <2>1. failures[k].n \in Nat
    BY DEF ThrottleInv, ThrottleTypes, Entry
  <2>2. failures'[k].n \in Nat /\ failures'[k].n <= failures[k].n
    BY <1>1, <2>1 DEF Forgotten
  <2> QED
    BY <2>2, NoNewPending
<1>4. Charged(key)' <= Bound(key)
  <2>1. Pending(key)' \subseteq Pending(key) \ {r}
    OBVIOUS
  <2>2. /\ IsFiniteSet(Pending(key) \ {r})
        /\ Cardinality(Pending(key) \ {r}) = Cardinality(Pending(key)) - 1
    BY PendingIsFinite, FS_RemoveElement
  <2>3. /\ Cardinality(Pending(key)') \in Nat
        /\ Cardinality(Pending(key)') <= Cardinality(Pending(key)) - 1
    BY <2>1, <2>2, FS_Subset, FS_CardinalityType
  <2>4. failures[key].n \in Nat /\ failures'[key].n = failures[key].n + 1
    BY <1>1 DEF ThrottleInv, ThrottleTypes, Entry
  <2>5. Charged(key) <= Bound(key) /\ Bound(key) \in Int /\ Cardinality(Pending(key)) \in Nat
    BY LimitIsPositive, PendingIsFinite DEF ThrottleInv, Charges, Bound
  <2> QED
    BY <2>3, <2>4, <2>5 DEF Charged
<1>5. Charges'
  BY <1>3, <1>4 DEF Charges, Bound, Limit
<1> QED
  BY <1>1, <1>2, <1>5 DEF ThrottleInv

\* What is left of the attempts that may count, when r moves on.
LEMMA Leaves ==
  ASSUME ThrottleTypes, NEW r \in Attempts, NEW pc \in Pc, GoOn(r, pc),
         \/ attempt[r].pc = "fail" /\ pc = "fail_ip"
         \/ attempt[r].pc = "fail_ip" /\ pc = "idle"
         \/ attempt[r].pc = "clear" /\ pc = "clear_ip"
         \/ attempt[r].pc = "clear_ip" /\ pc = "idle"
  PROVE  /\ \A k \in Keys : Pending(k)' \subseteq Pending(k)
         /\ attempt[r].pc = "fail" => r \in Pending(LoginKey(r))
         /\ attempt[r].pc = "fail_ip" => r \in Pending(IpKey(r))
<1>1. /\ attempt' \in [Attempts -> Attempt] /\ attempt'[r].pc = pc
      /\ LoginKey(r)' = LoginKey(r) /\ IpKey(r)' = IpKey(r)
      /\ \A p \in Attempts \ {r} : attempt'[p] = attempt[p]
  BY Moves
<1>2. LoginKey(r) # IpKey(r)
  BY KeysOfAttempt
<1> QED
  BY <1>1, <1>2 DEF Pending, LoginKey, IpKey

LEMMA FailStep ==
  ASSUME ThrottleInv, NEW r \in Attempts, Fail(r) \/ FailIp(r)
  PROVE  ThrottleInv'
<1>0. ThrottleTypes
  BY DEF ThrottleInv
<1>1. CASE Fail(r)
  <2> PICK key \in Keys : key = LoginKey(r)
    BY <1>0, KeysOfAttempt
  <2>1. record_failure(key) /\ GoOn(r, "fail_ip") /\ attempt[r].pc = "fail" /\ "fail_ip" \in Pc
    BY <1>1 DEF Fail, Pc
  <2>2. r \in Pending(key) /\ \A k \in Keys : Pending(k)' \subseteq Pending(k)
    BY <1>0, <2>1, Leaves
  <2>3. r \notin Pending(key)'
    <3>1. attempt'[r].pc = "fail_ip" /\ IpKey(r)' = IpKey(r)
      BY <1>0, <2>1, Moves
    <3> QED
      BY <1>0, <3>1, KeysOfAttempt DEF Pending
  <2> QED
    BY <2>1, <2>2, <2>3, CountStep
<1>2. CASE FailIp(r)
  <2> PICK key \in Keys : key = IpKey(r)
    BY <1>0, KeysOfAttempt
  <2>1. record_failure(key) /\ GoOn(r, "idle") /\ attempt[r].pc = "fail_ip" /\ "idle" \in Pc
    BY <1>2 DEF FailIp, Pc
  <2>2. r \in Pending(key) /\ \A k \in Keys : Pending(k)' \subseteq Pending(k)
    BY <1>0, <2>1, Leaves
  <2>3. r \notin Pending(key)'
    BY <1>0, <2>1, Moves DEF Pending
  <2> QED
    BY <2>1, <2>2, <2>3, CountStep
<1> QED
  BY <1>1, <1>2

\* Entries go and nobody joins.
LEMMA ForgetStep ==
  ASSUME ThrottleInv, attempt' \in [Attempts -> Attempt], failures' \in [Keys -> Entry],
         \A k \in Keys : \/ failures'[k] = Forgotten
                         \/ failures'[k].n = failures[k].n /\ failures'[k].ttl > 0
                            /\ failures[k].ttl > 0
                         \/ failures'[k] = failures[k],
         \A k \in Keys : Pending(k)' \subseteq Pending(k)
  PROVE  ThrottleInv'
<1>0. Forgotten.n = 0 /\ Forgotten.ttl = 0
  BY DEF Forgotten
<1>1. Live' \subseteq Live
  BY <1>0 DEF Live
<1>2. SmallMap'
  <2>1. IsFiniteSet(Live) /\ Cardinality(Live) \in Nat /\ Cardinality(Live) <= MaxFailureKeys
    BY FS_CardinalityType DEF ThrottleInv, SmallMap
  <2>2. IsFiniteSet(Live') /\ Cardinality(Live') \in Nat /\ Cardinality(Live') <= Cardinality(Live)
    BY <1>1, <2>1, FS_Subset, FS_CardinalityType
  <2> QED
    BY <2>1, <2>2, LimitAssumption DEF SmallMap
<1>3. ForgottenIsZero'
  BY <1>0 DEF ThrottleInv, ForgottenIsZero, Live
<1>4. ASSUME NEW k \in Keys PROVE Charged(k)' <= Bound(k)
  <2>1. failures[k].n \in Nat
    BY DEF ThrottleInv, ThrottleTypes, Entry
  <2>2. failures'[k].n \in Nat /\ failures'[k].n <= failures[k].n
    BY <1>0, <2>1
  <2> QED
    BY <2>2, NoNewPending
<1>5. Charges'
  BY <1>4 DEF Charges, Bound, Limit
<1> QED
  BY <1>2, <1>3, <1>5 DEF ThrottleInv, ThrottleTypes

LEMMA ForgottenEntry == Forgotten \in Entry
BY LimitAssumption DEF Forgotten, Entry

LEMMA ClearStep ==
  ASSUME ThrottleInv, NEW r \in Attempts, Clear(r) \/ ClearIp(r)
  PROVE  ThrottleInv'
<1>0. ThrottleTypes /\ failures \in [Keys -> Entry]
  BY DEF ThrottleInv, ThrottleTypes
<1>1. PICK key \in Keys, pc \in Pc :
        /\ clear_failures(key) /\ GoOn(r, pc)
        /\ \/ attempt[r].pc = "clear" /\ pc = "clear_ip"
           \/ attempt[r].pc = "clear_ip" /\ pc = "idle"
  <2>1. LoginKey(r) \in Keys /\ IpKey(r) \in Keys /\ {"clear_ip", "idle"} \subseteq Pc
    BY <1>0, KeysOfAttempt DEF Pc
  <2> QED
    BY <2>1 DEF Clear, ClearIp
<1>2. attempt' \in [Attempts -> Attempt] /\ \A k \in Keys : Pending(k)' \subseteq Pending(k)
  BY <1>0, <1>1, Moves, Leaves
<1>3. /\ failures' \in [Keys -> Entry]
      /\ \A k \in Keys : failures'[k] = Forgotten \/ failures'[k] = failures[k]
  BY <1>0, <1>1, ForgottenEntry DEF clear_failures
<1> QED
  BY <1>2, <1>3, ForgetStep

LEMMA TickStep == ThrottleInv /\ Tick => ThrottleInv'
<1> SUFFICES ASSUME ThrottleInv, Tick PROVE ThrottleInv'
  OBVIOUS
<1>0. failures \in [Keys -> Entry] /\ attempt' \in [Attempts -> Attempt]
  BY DEF ThrottleInv, ThrottleTypes, Tick
<1>1. ASSUME NEW k \in Keys
      PROVE  /\ failures'[k] \in Entry
             /\ \/ failures'[k] = Forgotten
                \/ /\ failures'[k].n = failures[k].n /\ failures'[k].ttl > 0
                   /\ failures[k].ttl > 0
  <2>1. failures[k] \in Entry
    BY <1>0
  <2>2. CASE failures[k].ttl > 1
    <3>1. failures'[k] = [failures[k] EXCEPT !.ttl = @ - 1]
      BY <2>2 DEF Tick
    <3>2. failures[k].ttl \in 0..Lockout /\ Lockout \in Nat
      BY <2>1, LimitAssumption DEF Entry
    <3>3. failures[k].ttl - 1 \in 0..Lockout /\ failures[k].ttl - 1 > 0
      BY <2>2, <3>2
    <3> QED
      BY <2>1, <2>2, <3>1, <3>3 DEF Entry
  <2>3. CASE ~(failures[k].ttl > 1)
    BY <2>3, ForgottenEntry DEF Tick
  <2> QED
    BY <2>2, <2>3
<1>2. failures' \in [Keys -> Entry]
  BY <1>1 DEF Tick
<1>3. \A k \in Keys : Pending(k)' \subseteq Pending(k)
  BY DEF Tick, Pending, LoginKey, IpKey
<1> QED
  BY <1>0, <1>1, <1>2, <1>3, ForgetStep

-----------------------------------------------------------------------------

LEMMA ThrottleStarts == ThrottleInit => ThrottleInv
<1> SUFFICES ASSUME ThrottleInit PROVE ThrottleInv
  OBVIOUS
<1>1. ThrottleTypes
  BY ForgottenEntry DEF ThrottleInit, ThrottleTypes
<1>2. \A k \in Keys : failures[k].n = 0 /\ ~(failures[k].ttl > 0)
  BY DEF ThrottleInit, Forgotten
<1>3. Live = {}
  BY <1>2 DEF Live
<1>4. SmallMap /\ ForgottenIsZero
  BY <1>2, <1>3, FS_EmptySet, LimitAssumption DEF SmallMap, ForgottenIsZero
<1>5. ASSUME NEW k \in Keys PROVE Charged(k) <= Bound(k)
  BY <1>2, LimitIsPositive, PendingIsFinite DEF Charged, Bound
<1> QED
  BY <1>1, <1>4, <1>5 DEF ThrottleInv, Charges

LEMMA ThrottleStep == ThrottleInv /\ [ThrottleNext]_throttleVars => ThrottleInv'
<1> SUFFICES ASSUME ThrottleInv, [ThrottleNext]_throttleVars PROVE ThrottleInv'
  OBVIOUS
<1>1. CASE UNCHANGED throttleVars
  BY <1>1 DEF throttleVars, ThrottleInv, ThrottleTypes, ForgottenIsZero, Charges, Charged,
              Bound, Limit, Pending, LoginKey, IpKey, SmallMap, Live
<1>2. CASE ThrottleNext
  BY <1>2, BeginStep, CheckedStep, FailStep, ClearStep, TickStep DEF ThrottleNext
<1> QED
  BY <1>1, <1>2

LEMMA ThrottleInvariant == ThrottleSpec => []ThrottleInv
BY ThrottleStarts, ThrottleStep, PTL DEF ThrottleSpec

\* Every variable keeps its type.
THEOREM ThrottleTyped == ThrottleSpec => []ThrottleTypeOK
<1>1. ThrottleInv => ThrottleTypeOK
  BY DEF ThrottleInv, ThrottleTypes, Entry, ThrottleTypeOK
<1> QED
  BY <1>1, ThrottleInvariant, PTL

\* However attempts interleave, the failures counted on a key before it locks
\* exceed the limit by at most the attempts in progress besides the last one
\* allowed (check_lockout and record_failure are separate accesses).
THEOREM GuessesAreBounded == ThrottleSpec => []GuessesBounded
<1>1. ThrottleInv => GuessesBounded
  <2> SUFFICES ASSUME ThrottleInv, NEW k \in Keys
               PROVE  failures[k].n <= Limit(k) - 1 + Cardinality(Attempts)
    BY DEF GuessesBounded
  <2>1. failures[k].n \in Nat /\ Charged(k) <= Bound(k)
    BY DEF ThrottleInv, ThrottleTypes, Entry, Charges
  <2> QED
    BY <2>1, LimitIsPositive, PendingIsFinite DEF Charged, Bound
<1> QED
  BY <1>1, ThrottleInvariant, PTL

\* The map keeps to MAX_FAILURE_KEYS entries whatever names and addresses are
\* tried (record_failure evicts before it inserts).
THEOREM MapIsBounded == ThrottleSpec => []MapBounded
<1>1. ThrottleInv => MapBounded
  BY DEF ThrottleInv, SmallMap, MapBounded
<1> QED
  BY <1>1, ThrottleInvariant, PTL

-----------------------------------------------------------------------------
(***************************************************************************)
(* What a credential row is worth, for any number of requests, users, rows *)
(* and passwords: a session is never good for a password or a state the    *)
(* account no longer has, and no credential passes to a later user of a    *)
(* deleted user's id; the one exception of each is a login, or a request,  *)
(* that was under way when the row changed.                                *)
(***************************************************************************)

Maybe == 0..MaxHash

\* What must hold of a credential c while the users are us.
Good(c, us) ==
  c # Free =>
    /\ us[c.user] # Nobody
    /\ c.since # "replaced" => us[c.user].person = c.person
    /\ c.kind = "session" /\ c.since = "same" =>
         us[c.user].active /\ us[c.user].hash = c.hash

\* A request that has found somebody knows who that was.
Known(q) == q.pc # "idle" => q.person \in Hashes

SessInv ==
  /\ TypeOK
  /\ \A r \in Requests : Known(req[r])
  /\ \A s \in Slots : Good(cred[s], users)

-----------------------------------------------------------------------------
(* The rows of the model, field by field.                                   *)

LEMMA Numbers ==
  /\ Hashes \subseteq Maybe /\ 0 \in Maybe /\ 0 \notin Hashes /\ 1 \in Hashes
  /\ Root \in Ids /\ 1 \in Ids
  /\ \A h \in Hashes : h < MaxHash => h + 1 \in Hashes
BY BoundAssumption DEF Hashes, Maybe, Root, Ids

LEMMA UserRows ==
  /\ \A u \in User : u.hash \in Hashes /\ u.active \in BOOLEAN /\ u.person \in Hashes
  /\ \A h, p \in Hashes, a \in BOOLEAN : [hash |-> h, active |-> a, person |-> p] \in User
  /\ \A u \in User, h \in Hashes : [u EXCEPT !.hash = h] \in User
  /\ \A u \in User, h \in Hashes, a \in BOOLEAN : [u EXCEPT !.active = a, !.hash = h] \in User
  /\ Nobody \notin User /\ ~Nobody.active
<1>1. Nobody.hash = 0 /\ Nobody.active = FALSE
  BY DEF Nobody
<1> QED
  BY <1>1, Numbers DEF User

LEMMA CredentialRows ==
  /\ \A c \in Credential :
       /\ c.kind \in Kinds /\ c.user \in Ids /\ c.person \in Hashes /\ c.hash \in Maybe
       /\ [c EXCEPT !.revoked = TRUE] \in Credential
       /\ [c EXCEPT !.expired = TRUE] \in Credential
  /\ \A k \in Kinds, u \in Ids, p \in Hashes, h \in Maybe, w \in {"same", "changed", "replaced"} :
       [kind |-> k, user |-> u, expired |-> FALSE, revoked |-> FALSE,
        person |-> p, hash |-> h, since |-> w] \in Credential
<1>1. Credential = [kind : Kinds, user : Ids, expired : BOOLEAN, revoked : BOOLEAN,
                    person : Hashes, hash : Maybe, since : {"same", "changed", "replaced"}]
  BY DEF Credential, Maybe
<1> QED
  BY <1>1

Stages == {"idle", "read", "act", "login", "shell"}

LEMMA RequestRows ==
  /\ \A q \in Request : q.pc \in Stages /\ q.user \in Ids /\ q.person \in Maybe /\ q.hash \in Maybe
  /\ \A c \in Stages, u \in Ids, p, h \in Maybe :
       [pc |-> c, user |-> u, person |-> p, hash |-> h] \in Request
<1>1. Request = [pc : Stages, user : Ids, person : Maybe, hash : Maybe]
  BY DEF Request, Maybe, Stages
<1> QED
  BY <1>1

LEMMA IdleRequest == Idle \in Request /\ Known(Idle) /\ Idle.pc = "idle"
BY RequestRows, Numbers DEF Idle, Known, Stages

LEMMA FoundRequest ==
  ASSUME NEW u \in Ids, NEW p \in Hashes
  PROVE  /\ [Idle EXCEPT !.pc = "read", !.user = u, !.person = p] \in Request
         /\ Known([Idle EXCEPT !.pc = "read", !.user = u, !.person = p])
<1>1. Request = [pc : Stages, user : Ids, person : Maybe, hash : Maybe]
  BY DEF Request, Maybe, Stages
<1>2. Idle \in [pc : Stages, user : Ids, person : Maybe, hash : Maybe]
  BY <1>1, IdleRequest
<1>3. p \in Maybe /\ "read" \in Stages
  BY Numbers DEF Stages
<1>4. [Idle EXCEPT !.pc = "read", !.user = u, !.person = p] \in Request
  BY <1>1, <1>2, <1>3
<1>5. [Idle EXCEPT !.pc = "read", !.user = u, !.person = p].person = p
  BY <1>2
<1> QED
  BY <1>4, <1>5 DEF Known

\* Revoking or expiring a credential does not change what it is good for.
LEMMA MarkedIsGood ==
  ASSUME NEW c \in Credential, NEW us, Good(c, us), c # Free,
         NEW d, d = [c EXCEPT !.revoked = TRUE] \/ d = [c EXCEPT !.expired = TRUE]
  PROVE  Good(d, us)
<1>1. d.user = c.user /\ d.since = c.since /\ d.person = c.person /\ d.kind = c.kind
      /\ d.hash = c.hash
  BY DEF Credential
<1> QED
  BY <1>1 DEF Good

LEMMA Typed ==
  ASSUME SessInv
  PROVE  /\ users \in [Ids -> User \cup {Nobody}] /\ hashes \in Hashes
         /\ cred \in [Slots -> Credential \cup {Free}] /\ req \in [Requests -> Request]
         /\ \A s \in Slots : cred[s] # Free => cred[s] \in Credential
         /\ \A u \in Ids : Exists(u) => users[u] \in User
BY DEF SessInv, TypeOK, Exists

-----------------------------------------------------------------------------
(* Steps of a request.                                                      *)

\* What a step of r has to respect.
LEMMA Frame ==
  ASSUME SessInv, NEW r \in Requests, NEW q \in Request, req' = [req EXCEPT ![r] = q], Known(q),
         users' \in [Ids -> User \cup {Nobody}], hashes' \in Hashes,
         cred' \in [Slots -> Credential \cup {Free}],
         \A s \in Slots : Good(cred'[s], users')
  PROVE  SessInv'
<1>1. TypeOK'
  BY Typed DEF TypeOK
<1>2. \A p \in Requests : Known(req'[p])
  BY Typed DEF SessInv
<1> QED
  BY <1>1, <1>2 DEF SessInv, Known

\* It only looks.
LEMMA LookStep ==
  ASSUME SessInv, NEW r \in Requests,
         (\E s \in Slots : Present(r, s)) \/ ReadUser(r) \/ Identify(r) \/ Finish(r)
  PROVE  SessInv'
<1>1. UNCHANGED <<users, hashes, cred>>
  BY DEF Present, ReadUser, Identify, Finish
<1>2. ASSUME NEW q \in Request, req' = [req EXCEPT ![r] = q], Known(q) PROVE SessInv'
  BY <1>1, <1>2, Frame, Typed DEF SessInv
<1>3. CASE \E s \in Slots : Present(r, s)
  <2>1. PICK s \in Slots :
          /\ Found(cred[s])
          /\ req' = [req EXCEPT ![r] = [Idle EXCEPT !.pc = "read", !.user = cred[s].user,
                                                    !.person = cred[s].person]]
    BY <1>3 DEF Present, Goto
  <2>2. cred[s].user \in Ids /\ cred[s].person \in Hashes
    BY <2>1, Typed, CredentialRows DEF Found
  <2> QED
    BY <1>2, <2>1, <2>2, FoundRequest
<1>4. CASE ReadUser(r)
  <2>1. CASE users[req[r].user].active
    <3> DEFINE q == [req[r] EXCEPT !.pc = "act"]
    <3>1. req[r] \in Request /\ req[r].pc = "read" /\ req' = [req EXCEPT ![r] = q]
      BY <1>4, <2>1, Typed DEF ReadUser, Goto
    <3>2. q \in Request /\ q.person = req[r].person
      BY <3>1 DEF Request
    <3>3. Known(q)
      BY <3>1, <3>2 DEF SessInv, Known
    <3> QED
      BY <1>2, <3>1, <3>2, <3>3
  <2>2. CASE ~users[req[r].user].active
    <3>1. req' = [req EXCEPT ![r] = Idle]
      BY <1>4, <2>2 DEF ReadUser, Goto
    <3> QED
      BY <1>2, <3>1, IdleRequest
  <2> QED
    BY <2>1, <2>2
<1>5. CASE Identify(r)
  <2>1. PICK u \in Ids, pc \in {"login", "act", "shell"} :
          users[u].active /\ req' = [req EXCEPT ![r] = As(pc, u)]
    BY <1>5 DEF Identify, Goto
  <2>2. users[u] \in User
    BY <2>1, Typed, UserRows
  <2>3. PICK h \in Maybe : h = (IF pc = "login" THEN users[u].hash ELSE 0)
    BY <2>2, UserRows, Numbers
  <2>4. As(pc, u) = [pc |-> pc, user |-> u, person |-> users[u].person, hash |-> h]
    BY <2>3 DEF As
  <2>5. users[u].person \in Hashes /\ users[u].person \in Maybe
    BY <2>2, UserRows, Numbers
  <2>6. As(pc, u) \in Request /\ Known(As(pc, u))
    BY <2>4, <2>5, RequestRows DEF Known, Stages
  <2> QED
    BY <1>2, <2>1, <2>6
<1>6. CASE Finish(r)
  <2>1. req' = [req EXCEPT ![r] = Idle]
    BY <1>6 DEF Finish, Goto
  <2> QED
    BY <1>2, <2>1, IdleRequest
<1> QED
  BY <1>3, <1>4, <1>5, <1>6

\* A credential that is inserted is good for the user its request read, or
\* says that this user is no longer the same.
LEMMA InsertStep ==
  ASSUME SessInv, NEW r \in Requests, CreateSession(r) \/ IssueLfs(r) \/ CreateToken(r)
  PROVE  SessInv'
<1>1. PICK kind \in Kinds :
        /\ Insert(r, kind) /\ req[r].pc # "idle"
        /\ kind = "session" => req[r].pc = "login"
  BY DEF CreateSession, IssueLfs, CreateToken, Kinds
<1>2. req' = [req EXCEPT ![r] = Idle] /\ UNCHANGED <<users, hashes>>
  BY <1>1 DEF Insert, Goto
<1>3. CASE ~Exists(req[r].user)
  <2>1. UNCHANGED cred
    BY <1>1, <1>3 DEF Insert
  <2> QED
    BY <1>2, <2>1, IdleRequest, Frame, Typed DEF SessInv
<1>4. CASE Exists(req[r].user)
  <2>1. PICK s \in Slots : cred' = [cred EXCEPT ![s] = NewCredential(r, kind)]
    BY <1>1, <1>4 DEF Insert
  <2> DEFINE c == NewCredential(r, kind)
             now == users[req[r].user]
  <2>2. PICK u \in Ids, p \in Hashes, h \in Maybe :
          u = req[r].user /\ p = req[r].person /\ h = req[r].hash
    BY <1>1, Typed, RequestRows DEF SessInv, Known
  <2>3. PICK w \in {"same", "changed", "replaced"} : w = Since(r)
    BY DEF Since
  <2>4. c = [kind |-> kind, user |-> u, expired |-> FALSE, revoked |-> FALSE,
             person |-> p, hash |-> h, since |-> w]
    BY <2>2, <2>3 DEF NewCredential
  <2>5. c \in Credential
    <3>1. [kind |-> kind, user |-> u, expired |-> FALSE, revoked |-> FALSE,
           person |-> p, hash |-> h, since |-> w] \in Credential
      BY CredentialRows
    <3> QED
      BY <2>4, <3>1
  <2>6. /\ c.user = req[r].user /\ c.person = req[r].person /\ c.hash = req[r].hash
        /\ c.kind = kind /\ c.since = Since(r)
    BY <2>2, <2>3, <2>4
  <2>7. Since(r) # "replaced" => now.person = req[r].person
    BY DEF Since
  <2>8. Since(r) = "same" /\ req[r].pc = "login" => now.active /\ now.hash = req[r].hash
    BY DEF Since
  <2>9. Good(c, users)
    BY <1>1, <1>4, <2>6, <2>7, <2>8 DEF Good, Exists
  <2> HIDE DEF c
  <2>10. cred' \in [Slots -> Credential \cup {Free}]
    BY <2>1, <2>5, Typed DEF c
  <2>11. \A t \in Slots : cred'[t] = c \/ cred'[t] = cred[t]
    BY <2>1, Typed DEF c
  <2>12. \A t \in Slots : Good(cred'[t], users)
    BY <2>9, <2>11 DEF SessInv
  <2> QED
    BY <1>2, <2>10, <2>12, IdleRequest, Frame, Typed
<1> QED
  BY <1>3, <1>4

-----------------------------------------------------------------------------
(* Steps that change users or end credentials.                              *)

LEMMA Dropped ==
  ASSUME SessInv, NEW gone, Drop(gone)
  PROVE  /\ cred' \in [Slots -> Credential \cup {Free}]
         /\ \A s \in Slots : cred'[s] = Free \/ (s \notin gone /\ cred'[s] = cred[s])
BY Typed DEF Drop

LEMMA FreeIsGood == ASSUME NEW us PROVE Good(Free, us)
BY DEF Good

\* The row of user u becomes another row of the same person; sessions that
\* stay must find the same password and no less active a user.
LEMMA StaysGood ==
  ASSUME SessInv, NEW u \in Ids, NEW row \in User, users' = [users EXCEPT ![u] = row],
         NEW s \in Slots,
         cred[s] # Free /\ cred[s].user = u =>
           /\ row.person = users[u].person
           /\ cred[s].kind = "session" =>
                (users[u].active => row.active) /\ row.hash = users[u].hash
  PROVE  Good(cred[s], users')
<1> SUFFICES ASSUME cred[s] # Free PROVE Good(cred[s], users')
  BY DEF Good
<1>1. Good(cred[s], users) /\ cred[s].user \in Ids /\ row # Nobody
  BY Typed, CredentialRows, UserRows DEF SessInv
<1>2. users'[u] = row /\ \A v \in Ids \ {u} : users'[v] = users[v]
  BY Typed
<1> QED
  BY <1>1, <1>2 DEF Good

\* Requests stay as they are.
LEMMA OtherFrame ==
  ASSUME SessInv, UNCHANGED req,
         users' \in [Ids -> User \cup {Nobody}], hashes' \in Hashes,
         cred' \in [Slots -> Credential \cup {Free}],
         \A s \in Slots : Good(cred'[s], users')
  PROVE  SessInv'
BY DEF SessInv, TypeOK, Known

\* A change of password ends the sessions of that user in the same step.
LEMMA PasswordStep ==
  ASSUME SessInv, NEW r \in Requests, ChangePassword(r)
  PROVE  SessInv'
<1> PICK u \in Ids : u = req[r].user
  BY Typed, RequestRows
<1>1. /\ req' = [req EXCEPT ![r] = Idle] /\ hashes' = hashes + 1 /\ hashes < MaxHash
      /\ users' = (IF Exists(u) THEN SetHash(u) ELSE users)
      /\ Drop(SlotsOf(u, {"session"}))
  BY DEF ChangePassword, Goto
<1>2. hashes' \in Hashes
  BY <1>1, Typed, Numbers
<1>3. /\ cred' \in [Slots -> Credential \cup {Free}]
      /\ \A s \in Slots :
           cred'[s] = Free \/ (s \notin SlotsOf(u, {"session"}) /\ cred'[s] = cred[s])
  BY <1>1, Dropped
<1>4. CASE ~Exists(u)
  <2>1. \A s \in Slots : Good(cred'[s], users')
    BY <1>1, <1>3, <1>4, FreeIsGood DEF SessInv
  <2> QED
    BY <1>1, <1>2, <1>3, <1>4, <2>1, IdleRequest, Frame, Typed
<1>5. CASE Exists(u)
  <2> PICK row : row = [users[u] EXCEPT !.hash = hashes + 1]
    OBVIOUS
  <2>1. users[u] \in User /\ hashes + 1 \in Hashes
    BY <1>1, <1>2, <1>5, Typed
  <2>2. row \in User /\ row.person = users[u].person
    BY <2>1, UserRows DEF User
  <2>3. users' = [users EXCEPT ![u] = row]
    BY <1>1, <1>5 DEF SetHash
  <2>4. ASSUME NEW s \in Slots PROVE Good(cred'[s], users')
    <3>1. CASE cred'[s] = Free
      BY <3>1, FreeIsGood
    <3>2. CASE cred'[s] # Free
      <4>1. s \notin SlotsOf(u, {"session"}) /\ cred'[s] = cred[s]
        BY <1>3, <3>2
      <4>2. ~(cred[s] # Free /\ cred[s].user = u /\ cred[s].kind = "session")
        BY <4>1 DEF SlotsOf
      <4> QED
        BY <2>2, <2>3, <4>1, <4>2, StaysGood
    <3> QED
      BY <3>1, <3>2
  <2>5. users' \in [Ids -> User \cup {Nobody}]
    BY <2>2, <2>3, Typed
  <2> QED
    BY <1>1, <1>2, <1>3, <2>4, <2>5, IdleRequest, Frame
<1> QED
  BY <1>4, <1>5

\* A credential that is revoked or expires is good for the same.
LEMMA MarkStep ==
  ASSUME SessInv, NEW s \in Slots, cred[s] # Free, UNCHANGED <<users, hashes>>,
         \/ cred' = [cred EXCEPT ![s].revoked = TRUE]
         \/ cred' = [cred EXCEPT ![s].expired = TRUE],
         req' = req \/ \E r \in Requests : req' = [req EXCEPT ![r] = Idle]
  PROVE  SessInv'
<1> PICK d : /\ \/ d = [cred[s] EXCEPT !.revoked = TRUE]
                \/ d = [cred[s] EXCEPT !.expired = TRUE]
             /\ cred' = [cred EXCEPT ![s] = d]
  OBVIOUS
<1>1. cred[s] \in Credential /\ Good(cred[s], users)
  BY Typed DEF SessInv
<1>2. d \in Credential /\ Good(d, users)
  BY <1>1, CredentialRows, MarkedIsGood
<1>3. cred' \in [Slots -> Credential \cup {Free}] /\ \A t \in Slots : Good(cred'[t], users)
  BY <1>2, Typed DEF SessInv
<1> QED
  BY <1>3, IdleRequest, Frame, OtherFrame, Typed

LEMMA RevokeStep ==
  ASSUME SessInv, NEW r \in Requests, Revoke(r)
  PROVE  SessInv'
<1>1. req' = [req EXCEPT ![r] = Idle] /\ UNCHANGED <<users, hashes>>
  BY DEF Revoke, Goto
<1>2. CASE UNCHANGED cred
  BY <1>1, <1>2, IdleRequest, Frame, Typed DEF SessInv
<1>3. CASE ~UNCHANGED cred
  <2>1. PICK s \in SlotsOf(req[r].user, {"token"}) : cred' = [cred EXCEPT ![s].revoked = TRUE]
    BY <1>3 DEF Revoke
  <2>2. s \in Slots /\ cred[s] # Free
    BY <2>1 DEF SlotsOf
  <2> QED
    BY <1>1, <2>1, <2>2, MarkStep
<1> QED
  BY <1>2, <1>3

\* Only credentials end.
LEMMA EndStep ==
  ASSUME SessInv, NEW gone, Drop(gone), UNCHANGED <<users, hashes, req>>
  PROVE  SessInv'
<1>1. \A s \in Slots : Good(cred'[s], users')
  BY Dropped, FreeIsGood DEF SessInv
<1> QED
  BY <1>1, Dropped, OtherFrame, Typed

LEMMA CreateUserStep ==
  ASSUME SessInv, NEW u \in Ids, CreateUser(u)
  PROVE  SessInv'
<1> PICK row : row = [hash |-> hashes + 1, active |-> TRUE, person |-> hashes + 1]
  OBVIOUS
<1>1. users' = [users EXCEPT ![u] = row] /\ hashes' = hashes + 1 /\ UNCHANGED <<cred, req>>
  BY DEF CreateUser
<1>2. hashes' \in Hashes
  BY <1>1, Typed, Numbers DEF CreateUser
<1>3. row \in User
  BY <1>1, <1>2, UserRows
<1>4. ~Exists(u)
  BY DEF CreateUser, NextId, Ids
<1>5. \A s \in Slots : cred[s] # Free => cred[s].user # u
  BY <1>4 DEF SessInv, Good, Exists
<1>6. \A s \in Slots : Good(cred'[s], users')
  BY <1>1, <1>3, <1>5, StaysGood
<1>7. users' \in [Ids -> User \cup {Nobody}] /\ cred' \in [Slots -> Credential \cup {Free}]
  BY <1>1, <1>3, Typed
<1> QED
  BY <1>1, <1>2, <1>6, <1>7, OtherFrame

\* A password that is reset, or a user who is blocked, has no sessions left.
LEMMA UpdateUserStep ==
  ASSUME SessInv, NEW u \in Ids, UpdateUser(u)
  PROVE  SessInv'
<1>1. PICK p \in Patch :
        /\ p.reset => hashes < MaxHash
        /\ users' = [users EXCEPT ![u] = Patched(@, p)]
        /\ hashes' = IF p.reset THEN hashes + 1 ELSE hashes
        /\ IF p.state = "blocked" \/ p.reset
           THEN Drop(SlotsOf(u, {"session"}))
           ELSE UNCHANGED cred
  BY DEF UpdateUser
<1>2. UNCHANGED req /\ Exists(u)
  BY DEF UpdateUser
<1>3. users[u] \in User /\ p.state \in {"none", "active", "blocked"} /\ p.reset \in BOOLEAN
  BY <1>2, Typed DEF Patch
<1>4. hashes' \in Hashes
  BY <1>1, Typed, Numbers
<1>5. PICK row \in User :
        /\ users' = [users EXCEPT ![u] = row]
        /\ row.person = users[u].person
        /\ p.state # "blocked" => (users[u].active => row.active)
        /\ ~p.reset => row.hash = users[u].hash
  <2> DEFINE a == IF p.state = "none" THEN users[u].active ELSE p.state = "active"
             h == IF p.reset THEN hashes + 1 ELSE users[u].hash
             row == [users[u] EXCEPT !.active = a, !.hash = h]
  <2>1. a \in BOOLEAN /\ h \in Hashes
    BY <1>1, <1>3, <1>4, UserRows
  <2>2. users' = [users EXCEPT ![u] = row]
    BY <1>1 DEF Patched
  <2>3. /\ p.state # "blocked" => (users[u].active => a)
        /\ ~p.reset => h = users[u].hash
    BY <1>3
  <2> HIDE DEF a, h
  <2>4. row \in User /\ row.person = users[u].person /\ row.hash = h /\ row.active = a
    BY <1>3, <2>1, UserRows DEF User
  <2> HIDE DEF row
  <2> QED
    BY <2>2, <2>3, <2>4
<1>7. /\ cred' \in [Slots -> Credential \cup {Free}]
      /\ \A s \in Slots :
           \/ cred'[s] = Free
           \/ cred'[s] = cred[s] /\ (p.state = "blocked" \/ p.reset
                                     => s \notin SlotsOf(u, {"session"}))
  <2>1. CASE p.state = "blocked" \/ p.reset
    BY <1>1, <2>1, Dropped
  <2>2. CASE ~(p.state = "blocked" \/ p.reset)
    BY <1>1, <2>2, Typed
  <2> QED
    BY <2>1, <2>2
<1>8. ASSUME NEW s \in Slots PROVE Good(cred'[s], users')
  <2>1. CASE cred'[s] = Free
    BY <2>1, FreeIsGood
  <2>2. CASE cred'[s] # Free
    <3>1. /\ cred'[s] = cred[s]
          /\ p.state = "blocked" \/ p.reset => s \notin SlotsOf(u, {"session"})
      BY <1>7, <2>2
    <3>2. cred[s] # Free /\ cred[s].user = u /\ cred[s].kind = "session"
             => p.state # "blocked" /\ ~p.reset
      BY <3>1 DEF SlotsOf
    <3>3. cred[s] # Free /\ cred[s].user = u =>
            /\ row.person = users[u].person
            /\ cred[s].kind = "session" =>
                 (users[u].active => row.active) /\ row.hash = users[u].hash
      BY <1>5, <3>2
    <3>4. Good(cred[s], users')
      BY <1>5, <3>3, StaysGood
    <3> QED
      BY <3>1, <3>4
  <2> QED
    BY <2>1, <2>2
<1>9. users' \in [Ids -> User \cup {Nobody}]
  BY <1>5, Typed
<1> QED
  BY <1>2, <1>4, <1>7, <1>8, <1>9, OtherFrame

\* The foreign keys leave no credential of a user who is gone.
LEMMA DeleteUserStep ==
  ASSUME SessInv, NEW u \in Ids, DeleteUser(u)
  PROVE  SessInv'
<1>1. /\ users' = [users EXCEPT ![u] = Nobody] /\ Drop(SlotsOf(u, Kinds))
      /\ UNCHANGED <<hashes, req>>
  BY DEF DeleteUser
<1>2. ASSUME NEW s \in Slots PROVE Good(cred'[s], users')
  <2>1. CASE cred'[s] = Free
    BY <2>1, FreeIsGood
  <2>2. CASE cred'[s] # Free
    <3>1. s \notin SlotsOf(u, Kinds) /\ cred'[s] = cred[s]
      BY <1>1, <2>2, Dropped
    <3>2. cred[s] # Free /\ cred[s].kind \in Kinds /\ cred[s].user \in Ids
      BY <2>2, <3>1, Typed, CredentialRows
    <3>3. cred[s].user # u
      BY <3>1, <3>2 DEF SlotsOf
    <3>4. users'[cred[s].user] = users[cred[s].user]
      BY <1>1, <3>2, <3>3, Typed
    <3> QED
      BY <3>1, <3>4 DEF SessInv, Good
  <2> QED
    BY <2>1, <2>2
<1>3. users' \in [Ids -> User \cup {Nobody}]
  BY <1>1, Typed
<1> QED
  BY <1>1, <1>2, <1>3, Dropped, OtherFrame, Typed

-----------------------------------------------------------------------------

LEMMA SessInit == Init => SessInv
<1> SUFFICES ASSUME Init PROVE SessInv
  OBVIOUS
<1>1. [hash |-> 1, active |-> TRUE, person |-> 1] \in User
  BY UserRows, Numbers
<1>2. TypeOK
  BY <1>1, IdleRequest, Numbers DEF Init, TypeOK
<1>3. \A r \in Requests : Known(req[r])
  BY IdleRequest DEF Init
<1>4. \A s \in Slots : Good(cred[s], users)
  BY FreeIsGood DEF Init
<1> QED
  BY <1>2, <1>3, <1>4 DEF SessInv

LEMMA SessStep == SessInv /\ [Next]_vars => SessInv'
<1> SUFFICES ASSUME SessInv, [Next]_vars PROVE SessInv'
  OBVIOUS
<1>1. CASE UNCHANGED vars
  BY <1>1 DEF vars, SessInv, TypeOK, Known
<1>2. ASSUME NEW r \in Requests,
             \/ \E s \in Slots : Present(r, s)
             \/ ReadUser(r) \/ Identify(r) \/ Finish(r) \/ CreateSession(r)
             \/ IssueLfs(r) \/ CreateToken(r) \/ ChangePassword(r) \/ Revoke(r)
      PROVE  SessInv'
  BY <1>2, LookStep, InsertStep, PasswordStep, RevokeStep
<1>3. CASE Logout
  BY <1>3, EndStep DEF Logout
<1>4. ASSUME NEW u \in Ids, CreateUser(u) \/ UpdateUser(u) \/ DeleteUser(u)
      PROVE  SessInv'
  BY <1>4, CreateUserStep, UpdateUserStep, DeleteUserStep
<1>5. ASSUME NEW s \in Slots, Expire(s) PROVE SessInv'
  BY <1>5, MarkStep DEF Expire
<1>6. CASE PurgeSessions \/ PurgeLfs
  BY <1>6, EndStep DEF PurgeSessions, PurgeLfs
<1> QED
  BY <1>1, <1>2, <1>3, <1>4, <1>5, <1>6 DEF Next

LEMMA SessInvariant == Spec => []SessInv
BY SessInit, SessStep, PTL DEF Spec

\* Every variable keeps its type.
THEOREM SessionsTyped == Spec => []TypeOK
<1>1. SessInv => TypeOK
  BY DEF SessInv
<1> QED
  BY <1>1, SessInvariant, PTL

\* Whatever requests interleave, a session is good for the current password of
\* an active user, unless that user's row changed while the login was under way
\* (change_password, update_user).
THEOREM SessionsStayCurrent == Spec => []SessionsAreCurrent
<1>1. SessInv => SessionsAreCurrent
  BY DEF SessInv, Good, SessionsAreCurrent
<1> QED
  BY <1>1, SessInvariant, PTL

\* A credential is never inherited with a reused user id, unless its request
\* was still in progress when the person was replaced (delete_user and the
\* foreign keys of its tables).
THEOREM CredentialsStayPersonal == Spec => []CredentialsKeepTheirPerson
<1>1. SessInv => CredentialsKeepTheirPerson
  BY DEF SessInv, Good, Exists, CredentialsKeepTheirPerson
<1> QED
  BY <1>1, SessInvariant, PTL

-----------------------------------------------------------------------------
(* Who revokes a token.                                                     *)

Revoked(s) == cred[s] # Free /\ ~cred[s].revoked /\ cred'[s] # Free /\ cred'[s].revoked

OwnerActs(s) ==
  \E r \in Requests :
    /\ req[r].pc = "act" /\ req'[r] = Idle
    /\ req[r].user = cred[s].user
    /\ \/ req[r].person = cred[s].person
       \/ users[req[r].user].person # req[r].person
       \/ cred[s].since = "replaced"

\* What a step that revokes nothing may do to a row.
NotRevoked(s) ==
  \/ cred[s] = Free \/ cred'[s] = Free \/ cred'[s] = cred[s]
  \/ cred[s] \in Credential /\ cred'[s] = [cred[s] EXCEPT !.expired = TRUE]

LEMMA DropRevokesNothing ==
  ASSUME SessInv, NEW gone, Drop(gone), NEW s \in Slots
  PROVE  NotRevoked(s)
BY Dropped DEF NotRevoked

LEMMA OthersRevokeNothing ==
  ASSUME SessInv, [Next]_vars, \A r \in Requests : ~Revoke(r), NEW s \in Slots
  PROVE  NotRevoked(s)
<1>1. CASE UNCHANGED cred
  BY <1>1 DEF NotRevoked
<1>2. ASSUME NEW r \in Requests, NEW kind, Insert(r, kind) PROVE NotRevoked(s)
  <2>1. CASE Exists(req[r].user)
    <3>1. PICK t \in Slots : cred[t] = Free /\ cred' = [cred EXCEPT ![t] = NewCredential(r, kind)]
      BY <1>2, <2>1 DEF Insert
    <3> QED
      BY <3>1, Typed DEF NotRevoked
  <2>2. CASE ~Exists(req[r].user)
    BY <1>1, <1>2, <2>2 DEF Insert
  <2> QED
    BY <2>1, <2>2
<1>3. ASSUME NEW r \in Requests, ChangePassword(r) PROVE NotRevoked(s)
  BY <1>3, DropRevokesNothing DEF ChangePassword
<1>4. CASE Logout \/ PurgeSessions \/ PurgeLfs
  BY <1>4, DropRevokesNothing DEF Logout, PurgeSessions, PurgeLfs
<1>5. ASSUME NEW u \in Ids, UpdateUser(u) \/ DeleteUser(u) PROVE NotRevoked(s)
  BY <1>1, <1>5, DropRevokesNothing DEF UpdateUser, DeleteUser
<1>6. ASSUME NEW t \in Slots, Expire(t) PROVE NotRevoked(s)
  <2>1. cred[t] # Free /\ cred' = [cred EXCEPT ![t].expired = TRUE]
    BY <1>6 DEF Expire
  <2>2. cred[t] \in Credential /\ cred' = [cred EXCEPT ![t] = [cred[t] EXCEPT !.expired = TRUE]]
    BY <2>1, Typed
  <2>3. CASE s = t
    BY <2>2, <2>3, Typed DEF NotRevoked
  <2>4. CASE s # t
    BY <2>2, <2>4, Typed DEF NotRevoked
  <2> QED
    BY <2>3, <2>4
<1>7. CASE Next
  <2>1. ASSUME NEW r \in Requests,
               \/ \E t \in Slots : Present(r, t)
               \/ ReadUser(r) \/ Identify(r) \/ Finish(r) \/ CreateSession(r)
               \/ IssueLfs(r) \/ CreateToken(r) \/ ChangePassword(r)
        PROVE  NotRevoked(s)
    BY <1>1, <1>2, <1>3, <2>1
       DEF Present, ReadUser, Identify, Finish, CreateSession, IssueLfs, CreateToken
  <2>2. ASSUME NEW u \in Ids, CreateUser(u) \/ UpdateUser(u) \/ DeleteUser(u)
        PROVE  NotRevoked(s)
    BY <1>1, <1>5, <2>2 DEF CreateUser
  <2> QED
    BY <1>4, <1>6, <1>7, <2>1, <2>2 DEF Next
<1> QED
  BY <1>1, <1>7 DEF vars

\* A step revokes a token only as a request ends that has the token's user id
\* (tokens::revoke), and the request and the token belong to one person unless
\* that id was given to another person while the request, or the one that
\* inserted the token, was in progress.
THEOREM OwnersRevoke == Spec => TokensRevokedByOwner
<1>1. ASSUME SessInv, [Next]_vars, NEW s \in Slots, Revoked(s) PROVE OwnerActs(s)
  <2>1. ~NotRevoked(s)
    BY <1>1 DEF Revoked, NotRevoked, Credential
  <2>2. PICK r \in Requests : Revoke(r)
    BY <1>1, <2>1, OthersRevokeNothing
  <2>3. ~UNCHANGED cred
    BY <2>1 DEF NotRevoked
  <2>4. PICK t \in SlotsOf(req[r].user, {"token"}) : cred' = [cred EXCEPT ![t].revoked = TRUE]
    BY <2>2, <2>3 DEF Revoke
  <2>5. s = t
    BY <1>1, <2>1, <2>4, Typed DEF NotRevoked
  <2>6. req[r].pc = "act" /\ cred[s] # Free /\ cred[s].user = req[r].user
    BY <2>2, <2>4, <2>5 DEF Revoke, SlotsOf
  <2>7. cred[s].since # "replaced" => users[req[r].user].person = cred[s].person
    BY <1>1, <2>6 DEF SessInv, Good
  <2>8. req'[r] = Idle
    BY <1>1, <2>2, Typed DEF Revoke, Goto
  <2> QED
    BY <2>6, <2>7, <2>8 DEF OwnerActs
<1>2. SessInv /\ [Next]_vars => [\A s \in Slots : Revoked(s) => OwnerActs(s)]_vars
  BY <1>1
<1>3. [\A s \in Slots : Revoked(s) => OwnerActs(s)]_vars
        => [\A s \in Slots :
              (cred[s] # Free /\ ~cred[s].revoked /\ cred'[s] # Free /\ cred'[s].revoked)
                => \E r \in Requests :
                     /\ req[r].pc = "act" /\ req'[r] = Idle
                     /\ req[r].user = cred[s].user
                     /\ \/ req[r].person = cred[s].person
                        \/ users[req[r].user].person # req[r].person
                        \/ cred[s].since = "replaced"]_vars
  BY DEF Revoked, OwnerActs
<1> QED
  BY <1>2, <1>3, SessInvariant, PTL DEF Spec, TokensRevokedByOwner
=============================================================================
