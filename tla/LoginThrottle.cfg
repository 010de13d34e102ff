SPECIFICATION ThrottleSpec
CONSTANTS
  Attempts = {r1, r2, r3}
  Logins = {alice, bob}
  Ips = {lan}
  AnyLogin = any
  MaxLoginFailures = 2
  IpFactor = 2
  MaxFailureKeys = 2
  Lockout = 2
INVARIANTS
  GuessesBounded
PROPERTIES
  LockoutEnds
