SPECIFICATION FairSpec
CONSTANTS
  r1 = r1
  r2 = r2
  r3 = r3
  s1 = s1
  Connection = {r1, r2, r3}
  Slots = 1
  Ssh = {s1}
INVARIANTS SlotsTypeOK PermitsBalance GracefulStop WakeUpKept
PROPERTIES NoStarvation StopCompletes
CHECK_DEADLOCK FALSE
