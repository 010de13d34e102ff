------------------------------ MODULE MCBackup ------------------------------
EXTENDS Backup, TLC
CONSTANTS db, f, s1, s2, b2
CutInto == s1 :> 0 @@ s2 :> 0 @@ b2 :> 2
=============================================================================
