\* Two env files written to one path, and one lock.
SPECIFICATION Spec
CONSTANTS
  Threads = {t1, t2}
  Places = {p1}
  Kinds = {"write"}
  SessionUses = 2
  MaxCalls = 2
  MaxFaults = 0
  MaxCleanups = 1
  MaxUserFiles = 0
SYMMETRY Symmetry
CHECK_DEADLOCK FALSE
INVARIANT FilesDieWithTheLock
