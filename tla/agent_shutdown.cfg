\* One release of any kind, the tools beside it, and two cleanups at once.
SPECIFICATION FairSpec
CONSTANTS
  Threads = {t1, t2}
  Places = {p1}
  Kinds = {"write", "run", "stdin"}
  SessionUses = 2
  MaxCalls = 1
  MaxFaults = 1
  MaxCleanups = 2
  MaxUserFiles = 1
CHECK_DEADLOCK FALSE
INVARIANT NoChildEscapes
INVARIANT LockedMeansLocked
PROPERTY UserFilesSpared
PROPERTY RequestsEnd
PROPERTY CleanupsEnd
