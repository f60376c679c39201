\* Two sessions under fairness; the holder of the lock may die or fail, the lock
\* file may be removed, and another program may replace the vault file once, which
\* the user of a session answers by keeping that session's version.
SPECIFICATION FairSpec
CONSTANTS
  Sessions = {s1, s2}
  Ops = {"queue"}
  DeviceIds = {}
  StartDevices = {}
  StartEmpty = FALSE
  MaxEntries = 1
  MaxSeals = 2
  MaxFaults = 1
  MaxCrashes = 1
  MaxTampers = 1
  MaxInterference = 1
CHECK_DEADLOCK FALSE
INVARIANT MemoryWasCommitted
INVARIANT NoDraftLost
PROPERTY CallsEnd
