\* Two sessions that edit and queue, with failing system calls, a process that
\* dies and a removed lock file; nobody replaces the vault file.
SPECIFICATION Spec
CONSTANTS
  Sessions = {s1, s2}
  Ops = {"edit", "queue", "queueInside"}
  DeviceIds = {}
  StartDevices = {}
  StartEmpty = TRUE
  MaxEntries = 2
  MaxSeals = 3
  MaxFaults = 2
  MaxCrashes = 1
  MaxTampers = 1
  MaxInterference = 0
SYMMETRY Symmetry
\* Every bound can be used up with both sessions open and nothing left to do.
CHECK_DEADLOCK FALSE
INVARIANT TypeOK
INVARIANT NoWriterBetween
INVARIANT OneWriter
INVARIANT SweepSparesWriters
INVARIANT NoDraftLost
INVARIANT DraftsWrittenOnce
