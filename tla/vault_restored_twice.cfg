\* One session whose write fails ambiguously while a sync tool puts an older
\* copy of the file back and then the newer one again.
SPECIFICATION Spec
CONSTANTS
  Sessions = {s1}
  Ops = {"queue"}
  DeviceIds = {}
  StartDevices = {}
  StartEmpty = FALSE
  MaxEntries = 1
  MaxSeals = 4
  MaxFaults = 2
  MaxCrashes = 0
  MaxTampers = 0
  MaxInterference = 2
CHECK_DEADLOCK FALSE
INVARIANT DraftsWrittenOnce
