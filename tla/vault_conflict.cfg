\* Two sessions that change passwords and device keys, while another program
\* once puts an older copy back, deletes the file or replaces it.
SPECIFICATION Spec
CONSTANTS
  Sessions = {s1, s2}
  Ops = {"device", "password"}
  DeviceIds = {1, 2}
  StartDevices = {1}
  StartEmpty = FALSE
  MaxEntries = 2
  MaxSeals = 4
  MaxFaults = 0
  MaxCrashes = 0
  MaxTampers = 0
  MaxInterference = 1
SYMMETRY Symmetry
\* Every bound can be used up with both sessions open and nothing left to do.
CHECK_DEADLOCK FALSE
PROPERTY ImplementsJournal
PROPERTY NoLostUpdate
PROPERTY NothingIrreplaceableDropped
PROPERTY PasswordChangeSawSlot
PROPERTY KnowledgeNeverGoesBack
