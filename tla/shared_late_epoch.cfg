\* An admin removes a device while a writer is offline; the removal reaches the
\* writer before the epoch that goes with it.
SPECIFICATION Spec
CONSTANTS
  Devices = {a, w, x}
  Values = {v1}
  Deleted = Deleted
  Absent = Absent
  Creator = a
  Founders = {w, x}
  GrantedRoles = {"reader"}
  Restorable = {}
  Times = {1}
  Hashes = {1}
  MaxItems = 1
  MaxChanges = 1
  MaxCopies = 0
  MaxMishaps = 0
CHECK_DEADLOCK FALSE
INVARIANT RemovedReadsNothingNew
