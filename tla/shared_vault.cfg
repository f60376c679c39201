\* An admin, a writer and a device that may join: two item versions with times in
\* any order, one change of the roster, lost replies, and two copies of the writer's
\* replica put back in any order.
SPECIFICATION BoundedSpec
CONSTANTS
  Devices = {a, w, x}
  Values = {v1, v2}
  Deleted = Deleted
  Absent = Absent
  Creator = a
  Founders = {w}
  GrantedRoles = {"reader"}
  Restorable = {w}
  Times = {1, 2}
  Hashes = {1}
  MaxItems = 2
  MaxChanges = 1
  MaxCopies = 2
  MaxMishaps = 2
SYMMETRY Symmetry
\* Every bound can be used up with nothing left to exchange.
CHECK_DEADLOCK FALSE
INVARIANT TypeOK
INVARIANT PositionsPublishedOnce
INVARIANT MembersAgree
INVARIANT RotationKeepsOut
INVARIANT AcceptedStays
INVARIANT OwnWriteShown
