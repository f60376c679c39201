\* Three commands, of two connections, under shared leases, while one cleanup runs.
SPECIFICATION Spec
CONSTANTS
  Threads = {t1, t2}
  Places = {p1}
  Kinds = {"run"}
  SessionUses = 2
  MaxCalls = 3
  MaxFaults = 1
  MaxCleanups = 1
  MaxUserFiles = 0
SYMMETRY Symmetry
CHECK_DEADLOCK FALSE
INVARIANT TypeOK
INVARIANT EachUseOnce
INVARIANT ApprovedByPerson
PROPERTY ImplementsGate
