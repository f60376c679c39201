\* Two launches of one job and two requests, while the vault is disarmed once and
\* any transaction may fail: one release per run, two in all.
SPECIFICATION Spec
CONSTANTS
  Runs = {r1, r2}
  Requests = {q1, q2}
  Pausers = {p}
  TotalUses = 2
  PerRun = 1
  NoRun = NoRun
  MaxArms = 1
SYMMETRY Symmetry
\* Every launch can be over with the vault disarmed for good.
CHECK_DEADLOCK FALSE
INVARIANT TypeOK
INVARIANT UsesCounted
INVARIANT PerRunLimit
INVARIANT NoCommandOutlivesRun
INVARIANT DisarmEndsRuns
PROPERTY StruckRunGetsNothing
