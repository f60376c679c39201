\* Two fills, or one in two pages, two browsers, one lock or revocation, two unlocks.
SPECIFICATION FairSpec
CONSTANTS
  MaxCalls = 2
  Agents = {a1}
  Asks = {{"username", "password"}, {"password"}}
  MaxSessions = 2
  Tabs = {t1}
  Shown = {"first", "second", "elsewhere"}
  MaxUnlocks = 2
  MaxCleanups = 1
CHECK_DEADLOCK FALSE
INVARIANT TypeOK
INVARIANT ReleasedToApproved
INVARIANT AnswersTrue
PROPERTY ImplementsGate
PROPERTY FlowsEnd
