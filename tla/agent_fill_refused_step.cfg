\* A sign-in in two pages whose second page is refused before the browser is asked.
SPECIFICATION Spec
CONSTANTS
  MaxCalls = 2
  Agents = {a1}
  Asks = {{"username", "password"}, {"password"}}
  MaxSessions = 1
  Tabs = {t1}
  Shown = {"first", "second"}
  MaxUnlocks = 1
  MaxCleanups = 0
CHECK_DEADLOCK FALSE
INVARIANT RefusedStepsRecorded
