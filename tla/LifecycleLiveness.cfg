SPECIFICATION FairSpec
CONSTANTS
  e1 = e1
  e2 = e2
  e3 = e3
  r1 = r1
  r2 = r2
  r3 = r3
  None = None
  Executions = {e1, e2}
  Runs = {r1, r2}
  Mode <- MCModeProduction
  Limit <- MCLimitOne
  WithResponsePromise = {}
  WithTimeout = {}
  WithWait = {}
  MaxRestarts = 0
CHECK_DEADLOCK FALSE
PROPERTIES CreatedIsSettled
