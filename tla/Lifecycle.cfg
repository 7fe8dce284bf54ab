SPECIFICATION Spec
CONSTANTS
  e1 = e1
  e2 = e2
  e3 = e3
  r1 = r1
  r2 = r2
  r3 = r3
  None = None
  Executions = {e1, e2}
  Runs = {r1, r2, r3}
  Mode <- MCModeProduction
  Limit <- MCLimitOne
  WithResponsePromise = {e2}
  WithTimeout = {e2}
  WithWait = {e1}
  MaxRestarts = 1
CHECK_DEADLOCK FALSE
SYMMETRY RunSymmetry
INVARIANTS TypeOK   WorkConserving OverAdmissionBounded
PROPERTIES CCSpec 
