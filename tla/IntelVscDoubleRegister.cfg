\* The two components registering concurrently.
SPECIFICATION Spec
CONSTANTS
  ExtUsers = {}
  SensorPresent = {TRUE}
  OpsOutcomes = {TRUE}
  LaneBytes = {4}
  LaneErrnos = {}
  RegOutcomes = {TRUE}
  ClockOutcomes = {"ok"}
  Rates = {}
  Free = Free
INVARIANT RegisteredOnce
