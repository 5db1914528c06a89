\* The ACPI sensor lookup fails.  The driver stops here: every later call
\* spins on vsc.lock.
SPECIFICATION Spec
CONSTANTS
  ExtUsers = {}
  SensorPresent = {FALSE}
  OpsOutcomes = {TRUE}
  LaneBytes = {4}
  LaneErrnos = {}
  RegOutcomes = {TRUE}
  ClockOutcomes = {"ok"}
  Rates = {}
  Free = Free
CHECK_DEADLOCK FALSE
PROPERTY LockCallsReturn
