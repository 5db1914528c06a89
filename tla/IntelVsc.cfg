\* Both components loading, unloading and reloading; the regulator core and
\* one other driver calling acquire and release; every op succeeds.
SPECIFICATION Spec
CONSTANTS
  ExtUsers = {u1}
  SensorPresent = {TRUE}
  OpsOutcomes = {FALSE, TRUE}
  LaneBytes = {4}
  LaneErrnos = {22}
  RegOutcomes = {TRUE}
  ClockOutcomes = {"nomem", "ok"}
  Rates = {400000000}
  Free = Free
INVARIANT TypeOK OwnersAgreeWhenIdle
PROPERTY LockCallsReturn
