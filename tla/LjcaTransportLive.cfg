\* Liveness of the exchange and of suspend: one caller against ljca_suspend
\* for dev->mutex, one stub and one foreign type, one command id, a
\* peripheral holding two requests or frames.
CONSTANTS
  Callers = {c1}
  Stubs = {s1}
  Types = {s1, t2}
  Cmds = {x}
  CallKinds <- MC_CallKinds
  MaxQueue = 2
  ResubmitCanFail = FALSE
  NoOwner = NoOwner
  NoBuf = NoBuf
  NoReq = NoReq
  NoFrame = NoFrame
  InitCmd = InitCmd
SPECIFICATION Spec
PROPERTY CallsReturn SuspendCompletes ExchangeRefinement
