\* Safety of the exchange, the dispatcher and suspend/resume: two callers,
\* one stub and one foreign type, one command id, a peripheral holding two
\* requests or frames.  The callers are interchangeable.
CONSTANTS
  Callers = {c1, c2}
  Stubs = {s1}
  Types = {s1, t2}
  Cmds = {x}
  CallKinds <- MC_CallKinds
  MaxQueue = 2
  ResubmitCanFail = TRUE
  NoOwner = NoOwner
  NoBuf = NoBuf
  NoReq = NoReq
  NoFrame = NoFrame
  InitCmd = InitCmd
SPECIFICATION Spec
SYMMETRY MC_Symmetry
INVARIANT TypeOK ReplyBufferOwnedByHolder StartedImpliesReceiving
