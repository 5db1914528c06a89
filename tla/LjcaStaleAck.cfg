\* A late reply to a timed-out request acknowledges the next request with the same cmd.
CONSTANTS
  Callers = {c1}
  Stubs = {s1}
  Types = {s1}
  Cmds = {x}
  CallKinds <- MC_CallKinds
  MaxQueue = 2
  ResubmitCanFail = FALSE
  NoOwner = NoOwner
  NoBuf = NoBuf
  NoReq = NoReq
  NoFrame = NoFrame
  InitCmd = InitCmd
SPECIFICATION Spec
PROPERTY AckedByOwnReply
