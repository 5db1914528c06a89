--------------------------- MODULE LjcaTransport ---------------------------
(***************************************************************************)
(* The LJCA USB transport of drivers/mfd/ljca.c: the command exchange      *)
(* (ljca_stub_write), the inbound dispatcher (ljca_read_complete and       *)
(* ljca_parse) and the stop/start pair used by suspend and resume.         *)
(*                                                                         *)
(* Caller threads run ljca_stub_write concurrently; the bulk-in URB        *)
(* completion runs ljca_read_complete on another CPU without taking        *)
(* dev->mutex; the peripheral answers, delays, loses requests and sends    *)
(* unsolicited events.  Each step below is one stretch of code that runs   *)
(* without any other actor observing an intermediate state.                *)
(***************************************************************************)
EXTENDS Naturals, Sequences, FiniteSets

CONSTANTS
  Callers,          \* threads calling ljca_transfer/ljca_stub_write
  Stubs,            \* stub types on dev->stubs_list
  Types,            \* stub types the peripheral may put in a frame header
  Cmds,             \* command ids used by the callers
  CallKinds,        \* subset of {"noack", "ack", "ackbuf"}
  MaxQueue,         \* requests and frames the peripheral holds at once
  ResubmitCanFail,  \* whether usb_submit_urb in the completion may fail
  NoOwner, NoBuf, NoReq, NoFrame, InitCmd

ASSUME Stubs \subseteq Types /\ Stubs # {}
ASSUME CallKinds \subseteq {"noack", "ack", "ackbuf"} /\ CallKinds # {}
ASSUME MaxQueue \in Nat \ {0}
ASSUME ResubmitCanFail \in BOOLEAN
ASSUME InitCmd \notin Cmds

(* A request, and the reply buffer its caller passes, is named by the      *)
(* caller and a one-bit generation: consecutive calls of one thread use    *)
(* different stack frames, the call after next reuses the first one.       *)
ReqIds == Callers \X {0, 1}

Frame == [type : Types, cmd : Cmds, ack : BOOLEAN, valid : BOOLEAN,
          req : ReqIds \cup {NoReq}]

VARIABLES
  started,     \* dev->started
  urbArmed,    \* dev->in_urb is submitted
  pm,          \* progress of ljca_suspend / ljca_resume
  mutex,       \* owner of dev->mutex
  pc,          \* where each caller is in ljca_stub_write
  call,        \* the arguments of each caller's current ljca_stub_write
  gen,         \* generation of each caller's next request
  curCmd,      \* stub->cur_cmd
  acked,       \* stub->acked
  ibuf,        \* stub->ipacket.ibuf (with ibuf_len)
  devPending,  \* requests the peripheral has accepted and not answered
  inq,         \* frames queued in the peripheral for the bulk-in pipe
  rx,          \* the URB completion handler in progress
  ackBy,       \* the request whose reply last set stub->acked (history)
  urbLost      \* the URB was last disarmed by a failed resubmission at
               \* line 560, not by usb_kill_urb (history)

vars == <<started, urbArmed, pm, mutex, pc, call, gen, curCmd, acked, ibuf,
          devPending, inq, rx, ackBy, urbLost>>

RxIdle == [stage |-> "idle", frame |-> NoFrame, buf |-> NoBuf]

WaitsAck(k) == k # "noack"
BufOf(k, id) == IF k = "ackbuf" THEN id ELSE NoBuf

(* The arguments recorded for a caller that is not in ljca_stub_write.    *)
IdleCall(c) == [stub |-> CHOOSE s \in Stubs : TRUE,
                cmd |-> CHOOSE x \in Cmds : TRUE,
                kind |-> "noack", id |-> <<c, 1>>, buf |-> NoBuf]

(* Buffers that belong to an ljca_stub_write still in progress.            *)
LiveBufs == {call[c].buf : c \in {d \in Callers : pc[d] # "idle"}} \ {NoBuf}

(* When a resubmission can fail, the URB may end up not armed.             *)
ResubmitOutcomes == IF ResubmitCanFail THEN BOOLEAN ELSE {TRUE}

-----------------------------------------------------------------------------
(* Caller side: ljca_stub_write.                                           *)

(* Lines 389-394: the started test, made before taking dev->mutex.  The    *)
(* early returns (oversized frame, kmalloc failure, !started) change no    *)
(* state and are the stuttering steps of the caller.                       *)
StubWriteStart(c) ==
  /\ pc[c] = "idle"
  /\ started
  /\ \E s \in Stubs, cmd \in Cmds, k \in CallKinds :
       call' = [call EXCEPT ![c] = [stub |-> s, cmd |-> cmd, kind |-> k,
                                    id |-> <<c, gen[c]>>,
                                    buf |-> BufOf(k, <<c, gen[c]>>)]]
  /\ gen' = [gen EXCEPT ![c] = 1 - @]
  /\ pc' = [pc EXCEPT ![c] = "locking"]
  /\ UNCHANGED <<started, urbArmed, pm, mutex, curCmd, acked, ibuf,
                 devPending, inq, rx, ackBy, urbLost>>

(* The caller's outgoing buffer (obuf), which is never a reply buffer.     *)
OBuf(id) == <<"obuf", id>>

(* Mutant of StubWriteLock: the arguments swapped, obuf installed as       *)
(* stub->ipacket.ibuf.                                                     *)
StubWriteLockObuf(c) ==
  LET s == call[c].stub IN
  /\ pc[c] = "locking"
  /\ mutex = NoOwner
  /\ mutex' = c
  /\ curCmd' = [curCmd EXCEPT ![s] = call[c].cmd]
  /\ ibuf' = [ibuf EXCEPT ![s] = OBuf(call[c].id)]
  /\ acked' = [acked EXCEPT ![s] = FALSE]
  /\ pc' = [pc EXCEPT ![c] = "writing"]
  /\ UNCHANGED <<started, urbArmed, pm, call, gen, devPending, inq, rx, ackBy, urbLost>>

(* Mutant of StubWriteLock: stub->acked left as the last reply set it.    *)
StubWriteLockKeepAck(c) ==
  LET s == call[c].stub IN
  /\ pc[c] = "locking"
  /\ mutex = NoOwner
  /\ mutex' = c
  /\ curCmd' = [curCmd EXCEPT ![s] = call[c].cmd]
  /\ ibuf' = [ibuf EXCEPT ![s] = call[c].buf]
  /\ acked' = acked
  /\ pc' = [pc EXCEPT ![c] = "writing"]
  /\ UNCHANGED <<started, urbArmed, pm, call, gen, devPending, inq, rx, ackBy, urbLost>>

(* Lines 396-400: take dev->mutex and install the exchange on the stub.    *)
StubWriteLock(c) ==
  LET s == call[c].stub IN
  /\ pc[c] = "locking"
  /\ mutex = NoOwner
  /\ mutex' = c
  /\ curCmd' = [curCmd EXCEPT ![s] = call[c].cmd]
  /\ ibuf' = [ibuf EXCEPT ![s] = call[c].buf]
  /\ acked' = [acked EXCEPT ![s] = FALSE]
  /\ pc' = [pc EXCEPT ![c] = "writing"]
  /\ UNCHANGED <<started, urbArmed, pm, call, gen, devPending, inq, rx, ackBy, urbLost>>

(* Mutant of Release: error_unlock without stub->ipacket.ibuf = NULL.     *)
ReleaseKeepBuf(c) ==
  /\ ibuf' = ibuf
  /\ mutex' = NoOwner
  /\ pc' = [pc EXCEPT ![c] = "idle"]
  /\ call' = [call EXCEPT ![c] = IdleCall(c)]

(* Mutant of Release: a return path that leaves dev->mutex held.          *)
ReleaseNoUnlock(c) ==
  /\ ibuf' = [ibuf EXCEPT ![call[c].stub] = NoBuf]
  /\ mutex' = mutex
  /\ pc' = [pc EXCEPT ![c] = "idle"]
  /\ call' = [call EXCEPT ![c] = IdleCall(c)]

(* Lines 427-430 (error_unlock): clear the reply buffer, drop the mutex    *)
(* and return; the call's arguments and stack buffer are gone.            *)
Release(c) ==
  /\ ibuf' = [ibuf EXCEPT ![call[c].stub] = NoBuf]
  /\ mutex' = NoOwner
  /\ pc' = [pc EXCEPT ![c] = "idle"]
  /\ call' = [call EXCEPT ![c] = IdleCall(c)]

(* Requests accepted and frames queued, together, in the peripheral.       *)
DevLoad == Cardinality(devPending) + Len(inq)

(* Lines 401-416: usb_bulk_msg.  A failed or short write goes straight to  *)
(* error_unlock; a completed write without wait_ack returns 0.  A          *)
(* peripheral that is full NAKs the bulk-out transfer until it times out,  *)
(* so only the failing branch is open then.                                *)
StubWriteSend(c) ==
  /\ pc[c] = "writing"
  /\ \/ /\ DevLoad < MaxQueue
        /\ devPending' = devPending \cup
             {[stub |-> call[c].stub, cmd |-> call[c].cmd, id |-> call[c].id,
               ack |-> WaitsAck(call[c].kind)]}
        /\ IF WaitsAck(call[c].kind)
             THEN /\ pc' = [pc EXCEPT ![c] = "waiting"]
                  /\ UNCHANGED <<mutex, ibuf, call>>
             ELSE Release(c)
     \/ /\ Release(c)
        /\ UNCHANGED devPending
  /\ UNCHANGED <<started, urbArmed, pm, gen, curCmd, acked, inq, rx, ackBy, urbLost>>

(* Lines 417-430: wait_event_timeout returns with stub->acked set.         *)
StubWriteAcked(c) ==
  /\ pc[c] = "waiting"
  /\ acked[call[c].stub]
  /\ Release(c)
  /\ UNCHANGED <<started, urbArmed, pm, gen, curCmd, acked, devPending,
                 inq, rx, ackBy, urbLost>>

(* Mutant of StubWriteTimeout: wait_event without a timeout.              *)
StubWriteNoTimeout(c) ==
  /\ pc[c] = "waiting"
  /\ ~acked[call[c].stub]
  /\ FALSE
  /\ Release(c)
  /\ UNCHANGED <<started, urbArmed, pm, gen, curCmd, acked, devPending,
                 inq, rx, ackBy, urbLost>>

(* Lines 418-423, 427-430: the timeout expires with stub->acked clear.     *)
StubWriteTimeout(c) ==
  /\ pc[c] = "waiting"
  /\ ~acked[call[c].stub]
  /\ Release(c)
  /\ UNCHANGED <<started, urbArmed, pm, gen, curCmd, acked, devPending,
                 inq, rx, ackBy, urbLost>>

-----------------------------------------------------------------------------
(* Receive side: ljca_read_complete and ljca_parse, in URB completion      *)
(* context, without dev->mutex.                                            *)

(* Lines 548, 325-327, 329 and 334: a well-formed frame for a stub on the *)
(* list, with the ACK flag, whose cmd is the stub's cur_cmd.              *)
IsPendingReply(f) ==
  /\ f.valid
  /\ f.type \in Stubs
  /\ f.ack
  /\ curCmd[f.type] = f.cmd

(* Lines 528-557 and 325-338: take the next frame; a malformed frame, an   *)
(* unknown stub type, an event (no ACK flag, handed to ljca_stub_notify)   *)
(* and a reply whose cmd differs from stub->cur_cmd are dropped and the    *)
(* URB resubmitted (559-562); a matching reply goes on to line 340.        *)
ReadComplete ==
  /\ urbArmed
  /\ rx.stage = "idle"
  /\ inq # <<>>
  /\ \/ /\ ~IsPendingReply(Head(inq))
        /\ urbArmed' \in ResubmitOutcomes
        /\ urbLost' = ~urbArmed'
        /\ UNCHANGED rx
     \/ /\ IsPendingReply(Head(inq))
        /\ rx' = [stage |-> "matched", frame |-> Head(inq), buf |-> NoBuf]
        /\ UNCHANGED <<urbArmed, urbLost>>
  /\ inq' = Tail(inq)
  /\ UNCHANGED <<started, pm, mutex, pc, call, gen, curCmd, acked, ibuf,
                 devPending, ackBy>>

(* Lines 340-341: READ_ONCE of stub->ipacket.                              *)
ParseSnapshot ==
  /\ rx.stage = "matched"
  /\ rx' = [rx EXCEPT !.stage = "snap", !.buf = ibuf[rx.frame.type]]
  /\ UNCHANGED <<started, urbArmed, pm, mutex, pc, call, gen, curCmd, acked,
                 ibuf, devPending, inq, ackBy, urbLost>>

(* Lines 343-356 and 559-562: copy into the snapshot buffer (when there is *)
(* one), set stub->acked, wake the waiter, resubmit the URB.               *)
ParseCopy ==
  LET s == rx.frame.type IN
  /\ rx.stage = "snap"
  /\ acked' = [acked EXCEPT ![s] = TRUE]
  /\ ackBy' = [ackBy EXCEPT ![s] = rx.frame.req]
  /\ rx' = RxIdle
  /\ urbArmed' \in ResubmitOutcomes
  /\ urbLost' = ~urbArmed'
  /\ UNCHANGED <<started, pm, mutex, pc, call, gen, curCmd, ibuf, devPending,
                 inq>>

-----------------------------------------------------------------------------
(* ljca_suspend -> ljca_stop and ljca_resume -> ljca_start.                *)

SuspendRequest ==
  /\ pm = "active"
  /\ pm' = "locking"
  /\ UNCHANGED <<started, urbArmed, mutex, pc, call, gen, curCmd, acked, ibuf,
                 devPending, inq, rx, ackBy, urbLost>>

(* Lines 950-952: started = false under dev->mutex.                        *)
StopClearStarted ==
  /\ pm = "locking"
  /\ mutex = NoOwner
  /\ started' = FALSE
  /\ pm' = "killing"
  /\ UNCHANGED <<urbArmed, mutex, pc, call, gen, curCmd, acked, ibuf,
                 devPending, inq, rx, ackBy, urbLost>>

(* Line 953: usb_kill_urb returns once no completion handler is running.   *)
StopKillUrb ==
  /\ pm = "killing"
  /\ rx.stage = "idle"
  /\ urbArmed' = FALSE
  /\ urbLost' = FALSE
  /\ pm' = "suspended"
  /\ UNCHANGED <<started, mutex, pc, call, gen, curCmd, acked, ibuf,
                 devPending, inq, rx, ackBy>>

(* Mutant of StartSubmit: ljca_start with started set before the URB is   *)
(* submitted, and the submission then skipped.                             *)
StartSubmitLate ==
  /\ pm = "suspended"
  /\ started' = TRUE
  /\ pm' = "resuming"
  /\ UNCHANGED <<urbArmed, mutex, pc, call, gen, curCmd, acked, ibuf,
                 devPending, inq, rx, ackBy, urbLost>>

(* Lines 569-577: usb_submit_urb of the bulk-in URB.  A failed submission  *)
(* returns the error with nothing changed.                                 *)
StartSubmit ==
  /\ pm = "suspended"
  /\ urbArmed' = TRUE
  /\ urbLost' = FALSE
  /\ pm' = "resuming"
  /\ UNCHANGED <<started, mutex, pc, call, gen, curCmd, acked, ibuf,
                 devPending, inq, rx, ackBy>>

(* Lines 579-581: started = true under dev->mutex.                         *)
StartSetStarted ==
  /\ pm = "resuming"
  /\ mutex = NoOwner
  /\ started' = TRUE
  /\ pm' = "active"
  /\ UNCHANGED <<urbArmed, mutex, pc, call, gen, curCmd, acked, ibuf,
                 devPending, inq, rx, ackBy, urbLost>>

-----------------------------------------------------------------------------
(* The peripheral.  It answers an accepted request that set LJCA_ACK_FLAG  *)
(* with a reply carrying the ACK flag and the request's type and cmd, may  *)
(* answer late or never, and sends frames that are not replies; it holds   *)
(* at most MaxQueue requests and frames at once (a reply takes its         *)
(* request's place).                                                       *)
DevReply ==
  /\ \E r \in devPending :
       /\ r.ack
       /\ inq' = Append(inq, [type |-> r.stub, cmd |-> r.cmd, ack |-> TRUE,
                              valid |-> TRUE, req |-> r.id])
       /\ devPending' = devPending \ {r}
  /\ UNCHANGED <<started, urbArmed, pm, mutex, pc, call, gen, curCmd, acked,
                 ibuf, rx, ackBy, urbLost>>

(* A request without LJCA_ACK_FLAG is executed silently; any request may  *)
(* also be lost.                                                           *)
DevDrop ==
  /\ \E r \in devPending : devPending' = devPending \ {r}
  /\ UNCHANGED <<started, urbArmed, pm, mutex, pc, call, gen, curCmd, acked,
                 ibuf, inq, rx, ackBy, urbLost>>

(* An event (no ACK flag) for a type on the list or not.  Malformed       *)
(* frames and events take the same drop-and-resubmit path in              *)
(* ljca_read_complete, so one frame shape per type stands for them all;   *)
(* event delivery itself is the subject of LjcaEvents.                    *)
DevEvent ==
  /\ DevLoad < MaxQueue
  /\ \E t \in Types :
       inq' = Append(inq, [type |-> t, cmd |-> CHOOSE x \in Cmds : TRUE,
                           ack |-> FALSE, valid |-> TRUE, req |-> NoReq])
  /\ UNCHANGED <<started, urbArmed, pm, mutex, pc, call, gen, curCmd, acked,
                 ibuf, devPending, rx, ackBy, urbLost>>

-----------------------------------------------------------------------------
(* ljca_probe has run ljca_start: the URB is armed and started is set; the *)
(* stubs were kzalloc'ed, so cur_cmd is 0 and acked is false.              *)
Init ==
  /\ started = TRUE
  /\ urbArmed = TRUE
  /\ pm = "active"
  /\ mutex = NoOwner
  /\ pc = [c \in Callers |-> "idle"]
  /\ call = [c \in Callers |-> IdleCall(c)]
  /\ gen = [c \in Callers |-> 0]
  /\ curCmd = [s \in Stubs |-> InitCmd]
  /\ acked = [s \in Stubs |-> FALSE]
  /\ ibuf = [s \in Stubs |-> NoBuf]
  /\ devPending = {}
  /\ inq = <<>>
  /\ rx = RxIdle
  /\ ackBy = [s \in Stubs |-> NoReq]
  /\ urbLost = FALSE

Next ==
  \/ \E c \in Callers :
       \/ StubWriteStart(c) \/ StubWriteLock(c) \/ StubWriteSend(c)
       \/ StubWriteAcked(c) \/ StubWriteTimeout(c)
  \/ ReadComplete \/ ParseSnapshot \/ ParseCopy
  \/ SuspendRequest \/ StopClearStarted \/ StopKillUrb
  \/ StartSubmit \/ StartSetStarted
  \/ DevReply \/ DevDrop \/ DevEvent

(* The completion handler runs whenever the URB is armed and data waits;   *)
(* wait_event_timeout always returns; dev->mutex hands off to a waiter, so *)
(* a thread blocked on it is served (strong fairness); usb_kill_urb and    *)
(* the resume path complete once begun.  The peripheral and the callers'   *)
(* decision to call are not fair.                                          *)
Fairness ==
  /\ \A c \in Callers :
       /\ SF_vars(StubWriteLock(c))
       /\ WF_vars(StubWriteSend(c))
       /\ WF_vars(StubWriteAcked(c) \/ StubWriteTimeout(c))
  /\ WF_vars(ReadComplete) /\ WF_vars(ParseSnapshot) /\ WF_vars(ParseCopy)
  /\ SF_vars(StopClearStarted) /\ SF_vars(StopKillUrb) /\ SF_vars(StartSetStarted)

Spec == Init /\ [][Next]_vars /\ Fairness

-----------------------------------------------------------------------------
(* Refinement.  The link state of LjcaExchange is read off dev->started    *)
(* and the progress of ljca_stop/ljca_start; the device is held by the     *)
(* holder of dev->mutex; a caller is admitted once it passed the started  *)
(* test and active once it holds the mutex; the holder has its reply when  *)
(* stub->acked of its stub is set.                                         *)
AbsLink ==
  CASE started          -> "up"
    [] pm = "killing"   -> "stopping"
    [] pm = "suspended" -> "down"
    [] OTHER            -> "starting"

AbsPhase ==
  [c \in Callers |-> CASE pc[c] = "idle"    -> "idle"
                       [] pc[c] = "locking" -> "pending"
                       [] OTHER             -> "active"]

AbsReplied == [c \in Callers |-> mutex = c /\ acked[call[c].stub]]

Exchange == INSTANCE LjcaExchange
              WITH link <- AbsLink, owner <- mutex, phase <- AbsPhase,
                   replied <- AbsReplied

-----------------------------------------------------------------------------
(* Invariants and properties.                                              *)

(* The type invariant.  stub->ipacket.ibuf only ever holds a caller's     *)
(* reply buffer or NULL.                                                   *)
TypeOK ==
  /\ started \in BOOLEAN /\ urbArmed \in BOOLEAN
  /\ pm \in {"active", "locking", "killing", "suspended", "resuming"}
  /\ mutex \in Callers \cup {NoOwner}
  /\ pc \in [Callers -> {"idle", "locking", "writing", "waiting"}]
  /\ gen \in [Callers -> {0, 1}]
  /\ curCmd \in [Stubs -> Cmds \cup {InitCmd}]
  /\ acked \in [Stubs -> BOOLEAN]
  /\ ibuf \in [Stubs -> ReqIds \cup {NoBuf}]
  /\ devPending \subseteq [stub : Stubs, cmd : Cmds, id : ReqIds, ack : BOOLEAN]
  /\ inq \in Seq(Frame) /\ Len(inq) <= MaxQueue
  /\ rx.stage \in {"idle", "matched", "snap"}
  /\ rx.buf \in ReqIds \cup {NoBuf}
  /\ ackBy \in [Stubs -> ReqIds \cup {NoReq}]
  /\ urbLost \in BOOLEAN

(* ljca_stub_write publishes its reply buffer in stub->ipacket only while  *)
(* it holds dev->mutex: whenever a stub has a reply buffer, the mutex      *)
(* holder is the caller writing to that stub and the buffer is its own.    *)
(* Every return path of ljca_stub_write must clear the buffer before       *)
(* mutex_unlock, or the next ljca_parse copies into a dead stack frame.    *)
ReplyBufferOwnedByHolder ==
  \A s \in Stubs :
    ibuf[s] # NoBuf =>
      /\ mutex \in Callers
      /\ call[mutex].stub = s
      /\ ibuf[s] = call[mutex].buf

(* Whenever the transport is marked started, the bulk-in URB is armed,    *)
(* unless the completion's own resubmission failed (line 560, where the    *)
(* error is only logged and started stays set, so callers time out until  *)
(* the next ljca_stop/ljca_start).  Otherwise a caller that passes the     *)
(* started test can get its reply: ljca_stop must clear started before     *)
(* usb_kill_urb, and ljca_start must submit the URB before setting         *)
(* started.                                                                *)
StartedImpliesReceiving == started /\ ~urbArmed => urbLost

(* Every ljca_stub_write returns, whatever the peripheral does with the    *)
(* request: the wait for the ACK is bounded by the timeout and every path *)
(* drops dev->mutex, so no caller waits forever for another.               *)
CallsReturn == \A c \in Callers : pc[c] # "idle" ~> pc[c] = "idle"

(* A suspend that has begun (ljca_stop waiting for dev->mutex) finishes:  *)
(* it gets the mutex between exchanges and usb_kill_urb returns once the   *)
(* completion handler is done.                                             *)
SuspendCompletes == pm = "locking" ~> pm = "suspended"

(* ljca_parse copies a reply only into the buffer of an ljca_stub_write   *)
(* that is still running; a buffer whose caller has returned is a dead    *)
(* stack frame (spec 4.3: the reply is copied into the caller's buffer).  *)
ReplyBufferLive ==
  [][rx.stage = "snap" /\ rx'.stage = "idle" /\ rx.buf # NoBuf
       => rx.buf \in LiveBufs]_vars

(* A caller that returns with the ACK seen was acknowledged by the reply   *)
(* to its own request, not by a late reply to an earlier one with the     *)
(* same command (spec 5: replies are unambiguously attributable).          *)
AckedByOwnReply ==
  [][\A c \in Callers :
       pc[c] = "waiting" /\ pc'[c] = "idle" /\ acked[call[c].stub]
         => ackBy[call[c].stub] = call[c].id]_vars

(* The exchange, the dispatcher and suspend/resume together implement the *)
(* one-exchange-at-a-time transport of LjcaExchange: dev->mutex makes      *)
(* exchanges exclusive; ljca_stub_write clears stub->acked under the mutex *)
(* so no earlier reply counts for the new exchange; ljca_parse sets it     *)
(* only while the URB can complete, which usb_kill_urb in ljca_stop        *)
(* guarantees; ljca_start re-arms the URB before it sets started.  With    *)
(* LjcaExchange's fairness: an admitted caller gets the device, an         *)
(* exchange returns, a stop quiesces the pipe and a start lets callers in  *)
(* again, under the scheduling of dev->mutex, the timeout of               *)
(* wait_event_timeout and usb_kill_urb.                                    *)
ExchangeRefinement == Exchange!Spec

=============================================================================
