---------------------------- MODULE LjcaExchange ----------------------------
(***************************************************************************)
(* What the LJCA transport of drivers/mfd/ljca.c promises its callers,     *)
(* with the USB pipes, the frames and the completion handler hidden: one   *)
(* exchange at a time holds the device; a reply is taken only while the    *)
(* bulk-in pipe is receiving and only by the exchange that holds it; every *)
(* exchange gives the device back; a stop waits for the holder and a start *)
(* re-arms reception before callers are let in again.  LjcaTransport       *)
(* implements this module under the mapping in its section "Refinement".   *)
(*                                                                         *)
(* A caller is admitted (Begin) only while the link is up, but it takes    *)
(* the device (Acquire) whatever the link is by then: ljca_stub_write      *)
(* tests dev->started before it takes dev->mutex and not after.            *)
(***************************************************************************)
CONSTANTS Callers, NoOwner

VARIABLES
  link,     \* "up", "stopping", "down" or "starting"
  owner,    \* the exchange holding the device, or NoOwner
  phase,    \* "idle", "pending" (admitted) or "active" (holds the device)
  replied   \* whether the holder has taken its reply

vars == <<link, owner, phase, replied>>

(* The bulk-in pipe receives in every link state but "down".              *)
Receiving == link # "down"

Init ==
  /\ link = "up"
  /\ owner = NoOwner
  /\ phase = [c \in Callers |-> "idle"]
  /\ replied = [c \in Callers |-> FALSE]

Begin(c) ==
  /\ link = "up"
  /\ phase[c] = "idle"
  /\ phase' = [phase EXCEPT ![c] = "pending"]
  /\ UNCHANGED <<link, owner, replied>>

Acquire(c) ==
  /\ phase[c] = "pending"
  /\ owner = NoOwner
  /\ owner' = c
  /\ phase' = [phase EXCEPT ![c] = "active"]
  /\ replied' = [replied EXCEPT ![c] = FALSE]
  /\ UNCHANGED link

Reply ==
  /\ Receiving
  /\ owner # NoOwner
  /\ ~replied[owner]
  /\ replied' = [replied EXCEPT ![owner] = TRUE]
  /\ UNCHANGED <<link, owner, phase>>

(* The exchange returns, answered or not (timeout, failed or short write,  *)
(* no ACK wanted), and gives the device back.                              *)
Return(c) ==
  /\ phase[c] = "active"
  /\ owner = c
  /\ owner' = NoOwner
  /\ phase' = [phase EXCEPT ![c] = "idle"]
  /\ replied' = [replied EXCEPT ![c] = FALSE]
  /\ UNCHANGED link

Stop ==
  /\ link = "up"
  /\ owner = NoOwner
  /\ link' = "stopping"
  /\ UNCHANGED <<owner, phase, replied>>

Quiesce ==
  /\ link = "stopping"
  /\ link' = "down"
  /\ UNCHANGED <<owner, phase, replied>>

Arm ==
  /\ link = "down"
  /\ link' = "starting"
  /\ UNCHANGED <<owner, phase, replied>>

Start ==
  /\ link = "starting"
  /\ owner = NoOwner
  /\ link' = "up"
  /\ UNCHANGED <<owner, phase, replied>>

Next ==
  \/ \E c \in Callers : Begin(c) \/ Acquire(c) \/ Return(c)
  \/ Reply \/ Stop \/ Quiesce \/ Arm \/ Start

(* An admitted caller gets the device if it is free again and again; an    *)
(* exchange returns; a stop, once begun, quiesces the pipe; a start, once  *)
(* the pipe is armed, lets callers in when the device is free again and    *)
(* again.  Nothing forces a caller to call, the device to answer, or a    *)
(* stop or a start to begin.                                               *)
Fairness ==
  /\ \A c \in Callers : SF_vars(Acquire(c)) /\ WF_vars(Return(c))
  /\ WF_vars(Quiesce) /\ SF_vars(Start)

SafetySpec == Init /\ [][Next]_vars

Spec == SafetySpec /\ Fairness

=============================================================================
