------------------------------- MODULE MeiVsc -------------------------------
(***************************************************************************)
(* The SPI driver of the VSC MEI device (drivers/misc/mei/spi-vsc.c)       *)
(* composed with the hardware layer of MeiVscLoader.  mei_vsc_probe queues *)
(* probe_work, which starts the MEI device; the driver core calls suspend, *)
(* resume, remove and shutdown on another thread.  Both reach the hardware *)
(* only through MEI core calls (mei_start, mei_stop, mei_restart), which   *)
(* hold dev->device_lock and call the hw ops of hw-vsc.c: hw_reset, which  *)
(* downloads the firmware unless hw->disconnect is set, and, unless the    *)
(* device is being stopped, hw_start.  The MEI core itself is not in this  *)
(* repository; it is reduced to that call sequence (one reset attempt per  *)
(* call) and its device_lock.                                              *)
(***************************************************************************)
EXTENDS MeiVscLoader

CONSTANT RegisterOutcomes   \* outcomes of mei_register and request_threaded_irq

VARIABLES
  drv,         \* the driver-core thread: its callback and where it is in it
  op,          \* the teardown in progress: "remove" or "shutdown"
  work,        \* hw->probe_work: not queued, queued, where it runs, done
  core,        \* the MEI core call holding dev->device_lock, and its stage
  disconnect,  \* hw->disconnect
  irq,         \* hw->wakeuphostint is requested
  registered   \* mei_register has succeeded and mei_deregister not run

glueVars == <<drv, op, work, core, disconnect, irq, registered>>
allVars == <<vars, glueVars>>

CoreIdle == [by |-> "none", kind |-> "none", stage |-> "idle"]

(* probe_work between its first instruction and its return.                *)
WorkRunning == {"start_wait", "start", "register", "stop_wait", "stop"}

(* Stable states of the driver-core thread: no callback in progress.       *)
DrvStable == {"unbound", "active", "suspended", "removed", "off"}

(* A caller takes dev->device_lock for one MEI core call.                  *)
Lock(by, kind) ==
  /\ core.by = "none"
  /\ core' = [by |-> by, kind |-> kind, stage |-> "reset"]

(* The caller's core call has finished; it drops dev->device_lock.         *)
Unlock(by) ==
  /\ core.by = by /\ core.stage = "done"
  /\ core' = CoreIdle

(* free_irq(hw->wakeuphostint).                                            *)
FreeIrq == irq' = FALSE

-----------------------------------------------------------------------------
(* The MEI core call in progress, calling into hw-vsc.c.                   *)

(* Lines 933-936: vsctp_reset, and with hw->disconnect set return 0        *)
(* without init_hw.                                                        *)
VsctpResetOnly ==
  /\ pc \in {"down", "ready", "failed"}
  /\ pc' = "reset_done"
  /\ sent' = <<>>
  /\ fwAnswers' = FALSE
  /\ UNCHANGED <<namesSet, bootSize, frags, fi, remain, hostReady, fwReady>>

(* mei_reset calls hw_reset (lines 929-945).                               *)
CoreReset ==
  /\ core.stage = "reset"
  /\ IF disconnect THEN VsctpResetOnly ELSE HwReset
  /\ core' = [core EXCEPT !.stage = "load"]
  /\ UNCHANGED <<drv, op, work, disconnect, irq, registered>>

(* hw_reset has returned.  -ENODEV (init_hw failed) ends the call; a stop  *)
(* (the device powering down) ends it without hw_start, leaving the       *)
(* device down; otherwise hw_start is next.  The download is over, so its *)
(* frame log, which only DownloadMatchesReference reads, is dropped.       *)
CoreResetDone ==
  /\ core.stage = "load"
  /\ pc \in {"reset_done", "failed"}
  /\ IF core.kind = "stop" \/ pc = "failed"
       THEN /\ core' = [core EXCEPT !.stage = "done"]
            /\ pc' = IF pc = "reset_done" THEN "down" ELSE pc
       ELSE /\ core' = [core EXCEPT !.stage = "start"]
            /\ UNCHANGED pc
  /\ sent' = <<>>
  /\ UNCHANGED <<namesSet, bootSize, frags, fi, remain, hostReady,
                 fwReady, fwAnswers>>
  /\ UNCHANGED <<drv, op, work, disconnect, irq, registered>>

(* mei_reset calls hw_start (lines 746-766); the call goes on once       *)
(* hw_start has returned, ready or failed.                                 *)
CoreStart ==
  /\ core.stage = "start"
  /\ HwStart
  /\ core' = [core EXCEPT !.stage = IF pc' = "reset_done" THEN "start"
                                                          ELSE "done"]
  /\ UNCHANGED <<drv, op, work, disconnect, irq, registered>>

(* The download steps of init_hw, run inside CoreReset's hw_reset.         *)
Loading ==
  /\ \/ CheckSilicon \/ LoadFiles \/ BootQuery \/ BootStart \/ LoadBoot
     \/ DlSet \/ FragStart \/ FragBin \/ CamBoot
  /\ UNCHANGED glueVars

-----------------------------------------------------------------------------
(* spi-vsc.c.                                                              *)

(* Lines 165-228 with mei_vsc_dev_init (hw-vsc.c 1039-1055): a zeroed     *)
(* device, the IRQ requested and probe_work queued.  The early returns     *)
(* (no CVFD device, no GPIO, no IRQ) leave nothing behind: devm frees the *)
(* device, so they are stutters.                                           *)
Probe ==
  /\ drv \in {"unbound", "removed", "off"}
  /\ pc' = "down" /\ namesSet' = FALSE /\ bootSize' = 0
  /\ frags' = [i \in FragIdx |-> 0] /\ fi' = 0 /\ remain' = 0 /\ sent' = <<>>
  /\ hostReady' = FALSE /\ fwReady' = FALSE /\ fwAnswers' = FALSE
  /\ drv' = "active"
  /\ work' = "queued"
  /\ irq' = TRUE
  /\ disconnect' = FALSE
  /\ registered' = FALSE
  /\ UNCHANGED <<op, core>>

(* Lines 134-141: the work runs and calls mei_start.                       *)
WorkBegin ==
  /\ work = "queued"
  /\ work' = "start_wait"
  /\ UNCHANGED <<vars, drv, op, core, disconnect, irq, registered>>

WorkLockStart ==
  /\ work = "start_wait"
  /\ Lock("work", "start")
  /\ work' = "start"
  /\ UNCHANGED <<vars, drv, op, disconnect, irq, registered>>

(* Lines 141-145, 159-162: mei_start returns; on failure the work cancels *)
(* the MEI works, disables interrupts and frees the IRQ.                   *)
WorkStartDone ==
  /\ work = "start"
  /\ Unlock("work")
  /\ IF pc = "ready"
       THEN /\ work' = "register" /\ UNCHANGED irq
       ELSE /\ work' = "done" /\ FreeIrq
  /\ UNCHANGED <<vars, drv, op, disconnect, registered>>

(* Lines 146-155: mei_register; on failure mei_stop follows.               *)
WorkRegister ==
  /\ work = "register"
  /\ \E ok \in RegisterOutcomes :
       IF ok THEN work' = "done" /\ registered' = TRUE
             ELSE work' = "stop_wait" /\ UNCHANGED registered
  /\ UNCHANGED <<vars, drv, op, core, disconnect, irq>>

WorkLockStop ==
  /\ work = "stop_wait"
  /\ Lock("work", "stop")
  /\ work' = "stop"
  /\ UNCHANGED <<vars, drv, op, disconnect, irq, registered>>

(* Lines 157-162: after mei_stop, the release_irq path.                    *)
WorkStopDone ==
  /\ work = "stop"
  /\ Unlock("work")
  /\ work' = "done"
  /\ FreeIrq
  /\ UNCHANGED <<vars, drv, op, disconnect, registered>>

(* Mutant of SuspendBegin: suspend without hw->disconnect = true.          *)
SuspendBeginConnected ==
  /\ drv = "active"
  /\ disconnect' = disconnect
  /\ drv' = "suspend_lock"
  /\ UNCHANGED <<vars, op, work, core, irq, registered>>

(* Lines 230-241: mei_vsc_suspend sets hw->disconnect, then calls          *)
(* mei_stop.  probe_work is not cancelled.                                 *)
SuspendBegin ==
  /\ drv = "active"
  /\ disconnect' = TRUE
  /\ drv' = "suspend_lock"
  /\ UNCHANGED <<vars, op, work, core, irq, registered>>

SuspendLock ==
  /\ drv = "suspend_lock"
  /\ Lock("pm", "stop")
  /\ drv' = "suspending"
  /\ UNCHANGED <<vars, op, work, disconnect, irq, registered>>

(* Lines 242-245: mei_stop returns; interrupts off and the IRQ freed.      *)
SuspendDone ==
  /\ drv = "suspending"
  /\ Unlock("pm")
  /\ drv' = "suspended"
  /\ FreeIrq
  /\ UNCHANGED <<vars, op, work, disconnect, registered>>

(* Lines 248-267: request the IRQ again; on failure return the error (the *)
(* PM core counts the device resumed anyway); else clear hw->disconnect    *)
(* and call mei_restart.                                                   *)
ResumeBegin ==
  /\ drv = "suspended"
  /\ \E ok \in RegisterOutcomes :
       IF ok THEN /\ irq' = TRUE /\ disconnect' = FALSE
                  /\ drv' = "resume_lock"
             ELSE /\ drv' = "active" /\ UNCHANGED <<irq, disconnect>>
  /\ UNCHANGED <<vars, op, work, core, registered>>

ResumeLock ==
  /\ drv = "resume_lock"
  /\ Lock("pm", "restart")
  /\ drv' = "resuming"
  /\ UNCHANGED <<vars, op, work, disconnect, irq, registered>>

(* Lines 268-274: mei_restart returns, with its error or not.              *)
ResumeDone ==
  /\ drv = "resuming"
  /\ Unlock("pm")
  /\ drv' = "active"
  /\ UNCHANGED <<vars, op, work, disconnect, irq, registered>>

(* Lines 278-288 and 310-316: mei_vsc_remove or mei_vsc_shutdown begins.   *)
TeardownBegin ==
  /\ drv = "active"
  /\ \E o \in {"remove", "shutdown"} : op' = o
  /\ drv' = "cancel"
  /\ UNCHANGED <<vars, work, core, disconnect, irq, registered>>

(* Mutant of TeardownCancel: cancel_work, which does not wait for a work  *)
(* that is running.                                                        *)
TeardownCancelNoWait ==
  /\ drv = "cancel"
  /\ work' = IF work = "queued" THEN "none" ELSE work
  /\ disconnect' = TRUE
  /\ drv' = "teardown_lock"
  /\ UNCHANGED <<vars, op, core, irq, registered>>

(* cancel_work_sync: a queued work is cancelled, a running one waited     *)
(* for; then hw->disconnect is set (lines 288-290, 316-317).               *)
TeardownCancel ==
  /\ drv = "cancel"
  /\ work \notin WorkRunning
  /\ work' = IF work = "queued" THEN "none" ELSE work
  /\ disconnect' = TRUE
  /\ drv' = "teardown_lock"
  /\ UNCHANGED <<vars, op, core, irq, registered>>

TeardownLock ==
  /\ drv = "teardown_lock"
  /\ Lock("pm", "stop")
  /\ drv' = "tearing_down"
  /\ UNCHANGED <<vars, op, work, disconnect, irq, registered>>

(* Lines 291-295 and 318-321: after mei_stop, interrupts off, the IRQ     *)
(* freed and, on remove, mei_deregister.                                   *)
TeardownDone ==
  /\ drv = "tearing_down"
  /\ Unlock("pm")
  /\ drv' = IF op = "remove" THEN "removed" ELSE "off"
  /\ FreeIrq
  /\ registered' = (registered /\ op = "shutdown")
  /\ UNCHANGED <<vars, op, work, disconnect>>

-----------------------------------------------------------------------------
(* No device bound yet.                                                    *)
MeiInit ==
  /\ Init
  /\ drv = "unbound"
  /\ op = "remove"
  /\ work = "none"
  /\ core = CoreIdle
  /\ disconnect = FALSE
  /\ irq = FALSE
  /\ registered = FALSE

MeiNext ==
  \/ CoreReset \/ CoreResetDone \/ CoreStart \/ Loading
  \/ Probe
  \/ WorkBegin \/ WorkLockStart \/ WorkStartDone \/ WorkRegister
  \/ WorkLockStop \/ WorkStopDone
  \/ SuspendBegin \/ SuspendLock \/ SuspendDone
  \/ ResumeBegin \/ ResumeLock \/ ResumeDone
  \/ TeardownBegin \/ TeardownCancel \/ TeardownLock \/ TeardownDone

(* A MEI core call runs to its return once it holds dev->device_lock, and *)
(* so do init_hw and hw_start under it.  Nothing else is assumed fair: not *)
(* the workqueue, the driver core's callbacks or its choice to call them. *)
MeiFairness ==
  /\ WF_allVars(CoreReset) /\ WF_allVars(CoreResetDone)
  /\ WF_allVars(CoreStart) /\ WF_allVars(Loading)

MeiSpec == MeiInit /\ [][MeiNext]_allVars /\ MeiFairness

-----------------------------------------------------------------------------
(* The type invariant of the driver state.                                 *)
MeiTypeOK ==
  /\ TypeOK
  /\ drv \in DrvStable \cup {"suspend_lock", "suspending", "resume_lock",
                            "resuming", "cancel", "teardown_lock",
                            "tearing_down"}
  /\ op \in {"remove", "shutdown"}
  /\ work \in WorkRunning \cup {"none", "queued", "done"}
  /\ core.by \in {"none", "work", "pm"}
  /\ disconnect \in BOOLEAN /\ irq \in BOOLEAN /\ registered \in BOOLEAN

(* Once mei_vsc_suspend has returned, and until resume, the firmware is   *)
(* not downloaded: a download in progress finished before mei_stop got    *)
(* dev->device_lock, and a probe_work still queued that starts the device  *)
(* meanwhile finds hw->disconnect set, so hw_reset skips init_hw.          *)
SuspendedNoDownload == drv = "suspended" => pc \notin LoaderPcs

(* Once remove or shutdown has returned, probe_work is neither queued nor *)
(* running, no MEI core call holds dev->device_lock, the device is reset  *)
(* and down and its IRQ is free: cancel_work_sync waited for the work      *)
(* before mei_stop.                                                        *)
TornDownQuiescent ==
  drv \in {"removed", "off"} =>
    /\ work \notin WorkRunning \cup {"queued"}
    /\ core = CoreIdle
    /\ pc = "down"
    /\ ~irq

(* Every reset the MEI core starts under dev->device_lock ends, whether    *)
(* it comes from probe_work, resume or a teardown and whether             *)
(* hw->disconnect is set: init_hw runs to its return and hw_start's poll   *)
(* of a firmware that never answers times out.                             *)
CoreCallsEnd == core.stage \in {"reset", "load", "start"} ~> core.stage = "done"

=============================================================================
