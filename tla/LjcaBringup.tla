---------------------------- MODULE LjcaBringup -----------------------------
(***************************************************************************)
(* Bring-up and teardown of the LJCA bridge (drivers/mfd/ljca.c).          *)
(* ljca_probe arms the bulk-in URB, then builds the stub list: the MNG     *)
(* stub with its reset handshake, a best-effort enumeration of GPIO, I2C   *)
(* and SPI that allocates one stub per kind and one auxiliary child per    *)
(* unit, and the DIAG stub.  ljca_disconnect and probe's error path stop   *)
(* the URB and tear children and stubs down.  Meanwhile the URB            *)
(* completion looks stubs up by type, and bound children look up their    *)
(* stub in ljca_transfer.  Each exchange is one step with an outcome; the  *)
(* exchange itself is LjcaTransport's.                                     *)
(***************************************************************************)
EXTENDS Naturals, Sequences, SequencesExt

CONSTANTS
  I2cNums,         \* desc->num values an I2C enumeration reply may carry
  SpiNums,         \* desc->num values an SPI enumeration reply may carry
  ExchOutcomes,    \* an exchange (write, ACK, reply checks) succeeds: BOOLEAN
  AllocOutcomes    \* an allocation or auxiliary_device_init/add succeeds

Slots == 5                          \* ARRAY_SIZE(dev->ljcas)
Kinds == <<"gpio", "i2c", "spi">>   \* the order ljca_mng_link enumerates in
StubTypes == {"mng", "diag", "gpio", "i2c", "spi"}
None == "none"

(* Units an enumeration reply of kind k may report; GPIO adds one child.   *)
NumsOf(k) ==
  CASE k = "gpio" -> {1} [] k = "i2c" -> I2cNums [] k = "spi" -> SpiNums

VARIABLES
  pc,        \* where ljca_probe or the teardown is; "gone" when unbound
  kind,      \* index into Kinds of the enumeration in progress
  units,     \* desc->num of the current reply
  idx,       \* the stub_init loop's i
  stubs,     \* the types on dev->stubs_list
  children,  \* dev->ljcas[0 .. ljca_count-1]: each child's type and id
  urb,       \* the bulk-in URB is submitted
  started,   \* dev->started
  rx,        \* the stub type the URB completion found and is using, or None
  calls,     \* bound children inside ljca_transfer with the stub they found
  sysfs,     \* each sysfs attribute's call: Idle, or the stub it looked up
  events,    \* each stub's event_entrys: the children registered on it
  walk       \* the entries ljca_stub_notify has still to call, under the
             \* stub's event_cb_lock; {} when no walk is under way

vars == <<pc, kind, units, idx, stubs, children, urb, started, rx, calls, sysfs,
          events, walk>>

Attrs == {"version", "dfu", "trace"}   \* ljca_attrs (lines 1009-1014)
Idle == "idle"

Child == [type : {"gpio", "i2c", "spi"}, id : Nat]
K == Kinds[kind]

-----------------------------------------------------------------------------
(* ljca_mng_link (lines 877-899): whatever the enumeration of one kind     *)
(* returned, go on with the next.                                          *)
NextKind ==
  /\ kind' = kind + 1
  /\ pc' = "enum"

(* Lines 1017-1059 with ljca_start (565-584): allocate the device, find    *)
(* the endpoints, allocate buffer and URB, submit the URB and set          *)
(* started.  Any failure goes to the error label and leaves nothing.       *)
Probe ==
  /\ pc = "gone"
  /\ \E ok \in AllocOutcomes :
       IF ok THEN /\ pc' = "mng" /\ urb' = TRUE /\ started' = TRUE
             ELSE UNCHANGED <<pc, urb, started>>
  /\ UNCHANGED <<kind, units, idx, stubs, children, rx, calls, sysfs, events, walk>>

(* ljca_stub_alloc (lines 259-273): kzalloc the stub and list_add_tail it  *)
(* to dev->stubs_list, with no lock held.                                  *)
StubAlloc(t, ok) == stubs' = IF ok THEN stubs \cup {t} ELSE stubs

(* Lines 901-915: allocate the MNG stub; -ENOMEM goes to error_stop.       *)
MngInit ==
  /\ pc = "mng"
  /\ \E ok \in AllocOutcomes :
       /\ StubAlloc("mng", ok)
       /\ pc' = IF ok THEN "handshake" ELSE "stop"
  /\ UNCHANGED <<kind, units, idx, children, urb, started, rx, calls, sysfs, events, walk>>

(* Lines 586-607: RESET_NOTIFY with the next reset id; a failed exchange,  *)
(* a short reply or a different id fails ljca_mng_init and the probe.      *)
Handshake ==
  /\ pc = "handshake"
  /\ \E ok \in ExchOutcomes :
       IF ok THEN pc' = "enum" /\ kind' = 1
             ELSE pc' = "stop" /\ UNCHANGED kind
  /\ UNCHANGED <<units, idx, stubs, children, urb, started, rx, calls, sysfs, events, walk>>

(* Lines 733-754 (and 784-802, 831-849): the ENUM exchange for kind K.  A  *)
(* failure, a GPIO length or pin-count mismatch, skips the kind; a reply  *)
(* gives the number of units.                                              *)
EnumReply ==
  /\ pc = "enum"
  /\ kind \in DOMAIN Kinds
  /\ \E ok \in ExchOutcomes, n \in NumsOf(K) :
       IF ok THEN pc' = "alloc" /\ units' = n /\ UNCHANGED kind
             ELSE NextKind /\ UNCHANGED units
  /\ UNCHANGED <<idx, stubs, children, urb, started, rx, calls, sysfs, events, walk>>

(* Lines 714-716, 762-764, 810-812: the kind's stub; -ENOMEM skips it.     *)
KindStubAlloc ==
  /\ pc = "alloc"
  /\ \E ok \in AllocOutcomes :
       /\ StubAlloc(K, ok)
       /\ IF ok THEN pc' = "add" /\ idx' = 0 /\ UNCHANGED kind
                ELSE NextKind /\ UNCHANGED idx
  /\ UNCHANGED <<units, children, urb, started, rx, calls, sysfs, events, walk>>

(* ljca_stub_destroy (lines 276-281): list_del and kfree of one stub.  Its *)
(* event_entrys go with it, unfreed: callbacks registered on it are never *)
(* called again, and their unregistration finds no stub.                  *)
StubDestroy(t) ==
  /\ stubs' = stubs \ {t}
  /\ events' = [events EXCEPT ![t] = {}]

(* Mutant of AddChild: the slot test off by one.                           *)
AddChildOverSlots ==
  /\ pc = "add"
  /\ idx < units
  /\ \E ok \in AllocOutcomes :
       IF Len(children) <= Slots /\ ok
         THEN /\ children' = Append(children, [type |-> K, id |-> idx])
              /\ idx' = idx + 1
              /\ UNCHANGED <<stubs, pc, kind, events>>
         ELSE StubDestroy(K) /\ NextKind /\ UNCHANGED <<children, idx>>
  /\ UNCHANGED <<units, urb, started, rx, calls, sysfs, walk>>

(* Mutant of AddChild: the unit index not advanced.                        *)
AddChildSameId ==
  /\ pc = "add"
  /\ idx < units
  /\ \E ok \in AllocOutcomes :
       IF Len(children) < Slots /\ ok
         THEN /\ children' = Append(children, [type |-> K, id |-> idx])
              /\ UNCHANGED <<stubs, pc, kind, idx, events>>
         ELSE StubDestroy(K) /\ NextKind /\ UNCHANGED <<children, idx>>
  /\ UNCHANGED <<units, urb, started, rx, calls, sysfs, walk>>

(* ljca_add_aux_dev (lines 642-689) for unit idx, in the stub_init loop:   *)
(* a full ljcas array is -EINVAL, and an allocation or the auxiliary       *)
(* device's init or add may fail; any failure destroys the kind's stub     *)
(* (lines 727-728, 775-777, 822-824) and ends the kind, leaving the units  *)
(* already added in place.  On success the child is bound and may call.   *)
AddChild ==
  /\ pc = "add"
  /\ idx < units
  /\ \E ok \in AllocOutcomes :
       IF Len(children) < Slots /\ ok
         THEN /\ children' = Append(children, [type |-> K, id |-> idx])
              /\ idx' = idx + 1
              /\ UNCHANGED <<stubs, pc, kind, events>>
         ELSE StubDestroy(K) /\ NextKind /\ UNCHANGED <<children, idx>>
  /\ UNCHANGED <<units, urb, started, rx, calls, sysfs, walk>>

(* Lines 766-781, 814-828: every unit added, stub_init returns 0.          *)
AddDone ==
  /\ pc = "add"
  /\ idx = units
  /\ NextKind
  /\ UNCHANGED <<units, idx, stubs, children, urb, started, rx, calls, sysfs, events, walk>>

(* Mutant of DiagInit: probe goes on when the DIAG stub is not allocated. *)
DiagInitIgnoreError ==
  /\ pc = "enum"
  /\ kind \notin DOMAIN Kinds
  /\ \E ok \in AllocOutcomes :
       /\ StubAlloc("diag", ok)
       /\ pc' = "bound"
  /\ UNCHANGED <<kind, units, idx, children, urb, started, rx, calls, sysfs, events, walk>>

(* Lines 923-930 and 1067-1071: the DIAG stub once enumeration is over.    *)
DiagInit ==
  /\ pc = "enum"
  /\ kind \notin DOMAIN Kinds
  /\ \E ok \in AllocOutcomes :
       /\ StubAlloc("diag", ok)
       /\ pc' = IF ok THEN "bound" ELSE "stop"
  /\ UNCHANGED <<kind, units, idx, children, urb, started, rx, calls, sysfs, events, walk>>

-----------------------------------------------------------------------------
(* Teardown: probe's error_stop (lines 1077-1085) and ljca_disconnect     *)
(* (lines 1088-1096) run the same steps.                                   *)

(* Mutant of Disconnect: the children removed before ljca_stop.           *)
DisconnectAuxFirst ==
  /\ pc = "bound"
  /\ \A a \in Attrs : sysfs[a] = Idle
  /\ calls = {}
  /\ children' = <<>>
  /\ pc' = "stop"
  /\ UNCHANGED <<kind, units, idx, stubs, urb, started, rx, calls, sysfs, events, walk>>

(* Lines 1088-1091: the USB core unbinds a probed bridge.  It removes the  *)
(* driver's attribute groups, waiting for calls in them, before it calls   *)
(* ljca_disconnect.                                                        *)
Disconnect ==
  /\ pc = "bound"
  /\ \A a \in Attrs : sysfs[a] = Idle
  /\ pc' = "stop"
  /\ UNCHANGED <<kind, units, idx, stubs, children, urb, started, rx, calls, sysfs, events, walk>>

(* ljca_stop, lines 948-951: clear started under dev->mutex.               *)
StopClear ==
  /\ pc = "stop"
  /\ started' = FALSE
  /\ pc' = "kill"
  /\ UNCHANGED <<kind, units, idx, stubs, children, urb, rx, calls, sysfs, events, walk>>

(* Mutant of KillUrb: the URB cancelled without waiting for its handler.   *)
KillUrbNoWait ==
  /\ pc = "kill"
  /\ urb' = FALSE
  /\ pc' = "aux"
  /\ UNCHANGED <<kind, units, idx, stubs, children, started, rx, calls, sysfs, events, walk>>

(* ljca_stop, line 953: usb_kill_urb waits for a running completion to     *)
(* return and keeps the URB from being resubmitted.                        *)
KillUrb ==
  /\ pc = "kill"
  /\ rx = None
  /\ urb' = FALSE
  /\ pc' = "aux"
  /\ UNCHANGED <<kind, units, idx, stubs, children, started, rx, calls, sysfs, events, walk>>

(* ljca_cleanup_aux_dev (lines 691-699): delete and uninit every child.    *)
(* Deleting a child runs its driver's remove, which returns once the       *)
(* child's own calls have.                                                 *)
CleanupAux ==
  /\ pc = "aux"
  /\ calls = {}
  /\ children' = <<>>
  /\ pc' = "stubs"
  /\ UNCHANGED <<kind, units, idx, stubs, urb, started, rx, calls, sysfs, events, walk>>

(* ljca_stub_cleanup (lines 283-290) and ljca_delete (932-937).            *)
CleanupStubs ==
  /\ pc = "stubs"
  /\ stubs' = {}
  /\ events' = [t \in StubTypes |-> {}]
  /\ pc' = "gone"
  /\ UNCHANGED <<kind, units, idx, children, urb, started, rx, calls, sysfs, walk>>

-----------------------------------------------------------------------------
(* ljca_read_complete (lines 528-562) with ljca_parse (318-326) and        *)
(* ljca_stub_find (292-300): a frame of type t arrives on the armed URB;   *)
(* an unknown type is dropped and the URB resubmitted.  This is the ACK   *)
(* path, and any frame of a type with no stub.                             *)
RxFind(t) ==
  /\ urb
  /\ rx = None
  /\ rx' = IF t \in stubs THEN t ELSE None
  /\ UNCHANGED <<pc, kind, units, idx, stubs, children, urb, started, calls, sysfs, events, walk>>

(* Lines 325-331 with ljca_stub_notify (306-317): a frame without the ACK  *)
(* flag for a listed stub; under event_cb_lock, call every registered     *)
(* entry in turn.                                                          *)
RxNotify(t) ==
  /\ urb
  /\ rx = None
  /\ t \in stubs
  /\ rx' = t
  /\ walk' = events[t]
  /\ UNCHANGED <<pc, kind, units, idx, stubs, children, urb, started, calls, sysfs, events>>

(* Line 313: the walk calls one entry's notify.                            *)
NotifyCall(c) ==
  /\ c \in walk
  /\ walk' = walk \ {c}
  /\ UNCHANGED <<pc, kind, units, idx, stubs, children, urb, started, rx, calls, sysfs, events>>

(* Lines 328-356 and 559-562: the completion has used the stub and        *)
(* resubmits the URB.                                                      *)
RxDone ==
  /\ rx # None
  /\ walk = {}
  /\ rx' = None
  /\ UNCHANGED <<pc, kind, units, idx, stubs, children, urb, started, calls, sysfs, events, walk>>

(* ljca_transfer_internal (lines 436-447): a bound child looks up its      *)
(* stub without a lock; without one the call returns -ENODEV.              *)
ChildCall(c) ==
  /\ c \in ToSet(children)
  /\ c.type \in stubs
  /\ c \notin calls
  /\ calls' = calls \cup {c}
  /\ UNCHANGED <<pc, kind, units, idx, stubs, children, urb, started, rx, sysfs, events, walk>>

(* ljca_stub_write returns to the child.                                   *)
ChildReturn(c) ==
  /\ c \in calls
  /\ calls' = calls \ {c}
  /\ UNCHANGED <<pc, kind, units, idx, stubs, children, urb, started, rx, sysfs, events, walk>>

(* The stub's event_cb_lock is free: no notify walk holds it.             *)
EventLockFree(t) == ~(rx = t /\ walk # {})

(* ljca_register_event_cb (lines 464-502) by a bound child: find its stub, *)
(* and under event_cb_lock append an entry unless one with its id is      *)
(* there (-EBUSY); without a stub it returns -ENODEV.  The failures change *)
(* nothing; LjcaEvents has the scan's uninitialized ret.                   *)
ChildRegister(c) ==
  /\ c \in ToSet(children)
  /\ c.type \in stubs
  /\ EventLockFree(c.type)
  /\ c \notin events[c.type]
  /\ events' = [events EXCEPT ![c.type] = @ \cup {c}]
  /\ UNCHANGED <<pc, kind, units, idx, stubs, children, urb, started, rx, calls, sysfs, walk>>

(* ljca_unregister_event_cb (lines 504-525): under event_cb_lock, remove  *)
(* the child's entry from its stub's list.                                 *)
ChildUnregister(c) ==
  /\ c \in ToSet(children)
  /\ c.type \in stubs
  /\ EventLockFree(c.type)
  /\ c \in events[c.type]
  /\ events' = [events EXCEPT ![c.type] = @ \ {c}]
  /\ UNCHANGED <<pc, kind, units, idx, stubs, children, urb, started, rx, calls, sysfs, walk>>

-----------------------------------------------------------------------------
(* The sysfs attributes (dev_groups), present from a successful probe to   *)
(* the unbind.  Each looks its stub up with ljca_stub_find and uses the    *)
(* result without checking it.  Parsing the input and the exchange itself *)
(* (one ljca_stub_write, or none for a "0" written to ljca_enable_dfu)     *)
(* change no state of this module.                                         *)
SysfsLookup(a, t) ==
  /\ pc = "bound"
  /\ sysfs[a] = Idle
  /\ sysfs' = [sysfs EXCEPT ![a] = IF t \in stubs THEN t ELSE None]
  /\ UNCHANGED <<pc, kind, units, idx, stubs, children, urb, started, rx, calls,
                 events, walk>>

(* ljca_version_show (lines 999-1005): the MNG stub.                      *)
VersionShow == SysfsLookup("version", "mng")

(* ljca_enable_dfu_store (lines 956-976): the MNG stub.                   *)
EnableDfuStore == SysfsLookup("dfu", "mng")

(* ljca_trace_level_store (lines 979-996): the DIAG stub.                 *)
TraceLevelStore == SysfsLookup("trace", "diag")

(* ljca_mng_get_version (851-869), ljca_mng_set_dfu_mode (871-875) or      *)
(* ljca_diag_set_trace_level (917-921) returns, and so does the attribute. *)
SysfsReturn(a) ==
  /\ sysfs[a] # Idle
  /\ sysfs' = [sysfs EXCEPT ![a] = Idle]
  /\ UNCHANGED <<pc, kind, units, idx, stubs, children, urb, started, rx, calls,
                 events, walk>>

-----------------------------------------------------------------------------
(* The bridge is not bound.                                                *)
Init ==
  /\ pc = "gone"
  /\ kind = 1 /\ units = 0 /\ idx = 0
  /\ stubs = {}
  /\ children = <<>>
  /\ urb = FALSE /\ started = FALSE
  /\ rx = None
  /\ calls = {}
  /\ sysfs = [a \in Attrs |-> Idle]
  /\ events = [t \in StubTypes |-> {}]
  /\ walk = {}

Next ==
  \/ Probe \/ MngInit \/ Handshake \/ EnumReply \/ KindStubAlloc
  \/ AddChild \/ AddDone \/ DiagInit
  \/ Disconnect \/ StopClear \/ KillUrb \/ CleanupAux \/ CleanupStubs
  \/ \E t \in StubTypes : RxFind(t)
  \/ \E t \in StubTypes : RxNotify(t)
  \/ \E c \in walk : NotifyCall(c)
  \/ RxDone
  \/ \E c \in ToSet(children) : ChildRegister(c) \/ ChildUnregister(c)
  \/ \E c \in ToSet(children) : ChildCall(c)
  \/ \E c \in calls : ChildReturn(c)
  \/ VersionShow \/ EnableDfuStore \/ TraceLevelStore
  \/ \E a \in Attrs : SysfsReturn(a)

Spec == Init /\ [][Next]_vars

-----------------------------------------------------------------------------
(* The type invariant: dev->ljcas never holds more than its                *)
(* LJCA_ACPI_MATCH_MAX entries.                                            *)
TypeOK ==
  /\ pc \in {"gone", "mng", "handshake", "enum", "alloc", "add", "bound",
             "stop", "kill", "aux", "stubs"}
  /\ kind \in 1..(Len(Kinds) + 1)
  /\ stubs \subseteq StubTypes
  /\ children \in Seq(Child) /\ Len(children) <= Slots
  /\ urb \in BOOLEAN /\ started \in BOOLEAN
  /\ rx \in StubTypes \cup {None}
  /\ calls \subseteq Child
  /\ sysfs \in [Attrs -> StubTypes \cup {None, Idle}]
  /\ events \in [StubTypes -> SUBSET Child]
  /\ walk \subseteq Child

(* Each child carries the identity spec 4.5 promises: per kind, the ids    *)
(* of the children on dev->ljcas are 0, 1, ... in the order they were      *)
(* added, so no two children of a kind share an auxiliary device id.       *)
ChildIdsPerKind ==
  \A k \in {"gpio", "i2c", "spi"} :
    LET ofK == SelectSeq(children, LAMBDA c : c.type = k)
    IN \A j \in DOMAIN ofK : ofK[j].id = j - 1

(* Once probe's error path or ljca_disconnect has returned, nothing of the *)
(* bridge is left: the URB is dead and its completion not running, no     *)
(* child is bound or inside a call, and the stub list is empty.           *)
TeardownComplete ==
  pc = "gone" =>
    /\ ~urb /\ rx = None
    /\ children = <<>> /\ calls = {}
    /\ stubs = {}


(* A sysfs attribute never uses a stub that is not on dev->stubs_list:     *)
(* probe binds the bridge only with its MNG and DIAG stubs allocated, and  *)
(* the unbind takes the attributes away before ljca_disconnect frees the   *)
(* stubs, so the unchecked ljca_stub_find results at lines 961, 984 and    *)
(* 1003 are never an error pointer or a freed stub.                        *)
SysfsStubLive == \A a \in Attrs : sysfs[a] # Idle => sysfs[a] \in stubs

(* An event callback is called only for a child that is still bound:      *)
(* ljca_unregister_event_cb waits for a walk in progress, and             *)
(* ljca_disconnect stops the URB, waiting for its completion and with it  *)
(* any ljca_stub_notify walk, before ljca_cleanup_aux_dev removes the     *)
(* children whose contexts the callbacks use.                              *)
NotifyOnlyBound == walk \subseteq ToSet(children)

====
