------------------------------ MODULE IntelVsc ------------------------------
(***************************************************************************)
(* Camera arbitration of the vision sensing controller                     *)
(* (drivers/misc/ivsc/intel_vsc.c).  Two components, the ACE driver and    *)
(* the CSI driver, register their ops; the second registration finds both  *)
(* present in check_component_ready and registers the sensor's regulator   *)
(* and clock.  The regulator core then turns the sensor on and off through *)
(* sensor_power_on/off, which hand the camera to the host (acquire) and    *)
(* back to the firmware (release) under vsc.mutex; other drivers may call  *)
(* the exported acquire and release too.  The components' ops are          *)
(* abstracted to their effect on who owns the camera and the CSI link.     *)
(***************************************************************************)
EXTENDS Integers, FiniteSets

CONSTANTS
  ExtUsers,        \* other drivers calling vsc_acquire/release_camera_sensor
  SensorPresent,   \* outcomes of acpi_dev_get_first_consumer_dev: found or not
  OpsOutcomes,     \* outcomes of one component op: {TRUE} or BOOLEAN
  LaneBytes,       \* values of the SSDB lanes byte get_mipi_lanes may read
  LaneErrnos,      \* errnos get_mipi_lanes may return: ENODEV 19, EINVAL 22
  RegOutcomes,     \* outcomes of regulator_register
  ClockOutcomes,   \* how intel_vsc_register_clock ends (see RegisterClock)
  Rates,           \* rates a consumer of the clock may set
  Free             \* a lock nobody holds

ASSUME SensorPresent \subseteq BOOLEAN /\ SensorPresent # {}
ASSUME OpsOutcomes \subseteq BOOLEAN /\ OpsOutcomes # {}
ASSUME LaneBytes \subseteq 0..255 /\ LaneErrnos \subseteq {19, 22}
ASSUME RegOutcomes \subseteq BOOLEAN
ASSUME ClockOutcomes \subseteq {"nomem", "clk_err", "clkdev_err", "ok"}

(* DEFULT_LINK_FREQ_400MHZ, the rate intel_vsc_register_clock sets.       *)
DefaultRate == 400000000

Comps == {"ace", "csi"}
Users == {"reg"} \cup ExtUsers      \* "reg": the regulator core

(* The places inside acquire and release where a component op is next.   *)
CallPcs == {"ace_ipu", "csi_ipu", "mipi", "csi_fw", "ace_fw"}

VARIABLES
  cpc,        \* each component driver's place: off, reg, check, on, unreg
  registered, \* vsc.ace_registerred and vsc.csi_registerred
  spin,       \* holder of vsc.lock
  regState,   \* the regulator and clock: none, registered, or registered
              \* again over the live ones ("clobbered")
  mutex,      \* holder of vsc.mutex
  upc,        \* each user's place in acquire or release
  ret,        \* the result the user's call will return
  owner,      \* who owns the camera (ACE) and the CSI link: "fw" or "ipu"
  sensorOn,   \* vsc.sensor_on
  laneNum,    \* vsc.lane_num
  rate,       \* vsc.clock.rate
  rdev,       \* a regulator_register has succeeded: the regulator exists
  clk,        \* a clock has been registered and its lookup created
  conf        \* the lane count and frequency sensor_power_on last read

regVars == <<laneNum, rate, rdev, clk, conf>>
vars == <<cpc, registered, spin, regState, mutex, upc, ret, owner, sensorOn,
          regVars>>

-----------------------------------------------------------------------------
(* Component drivers.  Loading and unloading are their own decisions.      *)

Load(c) ==
  /\ cpc[c] = "off"
  /\ cpc' = [cpc EXCEPT ![c] = "reg"]
  /\ UNCHANGED <<registered, spin, regState, mutex, upc, ret, owner, sensorOn, regVars>>

(* Lines 97-116 and 132-152: with valid ops, set the pointers and the      *)
(* registered flag under vsc.lock, unlock, then check_component_ready.     *)
Register(c) ==
  /\ cpc[c] = "reg"
  /\ spin = Free
  /\ registered' = [registered EXCEPT ![c] = TRUE]
  /\ cpc' = [cpc EXCEPT ![c] = "check"]
  /\ UNCHANGED <<spin, regState, mutex, upc, ret, owner, sensorOn, regVars>>

(* The regulator after one more successful registration of it.           *)
Registered(s) == IF s = "none" THEN "registered" ELSE "clobbered"

(* get_mipi_lanes (lines 339-376) as stored in the u32 vsc.lane_num: the    *)
(* SSDB lanes byte, read from the buffer or, when the buffer is shorter    *)
(* than the lanes field, from the uninitialized stack; -ENODEV without an  *)
(* SSDB object; -EINVAL for a buffer of the wrong type or too long.  An    *)
(* error r stands for the u32 2^32 + r, which TLC's integers cannot hold.  *)
GetMipiLanes == LaneBytes \cup {-e : e \in LaneErrnos}

(* Lines 57-74 with intel_vsc_register_regulator (379-417), called at the  *)
(* end of either registration.  Under vsc.lock, when both flags are set,   *)
(* look up the sensor: when there is none, return -ENODEV with vsc.lock    *)
(* still held (line 69); otherwise read the lane count and register the    *)
(* regulator, whose result is ignored.  The clock follows, still locked.   *)
CheckComponentReady(c) ==
  /\ cpc[c] = "check"
  /\ spin = Free
  /\ IF registered["ace"] /\ registered["csi"]
       THEN \E found \in SensorPresent :
              IF found
                THEN \E l \in GetMipiLanes, ok \in RegOutcomes :
                       /\ spin' = c
                       /\ cpc' = [cpc EXCEPT ![c] = "clock"]
                       /\ laneNum' = l
                       /\ rdev' = (rdev \/ ok)
                       /\ regState' = IF ok THEN Registered(regState) ELSE regState
                       /\ UNCHANGED <<rate, clk, conf>>
                ELSE /\ spin' = c
                     /\ cpc' = [cpc EXCEPT ![c] = "on"]
                     /\ UNCHANGED <<regState, regVars>>
       ELSE /\ cpc' = [cpc EXCEPT ![c] = "on"]
            /\ UNCHANGED <<spin, regState, regVars>>
  /\ UNCHANGED <<registered, mutex, upc, ret, owner, sensorOn>>

(* Mutant of RegisterClock: vsc.lock not released at the end of           *)
(* check_component_ready.                                                  *)
RegisterClockNoUnlock(c) ==
  /\ cpc[c] = "clock"
  /\ \E o \in ClockOutcomes :
       /\ rate' = IF o = "nomem" THEN rate ELSE DefaultRate
       /\ clk' = (clk \/ o = "ok")
  /\ cpc' = [cpc EXCEPT ![c] = "on"]
  /\ UNCHANGED <<registered, spin, regState, mutex, upc, ret, owner, sensorOn,
                 laneNum, rdev, conf>>

(* intel_vsc_register_clock (lines 454-489), then lines 75-82: kasprintf   *)
(* of the name may fail before the rate is set; otherwise the rate becomes *)
(* 400 MHz and clk_register, then clkdev_create, may fail (the latter      *)
(* unregistering the clock).  The result is ignored and vsc.lock released. *)
RegisterClock(c) ==
  /\ cpc[c] = "clock"
  /\ \E o \in ClockOutcomes :
       /\ rate' = IF o = "nomem" THEN rate ELSE DefaultRate
       /\ clk' = (clk \/ o = "ok")
  /\ spin' = Free
  /\ cpc' = [cpc EXCEPT ![c] = "on"]
  /\ UNCHANGED <<registered, regState, mutex, upc, ret, owner, sensorOn,
                 laneNum, rdev, conf>>

(* intel_vsc_clk_set_rate (lines 438-446): a consumer of the registered    *)
(* clock sets its rate, which recalc_rate reports back.                    *)
ClkSetRate(r) ==
  /\ clk
  /\ rate' = r
  /\ UNCHANGED <<cpc, registered, spin, regState, mutex, upc, ret, owner,
                 sensorOn, laneNum, rdev, clk, conf>>

Unload(c) ==
  /\ cpc[c] = "on"
  /\ cpc' = [cpc EXCEPT ![c] = "unreg"]
  /\ UNCHANGED <<registered, spin, regState, mutex, upc, ret, owner, sensorOn, regVars>>

(* Lines 120-129 and 156-165: clear the flag under vsc.lock.  The ops      *)
(* pointers and the regulator stay as they are.                            *)
Unregister(c) ==
  /\ cpc[c] = "unreg"
  /\ spin = Free
  /\ registered' = [registered EXCEPT ![c] = FALSE]
  /\ cpc' = [cpc EXCEPT ![c] = "off"]
  /\ UNCHANGED <<spin, regState, mutex, upc, ret, owner, sensorOn, regVars>>

-----------------------------------------------------------------------------
(* Callers of acquire and release.  The regulator core calls enable only   *)
(* when is_enabled (vsc.sensor_on) says off, and disable when it says on;  *)
(* other drivers call while both components are registered.                *)
MayCall(u, on) ==
  IF u = "reg" THEN rdev /\ sensorOn = on
               ELSE registered["ace"] /\ registered["csi"]

(* sensor_power_on (lines 270-279): the regulator core's enable reads     *)
(* vsc.lane_num and vsc.clock.rate into its vsc_mipi_config, without any   *)
(* lock, and only then calls acquire, which waits for vsc.mutex.           *)
PowerOnRead ==
  /\ upc["reg"] = "idle"
  /\ MayCall("reg", 0)
  /\ conf' = [lanes |-> laneNum, freq |-> rate \div 100000]
  /\ upc' = [upc EXCEPT !["reg"] = "acq_lock"]
  /\ UNCHANGED <<cpc, registered, spin, regState, mutex, ret, owner, sensorOn,
                 laneNum, rate, rdev, clk>>

(* Where a caller of acquire starts: the regulator core after its read,    *)
(* another driver whenever it may call.                                     *)
AcquireReady(u) ==
  IF u = "reg" THEN upc[u] = "acq_lock" ELSE upc[u] = "idle" /\ MayCall(u, 0)

(* Mutant of AcquireLock: vsc.mutex not taken.                             *)
AcquireLockNoMutex(u) ==
  /\ AcquireReady(u)
  /\ upc' = [upc EXCEPT ![u] = "ace_ipu"]
  /\ UNCHANGED <<cpc, registered, spin, regState, mutex, ret, owner, sensorOn,
                 regVars>>

(* Lines 168-192: take vsc.mutex.                                          *)
AcquireLock(u) ==
  /\ AcquireReady(u)
  /\ mutex = Free
  /\ mutex' = u
  /\ upc' = [upc EXCEPT ![u] = "ace_ipu"]
  /\ UNCHANGED <<cpc, registered, spin, regState, ret, owner, sensorOn,
                 regVars>>

(* One op of a component: on success the owner of what it hands over      *)
(* becomes who, and the call goes on to next; a failure jumps to err.      *)
Op(u, what, who, next, err) ==
  /\ \E ok \in OpsOutcomes :
       /\ owner' = IF ok /\ what # "none" THEN [owner EXCEPT ![what] = who]
                                          ELSE owner
       /\ upc' = [upc EXCEPT ![u] = IF ok THEN next ELSE err]
       /\ ret' = [ret EXCEPT ![u] = ok]
  /\ UNCHANGED <<cpc, registered, spin, regState, mutex, sensorOn, regVars>>

(* Lines 194-201: csi_ops->set_privacy_callback, ace_ops->ipu_own_camera. *)
AcquireAce(u) == upc[u] = "ace_ipu" /\ Op(u, "ace", "ipu", "csi_ipu", "acq_unlock")

(* Lines 203-207: csi_ops->set_owner(CSI_IPU).                             *)
AcquireCsi(u) == upc[u] = "csi_ipu" /\ Op(u, "csi", "ipu", "mipi", "acq_unlock")

(* Lines 209-215: set_mipi_conf.                                           *)
AcquireMipi(u) == upc[u] = "mipi" /\ Op(u, "none", "ipu", "acq_unlock", "acq_unlock")

(* Lines 217-220, and sensor_power_on setting vsc.sensor_on on success.    *)
AcquireUnlock(u) ==
  /\ upc[u] = "acq_unlock"
  /\ mutex' = Free
  /\ upc' = [upc EXCEPT ![u] = "idle"]
  /\ sensorOn' = IF u = "reg" /\ ret[u] THEN 1 ELSE sensorOn
  /\ UNCHANGED <<cpc, registered, spin, regState, ret, owner, regVars>>

(* Lines 224-242 (from sensor_power_off, lines 289-296): take vsc.mutex.   *)
ReleaseLock(u) ==
  /\ upc[u] = "idle"
  /\ MayCall(u, 1)
  /\ mutex = Free
  /\ mutex' = u
  /\ upc' = [upc EXCEPT ![u] = "csi_fw"]
  /\ UNCHANGED <<cpc, registered, spin, regState, ret, owner, sensorOn, regVars>>

(* Lines 244-250: set_privacy_callback(NULL) and set_owner(CSI_FW).        *)
ReleaseCsi(u) == upc[u] = "csi_fw" /\ Op(u, "csi", "fw", "ace_fw", "rel_unlock")

(* Lines 252-257: ace_ops->ace_own_camera.                                 *)
ReleaseAce(u) == upc[u] = "ace_fw" /\ Op(u, "ace", "fw", "rel_unlock", "rel_unlock")

(* Mutant of ReleaseUnlock: mutex_unlock missing on the return path.     *)
ReleaseUnlockNoUnlock(u) ==
  /\ upc[u] = "rel_unlock"
  /\ upc' = [upc EXCEPT ![u] = "idle"]
  /\ sensorOn' = IF u = "reg" /\ ret[u] THEN 0 ELSE sensorOn
  /\ UNCHANGED <<cpc, registered, spin, regState, mutex, ret, owner, regVars>>

(* Lines 259-261, and sensor_power_off clearing vsc.sensor_on on success.  *)
ReleaseUnlock(u) ==
  /\ upc[u] = "rel_unlock"
  /\ mutex' = Free
  /\ upc' = [upc EXCEPT ![u] = "idle"]
  /\ sensorOn' = IF u = "reg" /\ ret[u] THEN 0 ELSE sensorOn
  /\ UNCHANGED <<cpc, registered, spin, regState, ret, owner, regVars>>

-----------------------------------------------------------------------------
(* intel_vsc_init (lines 491-502): nothing registered, both locks free.    *)
(* The firmware owns the camera when the host boots.                       *)
Init ==
  /\ cpc = [c \in Comps |-> "off"]
  /\ registered = [c \in Comps |-> FALSE]
  /\ spin = Free
  /\ regState = "none"
  /\ mutex = Free
  /\ upc = [u \in Users |-> "idle"]
  /\ ret = [u \in Users |-> TRUE]
  /\ owner = [c \in Comps |-> "fw"]
  /\ sensorOn = 0
  /\ laneNum = 0
  /\ rate = 0
  /\ rdev = FALSE
  /\ clk = FALSE
  /\ conf = [lanes |-> 0, freq |-> 0]

Next ==
  \/ \E c \in Comps :
       Load(c) \/ Register(c) \/ CheckComponentReady(c) \/ RegisterClock(c)
         \/ Unload(c) \/ Unregister(c)
  \/ \E r \in Rates : ClkSetRate(r)
  \/ PowerOnRead
  \/ \E u \in Users :
       \/ AcquireLock(u) \/ AcquireAce(u) \/ AcquireCsi(u) \/ AcquireMipi(u)
       \/ AcquireUnlock(u)
       \/ ReleaseLock(u) \/ ReleaseCsi(u) \/ ReleaseAce(u) \/ ReleaseUnlock(u)

(* A CPU spinning on vsc.lock takes it in its turn: the kernel's queued    *)
(* spinlocks serve waiters in order, so a waiter that sees the lock free   *)
(* again and again gets it (strong fairness), even while the other         *)
(* component keeps taking it.  The holder of vsc.lock and the steps under  *)
(* vsc.mutex run on to the unlock.  Loading, unloading and calling are the *)
(* environment's decisions.                                                *)
Fairness ==
  /\ \A c \in Comps : SF_vars(Register(c)) /\ SF_vars(CheckComponentReady(c))
                        /\ WF_vars(RegisterClock(c))
                        /\ SF_vars(Unregister(c))
  /\ \A u \in Users :
       WF_vars(AcquireAce(u) \/ AcquireCsi(u) \/ AcquireMipi(u)
                 \/ AcquireUnlock(u) \/ ReleaseCsi(u) \/ ReleaseAce(u)
                 \/ ReleaseUnlock(u))

Spec == Init /\ [][Next]_vars /\ Fairness

-----------------------------------------------------------------------------
(* The type invariant; vsc.mutex is held only by a caller that is inside  *)
(* acquire or release.                                                     *)
TypeOK ==
  /\ cpc \in [Comps -> {"off", "reg", "check", "clock", "on", "unreg"}]
  /\ registered \in [Comps -> BOOLEAN]
  /\ spin \in Comps \cup {Free}
  /\ regState \in {"none", "registered", "clobbered"}
  /\ mutex \in {u \in Users : upc[u] # "idle"} \cup {Free}
  /\ upc \in [Users -> {"idle", "acq_lock", "acq_unlock", "rel_unlock"} \cup CallPcs]
  /\ ret \in [Users -> BOOLEAN]
  /\ owner \in [Comps -> {"fw", "ipu"}]
  /\ sensorOn \in {0, 1}
  /\ laneNum \in {0} \cup GetMipiLanes
  /\ rate \in {0, DefaultRate} \cup Rates
  /\ rdev \in BOOLEAN /\ clk \in BOOLEAN
  /\ conf \in [lanes : {0} \cup GetMipiLanes, freq : Nat]

(* Whenever no acquire or release is under way and every caller's last    *)
(* call succeeded, the camera (ACE) and the CSI link have the same owner:  *)
(* vsc.mutex keeps a release from interleaving with an acquire, which      *)
(* would leave the host streaming from a sensor the firmware owns, or the  *)
(* reverse.  A failed op is not rolled back (lines 197-215, 246-256), so   *)
(* after a failure the owners may differ until that caller succeeds again. *)
OwnersAgreeWhenIdle ==
  mutex = Free /\ (\A u \in Users : ret[u]) => owner["ace"] = owner["csi"]

(* Every register and unregister call returns: nothing keeps vsc.lock     *)
(* past its critical section, so check_component_ready and the other       *)
(* component's calls never spin for ever.                                  *)
LockCallsReturn ==
  \A c \in Comps : cpc[c] \in {"reg", "check", "clock", "unreg"} ~> cpc[c] \in {"on", "off"}

(* check_component_ready registers the regulator and the clock of the one *)
(* static vsc.regulator and vsc.clock at most once.                        *)
RegisteredOnce == regState # "clobbered"

=============================================================================
