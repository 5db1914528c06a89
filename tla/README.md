# TLA+ models of the Intel VSC / LJCA drivers

This directory holds TLA+ specifications of the drivers under `src/`, the TLC
configurations that check them, and `PROJECT.json`, which maps every model
definition to the source lines it translates and lists the runs, the mutants,
the findings and the hazards.

## The system

| Part | Source | What it does |
|---|---|---|
| LJCA transport | `src/drivers/mfd/ljca.c` | USB multiplexer. It carries management, diagnostics, GPIO, I2C and SPI "stubs" over one bulk-out and one bulk-in pipe. |
| LJCA event fan-out | `ljca.c` 306-316, 464-526 | Per-stub list of child callbacks, invoked for frames without the ACK flag. |
| LJCA bring-up | `ljca.c` 586-946, 1017-1096 | Probe, reset handshake, GPIO/I2C/SPI enumeration, and one auxiliary child per unit. |
| SPI over LJCA | `src/drivers/spi/spi-ljca.c` | SPI controller. It fragments transfers into LJCA exchanges and caches the bus mode and speed. |
| VSC arbitration | `src/drivers/misc/ivsc/intel_vsc.c` | Pairs the ACE and CSI components and hands the camera between host and firmware. |
| MEI VSC hardware | `src/drivers/misc/mei/hw-vsc.c`, `hw-vsc.h` | Firmware loading and the MEI host interface of the vision sensing controller. |
| MEI VSC SPI glue | `src/drivers/misc/mei/spi-vsc.c` | Probe, remove and power management binding hw-vsc to the MEI core. |

### How the parts interact

Child drivers (GPIO, I2C, `spi-ljca`) call `ljca_transfer` and
`ljca_transfer_noack`, which both end in `ljca_stub_write`. The LJCA
transport serialises all exchanges on one `dev->mutex`:

1. The caller installs `cur_cmd`, the reply buffer and `acked = false` on the stub.
2. It writes the frame with `usb_bulk_msg`.
3. If it asked for an ACK, it sleeps in `wait_event_timeout` until `acked` is set or the timeout expires.

The bulk-in URB completion `ljca_read_complete` runs on another CPU without
the mutex:

- It validates the frame and finds the stub.
- It hands an event to the fan-out.
- For a reply whose cmd equals `cur_cmd`, it copies the payload into the published buffer, sets `acked` and wakes the waiter.
- In every case it resubmits the URB.

Suspend and resume call `ljca_stop` and `ljca_start`. These clear and set
`started` under the mutex, and kill and resubmit the URB.

## Modules

### `LjcaTransport` (`ljca.c`: exchange, dispatcher, stop/start)

| Variable | Code |
|---|---|
| `started` | `dev->started` |
| `urbArmed` | the bulk-in URB is submitted |
| `mutex` | owner of `dev->mutex` |
| `pc`, `call` | each caller's place in `ljca_stub_write` and its arguments |
| `curCmd`, `acked`, `ibuf` | `stub->cur_cmd`, `stub->acked`, `stub->ipacket` |
| `rx` | the completion handler's progress: idle, `matched` (past line 334) or `snap` (past 341, holding the buffer it read) |
| `pm` | progress of `ljca_suspend`/`ljca_resume` |
| `devPending`, `inq` | requests the peripheral holds, and frames it has queued for the host |
| `gen`, `ackBy` | history only: the one-bit stack-frame generation of each caller's buffer, and the request whose reply last set `acked` |
| `urbLost` | history only: the URB was last disarmed by a failed resubmission in the completion (line 560), not by `usb_kill_urb` |

The caller's stack buffer is named `<<caller, gen>>`. Two consecutive calls
use different frames; the call after next reuses the first. This is the
smallest naming in which a late copy can hit a frame that is dead, or one that
is reused.

Actions, one per stretch of code that no other actor observes halfway:

| Action | Code (ljca.c lines) |
|---|---|
| `StubWriteStart` | 358-394: build the header and test `started`. Early returns are stutters. |
| `StubWriteLock` | 396-400 |
| `StubWriteSend` | 401-416: success, or a failed or short write going to `error_unlock` |
| `StubWriteAcked`, `StubWriteTimeout` | 417-430 |
| `Release` | 427-430, shared by every return path |
| `ReadComplete` | 528-557 with 325-338 |
| `ParseSnapshot` | 340-341 |
| `ParseCopy` | 343-356 and the resubmission at 559-562 |
| `StopClearStarted`, `StopKillUrb` | 948-954 |
| `StartSubmit`, `StartSetStarted` | 565-584 |

The peripheral is three environment actions:

- `DevReply` answers a request that asked for an ACK.
- `DevDrop` executes a no-ACK request silently, or loses any request.
- `DevEvent` sends a frame that is not a reply.

A full peripheral NAKs the bulk-out. Then only the failing branch of
`StubWriteSend` is open, which is how `usb_bulk_msg` ends after its 200 ms
timeout.

Abstractions:

- Payloads, lengths and the `min()` of line 346 are left out; the properties only ask *which* buffer receives *which* reply.
- Malformed frames, events and URB errors all take the drop-and-resubmit path. They are one frame shape per type.
- `ljca_start` failing during resume is not modelled.

### `LjcaEvents` (`ljca.c`: event fan-out of one stub)

State:

- `entries`: `stub->event_entrys` as a sequence of `[id, notify]` records, in list order. `notify` says whether the callback pointer is non-NULL.
- `lock`: `event_cb_lock`, held across the notify walk.
- `toCall`: the rest of the walk.
- `cpc`: each child's place in registration.
- `lastRet`: history of what registration returned.

Actions:

| Action | Code (ljca.c lines) |
|---|---|
| `RegisterAlloc` | 471-481: stub lookup, kzalloc and filling the entry. `-ENOMEM` is a branch. |
| `RegisterLocked` | 483-500: the locked scan and append |
| `Unregister` | 504-525: remove the first match under the lock |
| `NotifyBegin`, `NotifyCall`, `NotifyEnd` | 306-317 |

`ret` at line 469 is never assigned when no entry matches. Reading it is
undefined, so the scan's outcome for a fresh id is a choice between a zero and
a nonzero garbage value (`ScanRet`). Child drivers are not in `src/`, so they
call register and unregister in any order.

### `SpiLjca` (`spi-ljca.c`: the SPI controller over LJCA)

The SPI core calls `ljca_spi_transfer_one` for one transfer at a time, so the
controller is one sequential process. The peripheral is the state `dev`: the
SPI configuration it last applied, or `Unset`.

| Variable | Code |
|---|---|
| `cache` | `ljca_spi->mode` and `ljca_spi->speed`, zeroed by `devm_spi_alloc_master` |
| `dev` | the configuration the peripheral applied (wire mode byte and divider) |
| `pc` | unbound, idle, inside `ljca_spi_init`, or inside the fragment loop |
| `xfer`, `frag` | the transfer with its computed divider; `i`, `offset`, `remaining` of the loop |
| `sent` | history: the fragments the peripheral accepted in this transfer |

| Action | Code (spi-ljca.c lines) |
|---|---|
| `TransferOneStart` | 188-197 and the cache test at 118 |
| `InitSend` | 121-138. A failed INIT may still have been applied (its ACK lost): `AppliedOnFailure`. |
| `TransferReject` | 161-168, no buffer: `-EINVAL` |
| `TransferFragment` | 170-183 with `ljca_spi_read_write` 78-110: a failed exchange, a reply of length <= 0 (`-EIO`), or a copy of `r_packet->len` bytes |
| `TransferDone` | the loop ends with `remaining` 0 |
| `Remove`, `Probe` | 243-250 with `ljca_spi_deinit`; 210-241 |

Pure parts are operators:

- `CodeDiv` is line 196 with its unsigned wrap and the `min_t(u8, ...)` truncation.
- `CurLen` is line 171; `RefFragments` is the reference fragmentation of a length.

### `IntelVsc` (`intel_vsc.c`: camera arbitration)

| Variable | Code |
|---|---|
| `cpc`, `registered` | each component driver's place in register/unregister; `vsc.ace_registerred`, `vsc.csi_registerred` |
| `spin`, `mutex` | holders of `vsc.lock` and `vsc.mutex` |
| `regState` | the regulator and clock registered by `check_component_ready`: none, once, or again over the live ones |
| `upc`, `ret` | each caller's place in acquire or release and its result |
| `owner` | who the ACE gave the camera to and who owns the CSI link (the components' ops, abstracted) |
| `sensorOn` | `vsc.sensor_on`, what the regulator core's `is_enabled` reads |
| `laneNum`, `rate` | `vsc.lane_num` (what `get_mipi_lanes` returned, an errno included) and `vsc.clock.rate` |
| `rdev`, `clk` | a `regulator_register` has succeeded; a clock is registered with its lookup |
| `conf` | the lane count and frequency (rate / 100000) that `sensor_power_on` last read |

The actions are:

- `Register`, `CheckComponentReady` and `Unregister` (lines 57-165). `CheckComponentReady` covers the sensor lookup, `get_mipi_lanes` (339-376) and `intel_vsc_register_regulator` (379-417). Any lane byte or errno may come back, and the regulator may fail to register.
- `RegisterClock` is `intel_vsc_register_clock` (454-489) and the unlock of `vsc.lock`. The name allocation may fail before the rate is set, and `clk_register` or `clkdev_create` may fail after it. `ClkSetRate` is `intel_vsc_clk_set_rate`, called by a consumer of the clock. `PowerOnRead` is the start of `sensor_power_on` (270-279), which reads the configuration before acquire takes the mutex;
- `AcquireLock`, `AcquireAce`, `AcquireCsi`, `AcquireMipi` and `AcquireUnlock` (lines 168-221, with `sensor_power_on`);
- `ReleaseLock`, `ReleaseCsi`, `ReleaseAce` and `ReleaseUnlock` (lines 224-262, with `sensor_power_off`).

The callers are the regulator core (`"reg"`) and the other drivers in `ExtUsers`:

- The regulator core exists once a `regulator_register` has succeeded. It calls enable only when `sensor_on` is 0, and disable only when it is 1. Enable first reads the lane count and rate without a lock (`PowerOnRead`), and only then waits for `vsc.mutex` (`AcquireLock`).
- Other drivers call only while both components are registered.

The components and their ops live outside `src/`, so loading, unloading and each op's success are free choices.

### `MeiVscLoader` (`hw-vsc.c`: reset, firmware download and start)

The MEI core resets the device through `mei_vsc_hw_reset`, which reruns `init_hw`, and then calls `mei_vsc_hw_start`. Each frame on the ROM link is one `vsctp_rom_xfer`, abstracted to its command, image, payload length and end flag (`F`). The firmware files are abstracted to the image sizes their parsers fill in.

| Variable | Code |
|---|---|
| `pc` | where the reset is: in `check_silicon`, loading the files, in `load_bootloader` or `load_boot`, in `load_fw`'s image loop (`frag`) or in `load_fw_bin` (`bin`); `reset_done` before `hw_start`; `ready` or `failed` |
| `namesSet` | `check_silicon` has set `fw_file_name` and the other names |
| `bootSize`, `frags` | `hw->fw.frags[0..6].size` |
| `fi`, `remain` | `load_fw`'s loop index; `remain` of `load_boot` or `load_fw_bin` |
| `sent` | history: the frames since the last `vsctp_reset` |
| `hostReady`, `fwReady` | `hw->host_ready`, `hw->fw_ready` |
| `fwAnswers` | environment: the booted firmware answers reads |

| Action | Code (hw-vsc.c lines) |
|---|---|
| `HwReset` | 929-945 (the `hw->disconnect` branch is in `MeiVsc`). Like the code, it clears neither `host_ready` nor `fw_ready`. |
| `CheckSilicon` | 50-155. A `VSC_TOKEN_ERROR` answer returns 0 (line 72). |
| `LoadFiles` | 557-590 with the three parsers (157-353) |
| `BootQuery`, `BootStart`, `LoadBoot` | 399-439 and 366-397; `BootLen` is line 379 with its `u16` truncation |
| `DlSet`, `FragStart`, `FragBin`, `CamBoot` | 494-543 with `load_fw_frag` (472-492) and `load_fw_bin` (442-470). A failing image is skipped (line 533). |
| `HwStart` | 746-766: poll until the firmware answers, or time out |

`RefDownload` is the reference frame sequence of a complete download, built with a `RECURSIVE` chunking operator and `FlattenSeq`.

### `MeiVsc` (`spi-vsc.c`: the driver's lifecycle around the loader)

`MeiVsc` extends `MeiVscLoader` and adds the SPI driver. The driver core runs on one thread: `mei_vsc_probe`, then `suspend`, `resume`, `remove` or `shutdown`. `probe_work` runs on a workqueue. Both reach the hardware only through MEI core calls (`mei_start`, `mei_stop`, `mei_restart`). Each call holds `dev->device_lock` and runs `hw_reset` (the loader's download, or only `vsctp_reset` when `hw->disconnect` is set) and then `hw_start`, unless the call is a stop or the reset failed. The MEI core is not in `src/`. It is reduced to this sequence, with one reset attempt per call.

| Variable | Code |
|---|---|
| `drv` | the driver-core thread: which callback, and whether it waits for `device_lock` |
| `op` | the teardown in progress: `remove` or `shutdown` |
| `work` | `hw->probe_work`: queued, waiting for the lock, inside `mei_start`, `mei_register`, `mei_stop`, or done |
| `core` | the MEI core call holding `device_lock`: who, which call, and its stage (`reset`, `load`, `start`, `done`) |
| `disconnect`, `irq`, `registered` | `hw->disconnect`; the wake-up IRQ requested; `mei_register` has succeeded |

| Action | Code (spi-vsc.c lines unless noted) |
|---|---|
| `Probe` | 165-228 with `mei_vsc_hw_init` (re-initialised loader state) |
| `WorkBegin`, `WorkLockStart`, `WorkStartDone`, `WorkRegister`, `WorkLockStop`, `WorkStopDone` | `mei_vsc_probe_work`, 133-163 |
| `SuspendBegin`, `SuspendLock`, `SuspendDone` | 230-246 |
| `ResumeBegin`, `ResumeLock`, `ResumeDone` | 248-275 |
| `TeardownBegin`, `TeardownCancel`, `TeardownLock`, `TeardownDone` | `remove` 278-299 and `shutdown` 310-322 |
| `CoreReset`, `VsctpResetOnly`, `CoreResetDone` | hw-vsc.c 929-945 |
| `Loading` | the loader's steps of `init_hw` (hw-vsc.c 545-604) |
| `CoreStart` | `HwStart` (hw-vsc.c 746-766) |

`Lock` and `Unlock` stand for `device_lock`, which belongs to the MEI core, and are not mapped.

### `LjcaBringup` (`ljca.c`: probe, enumeration, teardown)

`ljca_probe` arms the bulk-in URB first and then builds the stub list. Each exchange of the bring-up is one step with an outcome; `LjcaTransport` models the exchange itself. The enumeration descriptors are abstracted to their unit counts.

| Variable | Code |
|---|---|
| `pc` | where `ljca_probe` or the teardown is: `mng`, `handshake`, `enum`, `alloc`, `add`, `bound`; then `stop`, `kill`, `aux`, `stubs`; `gone` when unbound |
| `kind`, `units`, `idx` | the kind `ljca_mng_link` is enumerating, the reply's `desc->num`, and the `stub_init` loop's `i` |
| `stubs` | the types on `dev->stubs_list` |
| `children` | `dev->ljcas[0 .. ljca_count-1]`, as type and id |
| `urb`, `started` | the URB is submitted; `dev->started` |
| `rx`, `calls` | the stub the URB completion found and is using; the bound children inside `ljca_transfer` |
| `sysfs` | for each attribute (`version`, `dfu`, `trace`), idle or the stub its handler looked up (`None` for the error pointer) |
| `events`, `walk` | each stub's event entries, by child; the entries the running notify walk has still to call |

| Action | Code (ljca.c lines) |
|---|---|
| `Probe` | 1017-1059 with `ljca_start` (565-584) |
| `MngInit`, `Handshake` | 901-915 and 586-607 |
| `EnumReply`, `KindStubAlloc`, `AddChild`, `AddDone` | the enumerations (733-849), the `*_stub_init` functions (701-829) and `ljca_add_aux_dev` (642-689). A failed add destroys the kind's stub. `NextKind` is `ljca_mng_link` (877-899). |
| `DiagInit` | 923-930 |
| `Disconnect`, `StopClear`, `KillUrb`, `CleanupAux`, `CleanupStubs` | 1088-1096 and error_stop (1077-1085): `ljca_stop`, `ljca_cleanup_aux_dev`, `ljca_stub_cleanup` |
| `RxFind`, `RxDone` | `ljca_read_complete` with `ljca_stub_find` (292-300, 528-562): an ACK, or a frame of a type with no stub |
| `RxNotify`, `NotifyCall` | an event frame: `ljca_stub_notify` walks the stub's `event_cb_list` under its spinlock, one callback at a time (306-331) |
| `ChildRegister`, `ChildUnregister` | a bound child's `ljca_register_event_cb` / `ljca_unregister_event_cb` (464-525), which wait for the stub's spinlock |
| `VersionShow`, `EnableDfuStore`, `TraceLevelStore`, `SysfsReturn` | the sysfs attributes (956-1015): each looks its stub up with `ljca_stub_find`, without a check, and then runs one exchange |
| `ChildCall`, `ChildReturn` | `ljca_transfer_internal` (436-447) |

`StubDestroy` empties the destroyed stub's event list in the model only so that a re-allocated stub starts empty; the leaked entries are listed under the issues below. `Disconnect` waits until no sysfs handler is running, because the USB core removes the attribute groups, and waits for their handlers, before it calls `ljca_disconnect`.

`CleanupAux` waits for the children's calls to return, because the driver core runs a child's remove, and the remove returns only after the child's own calls have.

### `LjcaExchange` (what the transport promises)

An abstract transport without pipes, frames or a completion handler. It has four variables:

- `link` is up, stopping, down or starting;
- `owner` is the exchange holding the device;
- `phase` of each caller is idle, pending or active;
- `replied` says whether the holder has taken its reply.

Its actions say the following:

- A caller is admitted only while the link is up (`Begin`).
- It takes the device when the device is free (`Acquire`), and starts unanswered.
- A reply reaches only the holder, and only while the link is not down (`Reply`).
- `Return` gives the device back, answered or not.
- A stop needs the device free (`Stop`) and then quiesces the pipe (`Quiesce`).
- A start arms the pipe (`Arm`) before it lets callers in (`Start`).

The abstract spec lets `Acquire` happen whatever the link is. This is deliberate: `ljca_stub_write` tests `started` before `mutex_lock` and not after (see the issues below).

`LjcaTransport` implements it under this refinement mapping (section "Refinement" of `LjcaTransport.tla`):

| Abstract | Concrete |
|---|---|
| `link` | read off `started` and the progress `pm` of `ljca_stop`/`ljca_start` |
| `owner` | the holder of `dev->mutex` |
| `phase` | idle; `locking` (passed the `started` test) = pending; holding the mutex = active |
| `replied` | the holder's stub has `acked` set |

The fairness of `LjcaExchange` is:

- strong for `Acquire` and `Start`, both of which wait for `dev->mutex`;
- weak for `Return` (the timeout) and `Quiesce` (`usb_kill_urb`).

`ExchangeRefinement` is `LjcaExchange!Spec`, checked as a property of `transport_liveness`.

`LjcaBringup` composes the parts of `ljca.c` that disconnect must order. These are the bring-up, the completion and its notify walk, the children's calls and event registrations, and the sysfs handlers.

## Runs

| Run | Cfg | Expect | Shows |
|---|---|---|---|
| `transport_safety` | `LjcaTransport.cfg` | pass | The reply buffer published on a stub always belongs to the mutex holder (`ReplyBufferOwnedByHolder`). The completion's resubmission may fail. Whenever `started` is set, the URB is armed, unless that resubmission failed (`StartedImpliesReceiving`). So `ljca_stop` and `ljca_start` order their steps correctly. Plus `TypeOK`. |
| `transport_liveness` | `LjcaTransportLive.cfg` | pass | Every `ljca_stub_write` returns (`CallsReturn`), and a begun `ljca_stop` completes (`SuspendCompletes`). The transport implements the abstract `LjcaExchange`, fairness included (`ExchangeRefinement`): exchanges are exclusive; no reply left over from an earlier exchange counts for the next one at the moment it takes the mutex; replies arrive only while the URB can complete; every admitted caller gets the device and returns. |
| `dead_buffer` | `LjcaDeadBuffer.cfg` | violation | The completion reads `ipacket`, the caller times out and returns, and the copy lands in a dead stack frame. |
| `stale_ack` | `LjcaStaleAck.cfg` | violation | A late reply to a timed-out request acknowledges the next request with the same cmd. `cur_cmd` is never cleared. |
| `events_safety` | `LjcaEvents.cfg` | pass | With two children registering, unregistering and re-registering during notify walks, the list never holds two entries for one id (`UniqueIds`), and the walk never calls an unregistered entry (`CallbackOnlyWhileRegistered`). |
| `spi_safety` | `SpiLjca.cfg` | pass | Each completed transfer went out as the reference fragmentation (`FragmentsMatchReference`). Lengths 0, 58, 59 and 117 cover zero, one, two and three fragments. The cached divider is one the bus has (`TypeOK`). |
| `spi_lost_init_ack` | `SpiLjcaLostInitAck.cfg` | violation | An INIT applied but not acknowledged leaves the cache naming the old configuration. The next transfer in that configuration skips INIT. |
| `vsc_safety` | `IntelVsc.cfg` | pass | The components' ops may fail. Between calls, and while every caller's last call succeeded, the camera and the CSI link have one owner (`OwnersAgreeWhenIdle`). A failed op is not rolled back, so after a failure they may differ. Every register or unregister returns (`LockCallsReturn`). The mutex holder is inside a call (`TypeOK`). |
| `vsc_spin_leak` | `IntelVscSpinLeak.cfg` | violation | No sensor found: `vsc.lock` is never released, and the next unregister spins for ever. |
| `vsc_double_register` | `IntelVscDoubleRegister.cfg` | violation | ACE and CSI register at the same time, and both register the regulator and clock. |
| `ljca_bringup` | `LjcaBringup.cfg` | pass | Probes can fail at any allocation or exchange, and enumerations can overrun the five child slots; frames arrive on the armed URB and children call in. Throughout, `dev->ljcas` stays within its slots (`TypeOK`) with per-kind ids 0, 1, ... (`ChildIdsPerKind`). Every teardown leaves no URB, running completion, child, call or stub (`TeardownComplete`). A sysfs handler always uses a stub that is on the list (`SysfsStubLive`). A notify walk calls only children that are still bound (`NotifyOnlyBound`). |
| `mei_loader` | `MeiVsc.cfg` | pass | The driver's probe, `probe_work`, suspend, resume, remove and shutdown drive the loader through MEI core calls. One frame of each download may fail. Every CAM_BOOT after a download whose frames all succeeded follows exactly the reference download of the bootloader and the six images (`DownloadMatchesReference`). No download is in progress while the device is suspended (`SuspendedNoDownload`). A finished remove or shutdown leaves no queued or running `probe_work`, no lock holder, a stopped device and no IRQ (`TornDownQuiescent`). Every MEI core call ends (`CoreCallsEnd`), including after empty images, a token error or silent firmware. |

Each passing property has a mutant in `PROJECT.json`. Each mutant is a plausible bug that TLC shows the property catches:

- `ipacket.ibuf` not cleared at `error_unlock`;
- a return path that keeps the mutex;
- `ljca_start` setting `started` before it submits the URB;
- a wait without a timeout;
- `obuf` installed as the reply buffer;
- `stub->acked` not cleared when an exchange takes the mutex;
- the duplicate scan dropped;
- unregistration without the spinlock;
- `entry->id` left unset;
- the `min_t` clamp of the divider dropped (its wrap gives divider 255);
- the fragment size without the packet header;
- `vsc.mutex` not taken in acquire, or not released in release;
- `vsc.lock` kept after `check_component_ready` registers the clock;
- the child-slot test off by one, or a unit index not advanced;
- `usb_kill_urb` not waiting for a running completion;
- a failed `ljca_diag_stub_init` ignored by probe;
- `ljca_disconnect` removing the children before `ljca_stop`;
- `load_boot` subtracting a full payload from `remain`;
- `load_fw`'s image loop starting at 2;
- `hw_start` polling without a timeout;
- `suspend` not setting `hw->disconnect`;
- `remove` not waiting for a running `probe_work`.

### Bounds

**Safety run** (about 3.6 million states after symmetry, about a minute and a half, with failed resubmissions):

- two callers, so that the mutex is contended and one caller's late reply can meet another's exchange;
- one stub, plus one foreign type that the peripheral may name;
- one command id;
- both call kinds (no-ACK, and ACK with a buffer);
- a peripheral holding two requests or frames, so a stale reply and a fresh one can both be in flight.

The callers are symmetric, because no property names one.

**Liveness run** (about 77 thousand states, about a minute with the refinement). It has one caller, which contends with `ljca_stop` for the mutex. One caller still reaches a late reply that sets `acked` before the caller's next exchange, and a caller that takes the mutex after `ljca_stop` has run. Checking the refinement on the two-caller safety run would double its time, to close to four minutes; there the mutex alone makes exchanges exclusive. Two callers produce about 200 thousand states with three temporal branches, which is beyond a practical liveness check. No symmetry is used.

**Events run**: two children suffice for a duplicate and for an unregistration racing a walk. The list is bounded by `UniqueIds` itself.

**SpiLjca**: the speeds are 48 MHz (the wrap), 12 MHz (an exact divider) and 4 MHz (below the slowest clock). Both clock polarities are used. The lengths sit on both sides of the fragment boundary. With one controller and one peripheral there are about 11 thousand states.

**IntelVsc**: both components, which the code names. It has two callers, the regulator core and one other driver, so one acquire can meet one release. The regulator may fail to register. The clock name allocation may fail before the rate is set, and the clock registration after it. The lane count is the SSDB byte 4, `-ENODEV` or `-EINVAL`. The consumer sets the rate to 400 MHz, so `ClkSetRate` fires without adding a third rate. Each component op may fail. The lane count is the SSDB byte 4 or `-EINVAL` (`LaneErrnos`), and every `regulator_register` succeeds; the failing register and `-ENODEV` add only data and would push the strong-fairness check past five minutes. There are about 127 thousand states, and the run takes about three minutes.

**LjcaBringup**: the I2C reply carries 0, 1 or 3 units and the SPI reply 2. With the GPIO child, up to six children compete for the five slots. Every exchange and allocation may fail, and the peripheral may send a frame of any type at any time. Re-probing after a teardown is allowed. Bound children can register and unregister for events, and every sysfs attribute can run at any time. There are about 490 thousand states, checked in about 35 seconds.

**MeiVsc** (with the loader): the bootloader sizes are 248 (exactly one `DL_CONT` payload) and 300 (two chunks). The size tables (`MC_MeiVsc`) are six images of 513 bytes (two `VSC_FW_PKG_SIZE` chunks, the last a short one), or the same with the first or the last image empty (`-EINVAL`). All 64 tables of 0 and 513 multiply the states by twenty and add no new path. The silicon check, the file loads, the firmware's start, `mei_register` and the IRQ request on resume may each fail. Any one frame of a download may fail (a model bound: after one failure the rest succeed). A failure in the bootloader ends `init_hw`; a failure in an image skips the rest of it (see the issues below). The frame log is dropped when `hw_reset` returns, since only `DownloadMatchesReference` reads it. A bootloader of one byte adds nothing the two sizes do not reach, and would push the liveness check past two minutes. Re-probing after a teardown is allowed, so every lifecycle repeats. There are about 182 thousand states, and the run takes about 20 seconds.

**Violation runs** use one caller. 

### Fairness

| Fairness | On | Why the code justifies it |
|---|---|---|
| Strong | `StubWriteLock` | A Linux mutex hands off to its waiters, so a thread that keeps waiting is eventually served. |
| Weak | `StubWriteSend` | `usb_bulk_msg` returns within its timeout. |
| Weak | the wait | `wait_event_timeout` always returns. |
| Weak | the completion's three steps | The completion runs whenever the URB is armed and data is there. |
| Strong | the stop and start steps that take the mutex; `usb_kill_urb` | These complete once begun. |

IntelVsc assumes strong fairness for a CPU spinning on `vsc.lock`. The kernel's queued spinlocks serve waiters in order. A waiter that keeps finding the lock free gets it, even while the other component keeps taking and dropping it. The model needs this because `vsc.lock` stays held from `CheckComponentReady` to `RegisterClock`, so the lock is not continuously free. IntelVsc assumes weak fairness for the holder's `RegisterClock` and for the steps under `vsc.mutex`. MeiVsc assumes weak fairness only for the steps of an MEI core call that holds `device_lock`: `hw_reset`, the steps of `init_hw` and `hw_start`. That is sequential code that runs to its return. Whether the firmware answers is not a fair choice; the timeout ends the wait. The driver core and `probe_work` get no fairness, so `CoreCallsEnd` holds even if they stop between calls. SpiLjca checks no liveness.

The peripheral, the decision to call, and the PM core's decision to suspend or resume have no fairness.

### Issues in the code that no run checks

`PROJECT.json` lists each of these as a hazard, with a note:

- `ljca_parse` checks `cur_cmd` at line 334 and reads `ibuf` at line 341 without the mutex. A reply to one command can land in the buffer of the next exchange when it has a different command. This is the same window that `dead_buffer` shows.
- A failed `usb_submit_urb` in the completion leaves `started` set with no URB armed (line 560). `transport_safety` reaches this state, and every later exchange times out. The spec wants the URB re-armed even on error.
- `ret` in `ljca_register_event_cb` is unassigned when no entry matches, so a first registration can be refused.
- `ljca_spi_transfer_one`'s divider puts the bus above the requested speed: 24 MHz for a 16 MHz request.
- `ljca_spi_init`'s zeroed cache skips INIT for mode 0 at 24 MHz.
- `ljca_spi_read_write` copies `r_packet->len` bytes without bounding them by the fragment.
- `ljca_stub_write` tests `started` at line 390, before `mutex_lock` at 396. A caller that passed the test while `ljca_stop` waited for the mutex writes after `started` is false. `LjcaTransport` reaches this, and TLC showed it with one caller.
- `ljca_stub_destroy` (lines 728, 776, 823) frees an I2C, SPI or GPIO stub during enumeration while the URB is armed. In `LjcaBringup`, TLC finds the completion using the GPIO stub after a failing `ljca_add_aux_dev` has freed it: `Probe`, `MngInit`, `Handshake`, `EnumReply`, `KindStubAlloc`, `RxFind`, `AddChild`. The spec says stubs are destroyed only at teardown. The same destroy leaves children already added with no stub, and their calls return `-ENODEV`.
- `ljca_gpio_stub_init` writes `valid_pin[i]` for `bank_num` banks into a two-word array (line 721). The length check allows up to nine banks.
- `intel_vsc` keeps calling the ops of an unregistered component.
- `intel_vsc` does not roll back a half-done acquire or release (lines 197-215, 246-256). `vsc_safety` reaches the camera and the CSI link with different owners after a failed op.
- `sensor_power_on` reads `vsc.clock.rate` without `vsc.lock` (line 279). The regulator is registered (line 410) before the clock sets the rate (line 467), so an enable in between powers the sensor with frequency 0. `IntelVsc` reaches this: `AcquireLock` of the regulator core runs between `CheckComponentReady` and `RegisterClock`.
- `get_mipi_lanes` returns an errno that is stored in the `u32` `vsc.lane_num`. It returns an uninitialized byte when the SSDB buffer is shorter than the lanes field (line 366).
- `check_component_ready` calls `regulator_register`, `kasprintf(GFP_KERNEL)` and `clk_register` under `spin_lock_irqsave`, and all of these may sleep.
- `get_sensor_name` (`spi-vsc.c` 114-123) accepts a 32-byte name with no terminator, and the `tolower` loop then runs past `cam_sensor_name`.
- `ljca_stub_destroy` frees a stub without its `event_cb_list` entries (line 280).
- `load_fw` ignores `load_fw_frag`'s result (line 533). A failed frame skips the rest of that image, and CAM_BOOT still boots the partial firmware. `mei_loader` reaches this; `DownloadMatchesReference` is stated only for downloads without a failed frame.
- `load_boot` truncates `remain` to 16 bits (line 379). A bootloader of 64 KiB or more eventually gets 0-byte chunks and loops for ever.
- `check_silicon` returns 0 on a token error (line 72). `init_hw` goes on with the names of an earlier check, or fails at `request_firmware`.
- `spi-vsc.c` frees the wake-up IRQ twice. `probe_work` frees it when `mei_start` fails (line 162), and `suspend`, `remove` and `shutdown` free it again (lines 244, 293, 321). In `MeiVsc`, TLC reaches this in two ways. In the first, a `probe_work` fails and the device is then removed. In the second, a `probe_work` is still queued at suspend; it then runs on the disconnected device, `hw_start` times out, and it frees the IRQ that suspend already freed.
- `remove` calls `mei_deregister` (line 294) whether or not `mei_register` succeeded. TLC reaches this by removing the device while `probe_work` is still queued.
- `hw_reset` clears neither `hw->fw_ready` nor `hw->host_ready` (hw-vsc.c 711, 763). After a reset, `hw_is_ready` reports the previous boot's firmware as ready.

## Not modelled

- The formatting in the sysfs attributes and in `ljca_mng_get_version`: `sysfs_emit`, `kstrtou8` and the version string. The stub lookup and the exchange are modelled.
- The names that `intel_vsc` builds with `snprintf` and `kasprintf`, and the regulator and clock descriptors. Only the outcomes of the registrations are modelled.
- The MEI message path of `hw-vsc.c` (`mei_vsc_write` with `write_lock_cnt`, the reads and `mei_vsc_event_cb`). Its counterpart state (`dev_state`, the host buffers, the read and write handlers) belongs to the MEI core, which is not in `src/`.
- The SPI transport of `spi-vsc.c` (`vsctp_*`, declared in `spi-vsctp.h`) is not in `src/`. Each ROM frame is one atomic step, and the IRQ handlers are not modelled.
- The MEI core (`mei_start`, `mei_stop`, `mei_restart`, the reset retries, `mei_register`'s character device) is not in `src/`. `MeiVsc` keeps only its call sequence and `device_lock`.
- The ACPI and GPIO lookups in `mei_vsc_probe` are early returns that leave no state. Only the probe that succeeds is an action.
