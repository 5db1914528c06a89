------------------------------ MODULE SpiLjca ------------------------------
(***************************************************************************)
(* The SPI controller over LJCA (drivers/spi/spi-ljca.c).  The SPI core    *)
(* calls ljca_spi_transfer_one for one transfer at a time; it maps the     *)
(* requested speed to a bus divider, sends LJCA_SPI_INIT when mode or      *)
(* divider differ from the ones it cached, and then cuts the transfer      *)
(* into fragments of at most LJCA_SPI_MAX_XFER_SIZE bytes, one             *)
(* ljca_transfer each.  The peripheral keeps the SPI configuration it was  *)
(* last given; payload bytes are abstracted to offsets and lengths.        *)
(***************************************************************************)
EXTENDS Naturals, Sequences

CONSTANTS
  MaxHz,             \* controller->max_speed_hz (LJCA_SPI_BUS_MAX_HZ)
  Speeds,            \* xfer->speed_hz values the SPI core may pass
  Modes,             \* spi->mode values (SPI_CPHA = 1, SPI_CPOL = 2)
  Lens,              \* xfer->len values
  AppliedOnFailure,  \* whether a failed INIT exchange may have reached the
                     \* peripheral (its ACK lost or late): {FALSE} or BOOLEAN
  Unset              \* the peripheral's SPI port has no configuration

ASSUME AppliedOnFailure \subseteq BOOLEAN /\ AppliedOnFailure # {}

BufSize == 60              \* LJCA_SPI_BUF_SIZE
MaxXfer == BufSize - 2     \* LJCA_SPI_MAX_XFER_SIZE: minus struct spi_xfer_packet
SpeedMin == 4              \* LJCA_SPI_BUS_SPEED_MIN (4.8 MHz)
Dirs == {"tx", "rx", "txrx", "none"}   \* which of tx_buf, rx_buf are set

-----------------------------------------------------------------------------
(* Pure parts of the driver.                                               *)

DivRoundUp(n, d) == (n + d - 1) \div d

(* Mutant of CodeDiv: the min_t() clamp dropped.                           *)
CodeDivNoClamp(speed) == (DivRoundUp(MaxHz, speed) \div 2 - 1) % 256

(* Lines 195-196.  The quotient is unsigned int, so 0 - 1 wraps to         *)
(* 2^32 - 1; min_t(u8, ...) then truncates it to 255 (x % 2^32 % 256 is    *)
(* x % 256) before taking the minimum with LJCA_SPI_BUS_SPEED_MIN.         *)
CodeDiv(speed) ==
  LET v == (DivRoundUp(MaxHz, speed) \div 2 - 1) % 256
  IN IF v < SpeedMin THEN v ELSE SpeedMin

(* Lines 121-126: spi->mode to the packet's mode byte: CPOL goes to bit 0, *)
(* CPHA to bit 1.                                                          *)
WireMode(m) == (IF (m \div 2) % 2 = 1 THEN 1 ELSE 0)
                 + (IF m % 2 = 1 THEN 2 ELSE 0)

(* Lines 161-168: the command for the buffers given.                       *)
CmdOf(d) == CASE d = "txrx" -> "WRITEREAD"
              [] d = "tx"   -> "WRITE"
              [] d = "rx"   -> "READ"

(* Mutant of CurLen: the packet header not subtracted from the buffer.     *)
CurLenOver(rem) == IF rem < BufSize THEN rem ELSE BufSize

(* Line 171: the length of the next fragment.                              *)
CurLen(rem) == IF rem < MaxXfer THEN rem ELSE MaxXfer

(* Reference: a transfer of n bytes is the fragments 0 .. k-1 of MaxXfer   *)
(* bytes each at consecutive offsets, the last one shorter and the only    *)
(* one with the complete bit.                                              *)
RefFragments(n, cmd) ==
  LET k == DivRoundUp(n, MaxXfer)
  IN [j \in 1..k |-> [id |-> j - 1, cmpl |-> j = k, off |-> (j - 1) * MaxXfer,
                      len |-> IF j = k THEN n - (j - 1) * MaxXfer ELSE MaxXfer,
                      cmd |-> cmd]]

(* What the peripheral may put in r_packet->len for a fragment of cur      *)
(* bytes: the count asked for, or 0 when it failed.                        *)
ReplyLens(cur) == {0, cur}

-----------------------------------------------------------------------------
VARIABLES
  cache,    \* ljca_spi->mode and ljca_spi->speed
  dev,      \* the peripheral's SPI configuration: wire mode and divider
  pc,       \* "unbound", "idle", "init" (in ljca_spi_init), "xfer"
  xfer,     \* the transfer being done, with the divider computed for it
  frag,     \* loop state of ljca_spi_transfer: i, offset, remaining
  sent      \* fragments of this transfer the peripheral accepted (history)

vars == <<cache, dev, pc, xfer, frag, sent>>

Zero == [mode |-> 0, div |-> 0]

(* The peripheral is configured as the transfer asks.                      *)
Configured(x) == dev = [mode |-> WireMode(x.mode), div |-> x.div]

-----------------------------------------------------------------------------
(* Lines 188-197 and 113-119: compute the divider and compare mode and     *)
(* divider with the cache; on a match no INIT is sent.                     *)
TransferOneStart(s, m, n, d) ==
  LET x == [speed |-> s, mode |-> m, len |-> n, dir |-> d, div |-> CodeDiv(s)]
  IN /\ pc = "idle"
     /\ xfer' = x
     /\ pc' = IF cache = [mode |-> m, div |-> x.div] THEN "xfer" ELSE "init"
     /\ frag' = [i |-> 0, off |-> 0, rem |-> n]
     /\ sent' = <<>>
     /\ UNCHANGED <<cache, dev>>

(* Lines 121-138: send LJCA_SPI_INIT.  On success the peripheral is        *)
(* configured and the cache updated.  On failure ljca_spi_transfer_one     *)
(* returns the error with the cache unchanged, though the peripheral may   *)
(* have applied the INIT whose ACK was lost.                               *)
InitSend ==
  LET new == [mode |-> WireMode(xfer.mode), div |-> xfer.div]
  IN /\ pc = "init"
     /\ \/ /\ dev' = new
           /\ cache' = [mode |-> xfer.mode, div |-> xfer.div]
           /\ pc' = "xfer"
        \/ /\ \E applied \in AppliedOnFailure :
                dev' = IF applied THEN new ELSE dev
           /\ pc' = "idle"
           /\ UNCHANGED cache
     /\ UNCHANGED <<xfer, frag, sent>>

(* Lines 161-168: neither buffer given, -EINVAL.                           *)
TransferReject ==
  /\ pc = "xfer"
  /\ xfer.dir = "none"
  /\ pc' = "idle"
  /\ UNCHANGED <<cache, dev, xfer, frag, sent>>

(* Lines 170-183 with ljca_spi_read_write (78-110): one fragment.  The     *)
(* exchange fails (the error ends the transfer with the fragments before   *)
(* it already sent), or the peripheral answers: a reply length <= 0 is     *)
(* -EIO, otherwise r_packet->len bytes are copied to rx_buf + offset and   *)
(* the loop advances.                                                      *)
TransferFragment ==
  LET cur == CurLen(frag.rem)
      f   == [id |-> frag.i % 64, cmpl |-> cur = frag.rem, off |-> frag.off,
              len |-> cur, cmd |-> CmdOf(xfer.dir)]
  IN /\ pc = "xfer"
     /\ xfer.dir # "none"
     /\ frag.rem > 0
     /\ \/ /\ pc' = "idle"
           /\ UNCHANGED <<frag, sent>>
        \/ /\ sent' = Append(sent, f)
           /\ \E rlen \in ReplyLens(cur) :
                \/ /\ rlen <= 0
                   /\ pc' = "idle"
                   /\ UNCHANGED <<frag>>
                \/ /\ rlen > 0
                   /\ frag' = [i |-> frag.i + 1, off |-> frag.off + cur,
                               rem |-> frag.rem - cur]
                   /\ UNCHANGED pc
     /\ UNCHANGED <<cache, dev, xfer>>

(* Lines 170 and 185: remaining is 0, the transfer succeeded.              *)
TransferDone ==
  /\ pc = "xfer"
  /\ xfer.dir # "none"
  /\ frag.rem = 0
  /\ pc' = "idle"
  /\ UNCHANGED <<cache, dev, xfer, frag, sent>>

(* Lines 243-250 and 141-148: unregister the controller and send           *)
(* LJCA_SPI_DEINIT, whose result is ignored.                               *)
Remove ==
  /\ pc = "idle"
  /\ pc' = "unbound"
  /\ \E ok \in BOOLEAN : dev' = IF ok THEN Unset ELSE dev
  /\ UNCHANGED <<cache, xfer, frag, sent>>

(* Lines 210-241: a new controller, its private data zeroed by             *)
(* devm_spi_alloc_master.                                                  *)
Probe ==
  /\ pc = "unbound"
  /\ cache' = Zero
  /\ pc' = "idle"
  /\ UNCHANGED <<dev, xfer, frag, sent>>

-----------------------------------------------------------------------------
(* The controller has just been probed; the peripheral's SPI port has not  *)
(* been configured by this host.                                           *)
Init ==
  /\ cache = Zero
  /\ dev = Unset
  /\ pc = "idle"
  /\ xfer = [speed |-> CHOOSE s \in Speeds : TRUE, mode |-> 0, len |-> 0,
             dir |-> "none", div |-> 0]
  /\ frag = [i |-> 0, off |-> 0, rem |-> 0]
  /\ sent = <<>>

Next ==
  \/ \E s \in Speeds, m \in Modes, n \in Lens, d \in Dirs :
       TransferOneStart(s, m, n, d)
  \/ InitSend \/ TransferReject \/ TransferFragment \/ TransferDone
  \/ Remove \/ Probe

Spec == Init /\ [][Next]_vars

-----------------------------------------------------------------------------
(* The type invariant: the cached and configured dividers are dividers the *)
(* bus has (0 .. LJCA_SPI_BUS_SPEED_MIN).                                  *)
TypeOK ==
  /\ cache \in [mode : Modes \cup {0}, div : 0..SpeedMin]
  /\ dev \in [mode : 0..3, div : 0..SpeedMin] \cup {Unset}
  /\ pc \in {"unbound", "idle", "init", "xfer"}
  /\ frag.rem \in Nat /\ frag.off \in Nat

(* A transfer that ljca_spi_transfer_one completes went to the peripheral  *)
(* as exactly the reference fragmentation of its length: consecutive      *)
(* offsets, full fragments but the last, the complete bit on the last     *)
(* only, fragment ids counting from 0.                                     *)
FragmentsMatchReference ==
  [][pc = "xfer" /\ pc' = "idle" /\ xfer.dir # "none" /\ frag.rem = 0
       => sent = RefFragments(xfer.len, CmdOf(xfer.dir))]_vars

(* Every fragment is sent while the peripheral is configured with the     *)
(* transfer's mode and divider: the cache in ljca_spi_init must never     *)
(* claim a configuration the peripheral does not have.                     *)
ConfiguredForTransfer ==
  [][Len(sent') > Len(sent) => Configured(xfer)]_vars

=============================================================================
