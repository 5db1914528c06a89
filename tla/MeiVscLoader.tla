---------------------------- MODULE MeiVscLoader ----------------------------
(***************************************************************************)
(* Firmware download and start of the vision sensing controller            *)
(* (drivers/misc/mei/hw-vsc.c).  The MEI core resets the hardware          *)
(* (mei_vsc_hw_reset), which reruns init_hw: check the silicon over the    *)
(* ROM link, request and parse the three firmware files, download the      *)
(* bootloader (QUERY, DL_START, DL_CONT chunks) and then the firmware      *)
(* images (DL_SET, and per image DL_START and raw chunks), and send        *)
(* CAM_BOOT.  mei_vsc_hw_start then polls until the firmware answers.      *)
(* Each frame is one vsctp_rom_xfer; file contents are abstracted to the   *)
(* sizes of the images they describe.                                      *)
(***************************************************************************)
EXTENDS Naturals, Sequences, SequencesExt

CONSTANTS
  BootSizes,      \* bootloader image sizes a valid main firmware file may give
  FragTables,     \* the size tables of images 1..6 the files may give
  XferOutcomes,   \* outcomes of one vsctp_rom_xfer: {TRUE} or BOOLEAN
  StepOutcomes    \* outcomes of a silicon check, file load or start poll

ASSUME XferOutcomes \subseteq BOOLEAN /\ XferOutcomes # {}
ASSUME StepOutcomes \subseteq BOOLEAN /\ StepOutcomes # {}

RomPayload == 256 - 8    \* VSC_ROM_PKG_SIZE minus the dl_cont header
FwPkg == 512             \* VSC_FW_PKG_SIZE
FragIdx == 1..6          \* VSC_ARC_SEM_IMG_FRAG .. VSC_SKU_CONF_FRAG

ASSUME FragTables \subseteq [FragIdx -> Nat] /\ FragTables # {}

(* A frame on the ROM link: its command, the image it belongs to (0 for   *)
(* the bootloader), its payload length, the dl_cont end flag, and whether *)
(* its vsctp_rom_xfer succeeded (as every frame of the reference does).   *)
F(cmd, img, len, end) ==
  [cmd |-> cmd, img |-> img, len |-> len, end |-> end, ok |-> TRUE]

(* The frame as sent by a vsctp_rom_xfer with result ok.                   *)
Sent(frame, ok) == [frame EXCEPT !.ok = ok]

(* Reference: n bytes cut into chunks of m, the last one shorter and, when *)
(* flagged, the only one carrying the end flag.                           *)
RECURSIVE RefChunks(_, _, _, _, _)
RefChunks(n, m, cmd, img, flagged) ==
  IF n <= m THEN <<F(cmd, img, n, flagged)>>
  ELSE <<F(cmd, img, m, FALSE)>> \o RefChunks(n - m, m, cmd, img, flagged)

(* Reference: the frames of a complete download of bootloader b and       *)
(* images f, up to and including CAM_BOOT.                                 *)
RefDownload(b, f) ==
  <<F("QUERY", 0, 0, FALSE), F("DL_START", 0, b, FALSE)>>
    \o RefChunks(b, RomPayload, "DL_CONT", 0, TRUE)
    \o <<F("DL_SET", 0, 0, FALSE)>>
    \o FlattenSeq([i \in FragIdx |->
                     <<F("DL_START", i, f[i], FALSE)>>
                       \o RefChunks(f[i], FwPkg, "FW_CONT", i, FALSE)])
    \o <<F("CAM_BOOT", 0, 0, FALSE)>>

-----------------------------------------------------------------------------
VARIABLES
  pc,          \* where mei_vsc_hw_reset/init_hw/mei_vsc_hw_start is
  namesSet,    \* check_silicon has filled in the firmware file names
  bootSize,    \* hw->fw.frags[VSC_BOOT_IMG_FRAG].size
  frags,       \* the sizes of hw->fw.frags[1..6]
  fi,          \* load_fw's loop index i
  remain,      \* load_boot's or load_fw_bin's remain
  sent,        \* frames the ROM link carried in the download in progress
  hostReady,   \* hw->host_ready
  fwReady,     \* hw->fw_ready
  fwAnswers    \* the booted firmware answers reads (environment)

vars == <<pc, namesSet, bootSize, frags, fi, remain, sent, hostReady, fwReady,
          fwAnswers>>

LoaderPcs == {"silicon", "files", "bl_query", "bl_start", "boot", "frag", "bin"}

(* Every frame since the reset succeeded.                                  *)
AllAcked(s) == \A k \in DOMAIN s : s[k].ok

(* The outcomes of the next vsctp_rom_xfer.  Model bound: at most one      *)
(* frame of a download fails; after that every frame succeeds.             *)
XferChoices == IF AllAcked(sent) THEN XferOutcomes ELSE {TRUE}

(* A frame sent with outcome ok: the loader goes on to next, or fails.     *)
Xfer(frame, ok, next) ==
  /\ sent' = Append(sent, Sent(frame, ok))
  /\ pc' = IF ok THEN next ELSE "failed"

-----------------------------------------------------------------------------
(* Lines 929-945: reset the transport (the firmware stops) and, when not   *)
(* disconnecting, rerun init_hw.  host_ready and fw_ready are left as they *)
(* were: nothing in hw-vsc.c ever clears them.  The MEI core resets a      *)
(* device that is down, ready or failed; after a reset that returned 0 it *)
(* calls hw_start before anything else.                                    *)
HwReset ==
  /\ pc \in {"down", "ready", "failed"}
  /\ pc' = "silicon"
  /\ sent' = <<>>
  /\ fwAnswers' = FALSE
  /\ UNCHANGED <<namesSet, bootSize, frags, fi, remain, hostReady, fwReady>>

(* Lines 50-155: two DUMP_MEM exchanges read the efuse and the strap and  *)
(* set the file names.  A ROM link error or a wrong version is an error;  *)
(* a VSC_TOKEN_ERROR answer to the first dump returns ret, which is 0, so *)
(* init_hw goes on with whatever file names it has.                        *)
CheckSilicon ==
  /\ pc = "silicon"
  /\ \E r \in {"ok", "token", "err"} :
       /\ pc' = IF r = "err" THEN "failed" ELSE "files"
       /\ namesSet' = (namesSet \/ r = "ok")
  /\ UNCHANGED <<bootSize, frags, fi, remain, sent, hostReady, fwReady,
                 fwAnswers>>

(* Lines 557-590 with parse_main_fw, parse_sensor_fw and parse_sku_cnf_fw *)
(* (157-353): request and parse the main, sensor and SKU files; a file    *)
(* that is missing (no names) or fails a check ends init_hw.  Parsing     *)
(* fills in the image sizes, which the files give unchecked.              *)
LoadFiles ==
  /\ pc = "files"
  /\ \E ok \in StepOutcomes, b \in BootSizes, f \in FragTables :
       IF ok /\ namesSet
         THEN /\ pc' = "bl_query" /\ bootSize' = b /\ frags' = f
         ELSE /\ pc' = "failed" /\ UNCHANGED <<bootSize, frags>>
  /\ UNCHANGED <<namesSet, fi, remain, sent, hostReady, fwReady, fwAnswers>>

(* Lines 405-419: an empty bootloader is -EINVAL; otherwise QUERY, and    *)
(* the token must ask for the bootloader.                                  *)
BootQuery ==
  /\ pc = "bl_query"
  /\ IF bootSize = 0
       THEN pc' = "failed" /\ UNCHANGED sent
       ELSE \E ok \in XferChoices : Xfer(F("QUERY", 0, 0, FALSE), ok, "bl_start")
  /\ UNCHANGED <<namesSet, bootSize, frags, fi, remain, hostReady, fwReady,
                 fwAnswers>>

(* Lines 421-434: DL_START for the bootloader, then load_boot.             *)
BootStart ==
  /\ pc = "bl_start"
  /\ \E ok \in XferChoices : Xfer(F("DL_START", 0, bootSize, FALSE), ok, "boot")
  /\ remain' = bootSize
  /\ UNCHANGED <<namesSet, bootSize, frags, fi, hostReady, fwReady, fwAnswers>>

(* Line 379: min_t(u16, remain, payload size) truncates remain to 16 bits. *)
BootLen(r) == IF r % 65536 < RomPayload THEN r % 65536 ELSE RomPayload

(* Mutant of LoadBoot: remain decreased by the payload size, not len.     *)
LoadBootFullPkt ==
  /\ pc = "boot"
  /\ remain > 0
  /\ LET len == BootLen(remain)
     IN \E ok \in XferChoices :
          /\ Xfer(F("DL_CONT", 0, len, remain = len), ok, "boot")
          /\ remain' = remain - RomPayload
  /\ UNCHANGED <<namesSet, bootSize, frags, fi, hostReady, fwReady, fwAnswers>>

(* Lines 378-394: one DL_CONT chunk, the end flag when it is the last.     *)
LoadBoot ==
  /\ pc = "boot"
  /\ remain > 0
  /\ LET len == BootLen(remain)
     IN \E ok \in XferChoices :
          /\ Xfer(F("DL_CONT", 0, len, remain = len), ok, "boot")
          /\ remain' = remain - len
  /\ UNCHANGED <<namesSet, bootSize, frags, fi, hostReady, fwReady, fwAnswers>>

(* Mutant of DlSet: the image loop started at 2.                           *)
DlSetSkipFirst ==
  /\ pc = "boot"
  /\ remain = 0
  /\ \E ok \in XferChoices : Xfer(F("DL_SET", 0, 0, FALSE), ok, "frag")
  /\ fi' = 2
  /\ UNCHANGED <<namesSet, bootSize, frags, remain, hostReady, fwReady,
                 fwAnswers>>

(* Lines 396 and 500-526: load_boot is done; load_fw sends DL_SET listing  *)
(* the non-empty images and starts its loop at 1.                          *)
DlSet ==
  /\ pc = "boot"
  /\ remain = 0
  /\ \E ok \in XferChoices : Xfer(F("DL_SET", 0, 0, FALSE), ok, "frag")
  /\ fi' = 1
  /\ UNCHANGED <<namesSet, bootSize, frags, remain, hostReady, fwReady,
                 fwAnswers>>

(* Lines 528-534 with load_fw_frag (472-492): an empty image is -EINVAL;   *)
(* otherwise DL_START for image i.  Its result, like the whole of          *)
(* load_fw_frag's, is ignored: the loop goes on with the next image.       *)
FragStart ==
  /\ pc = "frag"
  /\ fi \in FragIdx
  /\ IF frags[fi] = 0
       THEN pc' = "failed" /\ UNCHANGED <<sent, fi, remain>>
       ELSE \E ok \in XferChoices :
              /\ sent' = Append(sent, Sent(F("DL_START", fi, frags[fi], FALSE), ok))
              /\ pc' = IF ok THEN "bin" ELSE "frag"
              /\ fi' = IF ok THEN fi ELSE fi + 1
              /\ remain' = frags[fi]
  /\ UNCHANGED <<namesSet, bootSize, frags, hostReady, fwReady, fwAnswers>>

(* Lines 442-469: load_fw_bin sends raw chunks of VSC_FW_PKG_SIZE; a       *)
(* failed transfer breaks the loop, and load_fw moves to the next image.  *)
FragBin ==
  /\ pc = "bin"
  /\ IF remain = 0
       THEN pc' = "frag" /\ fi' = fi + 1 /\ UNCHANGED <<sent, remain>>
       ELSE LET len == IF remain < FwPkg THEN remain ELSE FwPkg
            IN \E ok \in XferChoices :
                 /\ sent' = Append(sent, Sent(F("FW_CONT", fi, len, FALSE), ok))
                 /\ remain' = remain - len
                 /\ pc' = IF ok THEN "bin" ELSE "frag"
                 /\ fi' = IF ok THEN fi ELSE fi + 1
  /\ UNCHANGED <<namesSet, bootSize, frags, hostReady, fwReady, fwAnswers>>

(* Lines 536-542 and 586-596: CAM_BOOT; its result is init_hw's, and a    *)
(* failing init_hw makes mei_vsc_hw_reset return -ENODEV.  The firmware    *)
(* booted from what was downloaded comes up or does not.                   *)
CamBoot ==
  /\ pc = "frag"
  /\ fi \notin FragIdx
  /\ \E ok \in XferChoices : Xfer(F("CAM_BOOT", 0, 0, FALSE), ok, "reset_done")
  /\ \E up \in StepOutcomes : fwAnswers' = up
  /\ UNCHANGED <<namesSet, bootSize, frags, fi, remain, hostReady, fwReady>>

(* Mutant of HwStart: the poll without a timeout.                          *)
HwStartNoTimeout ==
  /\ pc = "reset_done"
  /\ hostReady' = TRUE
  /\ fwReady' = (fwReady \/ fwAnswers)
  /\ pc' = IF fwAnswers THEN "ready" ELSE "reset_done"
  /\ UNCHANGED <<namesSet, bootSize, frags, fi, remain, sent, fwAnswers>>

(* Lines 746-766: set host_ready, enable interrupts, and poll a read      *)
(* until the firmware answers (fw_ready is set) or the timeout passes,    *)
(* which leaves fw_ready as it was.                                        *)
HwStart ==
  /\ pc = "reset_done"
  /\ hostReady' = TRUE
  /\ fwReady' = (fwReady \/ fwAnswers)
  /\ pc' = IF fwAnswers THEN "ready" ELSE "failed"
  /\ UNCHANGED <<namesSet, bootSize, frags, fi, remain, sent, fwAnswers>>

-----------------------------------------------------------------------------
(* mei_vsc_dev_init (lines 1039-1055): a zeroed device, not yet reset.     *)
Init ==
  /\ pc = "down"
  /\ namesSet = FALSE
  /\ bootSize = 0
  /\ frags = [i \in FragIdx |-> 0]
  /\ fi = 0
  /\ remain = 0
  /\ sent = <<>>
  /\ hostReady = FALSE
  /\ fwReady = FALSE
  /\ fwAnswers = FALSE

Next ==
  \/ HwReset \/ CheckSilicon \/ LoadFiles \/ BootQuery \/ BootStart
  \/ LoadBoot \/ DlSet \/ FragStart \/ FragBin \/ CamBoot \/ HwStart

(* init_hw and hw_start are sequential code that runs to its return.       *)
Fairness ==
  WF_vars(CheckSilicon \/ LoadFiles \/ BootQuery \/ BootStart \/ LoadBoot
            \/ DlSet \/ FragStart \/ FragBin \/ CamBoot \/ HwStart)

Spec == Init /\ [][Next]_vars /\ Fairness

-----------------------------------------------------------------------------
(* The type invariant.                                                     *)
TypeOK ==
  /\ pc \in LoaderPcs \cup {"down", "failed", "reset_done", "ready"}
  /\ namesSet \in BOOLEAN
  /\ bootSize \in Nat /\ frags \in [FragIdx -> Nat]
  /\ fi \in 0..7
  /\ remain \in Nat
  /\ hostReady \in BOOLEAN /\ fwReady \in BOOLEAN /\ fwAnswers \in BOOLEAN

(* When CAM_BOOT goes out after a download whose frames all succeeded, the *)
(* ROM link has carried exactly one complete download since the reset: the *)
(* query, the bootloader in DL_CONT chunks with the end flag on the last   *)
(* only, DL_SET, and every image 1..6 as DL_START followed by its bytes in *)
(* VSC_FW_PKG_SIZE chunks, in order.  When an image frame fails, load_fw   *)
(* ignores it (line 533) and CAM_BOOT boots the partial firmware; the      *)
(* antecedent excludes those downloads, which do differ from the reference.*)
DownloadMatchesReference ==
  [][pc = "frag" /\ pc' = "reset_done" /\ AllAcked(sent')
       => sent' = RefDownload(bootSize, frags)]_vars

=============================================================================
