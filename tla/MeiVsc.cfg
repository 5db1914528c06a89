\* The SPI driver's lifecycle (probe, probe_work, suspend, resume, remove,
\* shutdown) around the firmware loader: a bootloader at and above one
\* DL_CONT payload; images of two chunks or empty; silicon checks, file
\* loads, start polls, mei_register and the IRQ request on resume that may
\* fail.  Liveness of the MEI core calls bounds the size: see README.
SPECIFICATION MeiSpec
CONSTANTS
  BootSizes = {248, 300}
  FragTables <- MC_FragTables
  XferOutcomes = {FALSE, TRUE}
  StepOutcomes = {FALSE, TRUE}
  RegisterOutcomes = {FALSE, TRUE}
INVARIANT MeiTypeOK SuspendedNoDownload TornDownQuiescent
PROPERTY DownloadMatchesReference CoreCallsEnd
