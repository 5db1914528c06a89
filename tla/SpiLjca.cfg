\* The SPI controller with the full speed range's edge cases, both clock
\* modes, transfer lengths around the 58-byte fragment size, and INIT
\* exchanges that may fail before or after the peripheral applied them.
SPECIFICATION Spec
CONSTANTS
  MaxHz = 48000000
  Speeds = {48000000, 12000000, 4000000}
  Modes = {0, 3}
  Lens = {0, 58, 59, 117}
  AppliedOnFailure = {FALSE, TRUE}
  Unset = Unset
INVARIANT TypeOK
PROPERTY FragmentsMatchReference
