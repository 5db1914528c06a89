\* Two devices with different clock modes, neither of them mode 0, and an
\* INIT exchange that may time out after the peripheral applied it.
SPECIFICATION Spec
CONSTANTS
  MaxHz = 48000000
  Speeds = {24000000}
  Modes = {1, 2}
  Lens = {1}
  AppliedOnFailure = {FALSE, TRUE}
  Unset = Unset
PROPERTY ConfiguredForTransfer
