\* I2C replies with up to three units and SPI with up to two, so that the
\* six possible children overrun the five dev->ljcas slots; every exchange
\* and allocation may fail.
SPECIFICATION Spec
CONSTANTS
  I2cNums = {0, 1, 3}
  SpiNums = {2}
  ExchOutcomes = {FALSE, TRUE}
  AllocOutcomes = {FALSE, TRUE}
INVARIANT TypeOK ChildIdsPerKind TeardownComplete SysfsStubLive NotifyOnlyBound
