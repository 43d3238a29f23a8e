\* kmain's transfer with every other function too; a device that answers
\* within the timeouts and never aborts.
CONSTANTS
  Xfers <- MCAllXfers
  Lba = 2048
  Count = 3
  Timeout = 2
  MaxAborts = 0
  SlowDevice = FALSE

SPECIFICATION Spec

\* kmain returns after its transfer or halts in while (!success) hlt.
CHECK_DEADLOCK FALSE

PROPERTY BootFinishes
