\* kmain as built; a device that answers within the timeouts and aborts
\* one command.
CONSTANTS
  Xfers <- MCKmainXfer
  Lba = 2048
  Count = 2
  Timeout = 2
  MaxAborts = 1
  SlowDevice = FALSE

SPECIFICATION Spec

\* kmain returns after its transfer or halts in while (!success) hlt.
CHECK_DEADLOCK FALSE

PROPERTY BootFinishes
