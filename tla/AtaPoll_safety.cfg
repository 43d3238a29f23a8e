\* Every transfer function over two sectors; a device that may be slower
\* than a wait loop's timeout and may abort one command.
CONSTANTS
  Xfers <- MCAllXfers
  Lba = 2048
  Count = 2
  Timeout = 2
  MaxAborts = 1
  SlowDevice = TRUE

SPECIFICATION Spec

\* kmain returns after its transfer or halts in while (!success) hlt.
CHECK_DEADLOCK FALSE

INVARIANT TypeOK
INVARIANT SectorsInOrder
INVARIANT SuccessMeansDurable
INVARIANT Lba48RoundTrip
