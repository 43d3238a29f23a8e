\* Allocations of up to three frames from the map of MCPmm.
CONSTANTS
  PageSize = 4
  MaxFrames = 64
  ReservedFrames = 4
  E820 <- MCE820
  KernelStart <- MCKernelStart
  KernelEnd <- MCKernelEnd
  MaxOwned = 3
  ClientFrees = FALSE

SPECIFICATION Spec

INVARIANT HandedOutFramesAreRam

\* The client stops once it holds MaxOwned frames.
CHECK_DEADLOCK FALSE
