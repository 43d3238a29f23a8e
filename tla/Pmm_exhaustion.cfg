\* A client that allocates until the allocator has nothing left.
CONSTANTS
  PageSize = 4
  MaxFrames = 64
  ReservedFrames = 4
  E820 <- MCE820
  KernelStart <- MCKernelStart
  KernelEnd <- MCKernelEnd
  MaxOwned = 70
  ClientFrees = FALSE

SPECIFICATION Spec

INVARIANT HandedOutFramesBelowMax

\* The client stops once it holds MaxOwned frames.
CHECK_DEADLOCK FALSE
