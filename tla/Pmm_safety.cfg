\* Allocations and frees of up to eight frames at a time.
CONSTANTS
  PageSize = 4
  MaxFrames = 64
  ReservedFrames = 4
  E820 <- MCE820
  KernelStart <- MCKernelStart
  KernelEnd <- MCKernelEnd
  MaxOwned = 8
  ClientFrees = TRUE

SPECIFICATION Spec

INVARIANT TypeOK

INVARIANT ProtectedNeverHandedOut
