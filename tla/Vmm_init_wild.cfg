\* Four frames free after pmm_init, fewer than vmm_init's six page tables:
\* vmm_kernel_map's walk gets PMM_INVALID_FRAME for a table.
CONSTANTS
  PageSize = 4
  MaxFrames = 8
  ReservedFrames = 60
  E820 <- MCE820
  KernelStart <- MCKernelStart
  KernelEnd <- MCKernelEnd
  Entries = 4
  Rsp = 26
  StackWindow = 8
  StackTop = 32
  VAddrs <- MCVAddrs
  AllocFreshOnly = FALSE
  MaxCalls = 6

SPECIFICATION Spec

\* kmain ends in a hlt loop: after vmm_init returns 0, or after a fault,
\* nothing runs any more.
CHECK_DEADLOCK FALSE

INVARIANT InitNeverWritesWild
