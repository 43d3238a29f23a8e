\* vmm_init, then any sequence of vmm_page_alloc / vmm_page_free on three
\* pages, six calls deep, with nine frames free after pmm_init: the callers
\* can exhaust them.
CONSTANTS
  PageSize = 4
  MaxFrames = 8
  ReservedFrames = 55
  E820 <- MCE820
  KernelStart <- MCKernelStart
  KernelEnd <- MCKernelEnd
  Entries = 4
  Rsp = 26
  StackWindow = 8
  StackTop = 32
  VAddrs <- MCVAddrs
  AllocFreshOnly = FALSE
  MaxCalls = 6

SPECIFICATION Spec

\* kmain ends in a hlt loop: after vmm_init returns 0, or after a fault,
\* nothing runs any more.
CHECK_DEADLOCK FALSE

INVARIANT TypeOK
INVARIANT SwitchKeepsKernelMapped
INVARIANT NoAlias
INVARIANT VmmFramesProtected
