\* A caller that only allocates pages it has not mapped: a vmm_page_alloc
\* whose page-table walk runs out of frames keeps the page's frame.
CONSTANTS
  PageSize = 4
  MaxFrames = 8
  ReservedFrames = 55
  E820 <- MCE820
  KernelStart <- MCKernelStart
  KernelEnd <- MCKernelEnd
  Entries = 4
  Rsp = 26
  StackWindow = 8
  StackTop = 32
  VAddrs <- MCVAddrs
  AllocFreshOnly = TRUE
  MaxCalls = 6

SPECIFICATION Spec

\* kmain ends in a hlt loop: after vmm_init returns 0, or after a fault,
\* nothing runs any more.
CHECK_DEADLOCK FALSE

INVARIANT NoLeak
