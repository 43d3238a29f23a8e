\* A two-sector LBA28 read that starts at the last LBA28 sector.
CONSTANTS
  Ops <- MCRead28
  Lbas <- MCLbasAt28Limit
  Counts <- MCCounts
  DeviceErrors = FALSE

SPECIFICATION FairSpec

INVARIANT SectorsInOrder

\* A finished request stays terminal; a parked wait never changes state.
CHECK_DEADLOCK FALSE
