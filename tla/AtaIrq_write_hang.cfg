\* Single-sector writes against a device that follows the PIO data-out
\* protocol and never fails.
CONSTANTS
  Ops <- MCWriteOps
  Lbas <- MCLbas
  Counts <- MCOne
  DeviceErrors = FALSE

SPECIFICATION FairSpec

PROPERTY WriteCompletes

\* A finished request stays terminal; a parked wait never changes state.
CHECK_DEADLOCK FALSE
