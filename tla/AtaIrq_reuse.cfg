\* A caller that identifies the drive and then wants to read or write.
CONSTANTS
  Ops <- MCAllOps
  Lbas <- MCLbas
  Counts <- MCOne
  DeviceErrors = FALSE

SPECIFICATION FairSpec

PROPERTY InitThenIo

\* A finished request stays terminal; a parked wait never changes state.
CHECK_DEADLOCK FALSE
