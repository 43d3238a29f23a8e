\* IDENTIFY against a device that always answers with DRQ and INTRQ.
CONSTANTS
  Ops <- MCInitOps
  Lbas <- MCLbas
  Counts <- MCOne
  DeviceErrors = FALSE

SPECIFICATION FairSpec

PROPERTY IdentifyCompletes

\* A finished request stays terminal; a parked wait never changes state.
CHECK_DEADLOCK FALSE
