\* Every operation, one- and two-sector requests, device errors on; the
\* driver implements the request facade of AtaRequest.
CONSTANTS
  Ops <- MCAllOps
  Lbas <- MCLbas
  Counts <- MCCounts
  DeviceErrors = TRUE

SPECIFICATION FairSpec

INVARIANT TypeOK
INVARIANT OpStepConsistent
INVARIANT SectorsInOrder

PROPERTY RequestCompletesOrIrqLost
PROPERTY RefinesAtaRequest

\* A finished request stays in its terminal phase forever (nothing returns
\* the session to IDLE) and a parked wait never changes state again.
CHECK_DEADLOCK FALSE
