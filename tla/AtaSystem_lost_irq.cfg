\* The driver behind the PIC pair, identifications only, a device that
\* never aborts: the interrupt wiped by the flag reset still parks the
\* identification with the PICs in the path.
CONSTANTS
  Ops <- MCInitOps
  Lbas <- MCLbas
  Counts <- MCCounts
  DeviceErrors = FALSE
  MasterMasks <- MCMasterMasks
  SlaveMasks <- MCSlaveMasks

SPECIFICATION Spec

\* A finished request stays terminal (nothing returns it to IDLE) and the
\* kernel loop then idles: the system may stop.
CHECK_DEADLOCK FALSE

PROPERTY IdentifyCompletes
