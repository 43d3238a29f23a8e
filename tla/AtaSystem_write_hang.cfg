\* The driver behind the PIC pair, writes only, a device that never
\* aborts: the wait for the first interrupt still hangs with the PICs in
\* the path.
CONSTANTS
  Ops <- MCWriteOps
  Lbas <- MCLbas
  Counts <- MCCounts
  DeviceErrors = FALSE
  MasterMasks <- MCMasterMasks
  SlaveMasks <- MCSlaveMasks

SPECIFICATION Spec

\* A finished request stays terminal (nothing returns it to IDLE) and the
\* kernel loop then idles: the system may stop.
CHECK_DEADLOCK FALSE

PROPERTY WriteCompletes
