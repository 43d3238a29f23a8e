\* The driver behind the PIC pair: every operation, one and two
\* sectors, device errors on, firmware masks from a small set.
CONSTANTS
  Ops <- MCOps
  Lbas <- MCLbas
  Counts <- MCCounts
  DeviceErrors = TRUE
  MasterMasks <- MCMasterMasks
  SlaveMasks <- MCSlaveMasks

SPECIFICATION Spec

\* A finished request stays terminal (nothing returns it to IDLE) and the
\* kernel loop then idles: the system may stop.
CHECK_DEADLOCK FALSE

INVARIANT SetupPreservesMasks
INVARIANT OneIrqInFlight
PROPERTY Irq14Serviced
PROPERTY RequestCompletesOrIrqLost
