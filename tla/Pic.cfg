\* Firmware masks from a small set; the drive raises IRQ14 over and over.
CONSTANTS
  MasterMasks <- MCMasterMasks
  SlaveMasks <- MCSlaveMasks

SPECIFICATION Spec

\* An interrupt the PICs can no longer deliver leaves kmain's hlt loop idle
\* for ever; Irq14Serviced is what tells that stop apart from progress.
CHECK_DEADLOCK FALSE

INVARIANT SetupPreservesMasks
PROPERTY Irq14Serviced
