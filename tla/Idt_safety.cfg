\* idt_init, then any exception vector 0-31 and an NMI at any point.
CONSTANTS
  Raised <- MCRaised

SPECIFICATION Spec

\* The handlers end in "cli; hlt": a halted CPU takes no further step.
CHECK_DEADLOCK FALSE

INVARIANT ExceptionsReported
INVARIANT ReportMatchesFrame
