\* An NMI reaching a handler already halted in "cli; hlt" with its report.
CONSTANTS
  Raised <- MCRaised

SPECIFICATION Spec

\* The handlers end in "cli; hlt": a halted CPU takes no further step.
CHECK_DEADLOCK FALSE

PROPERTY ReportKept
