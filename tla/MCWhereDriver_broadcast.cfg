\* The CPU forward reference against the broadcast select, over every
\* combination of the dims flags.
CONSTANTS
  DimsFlags <- MCDimsFlags
SPECIFICATION Spec
INVARIANTS HostForwardIsWhere
CHECK_DEADLOCK FALSE
