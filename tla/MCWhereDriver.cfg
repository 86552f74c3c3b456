\* Every combination of the dims flags of MCDimsFlags, forward only and
\* forward with backward.
CONSTANTS
  DimsFlags <- MCDimsFlags
SPECIFICATION Spec
INVARIANTS TypeOK ContigSizeMatchesLayout HostForwardIsWhereOnLeadingBroadcast
\* The driver exits after its last verification, on bad shapes, or on a fault.
CHECK_DEADLOCK FALSE
