\* Every reduction, contiguous flag and an ignore_index inside and outside
\* the classes.
CONSTANTS
  DimsFlags <- MCDims
  ReduceFlags <- MCReduce
  ContigFlags <- MCContig
  IgnoreFlags <- MCIgnore
  NaN = NaN
INIT Init
NEXT Next
INVARIANTS TypeOK TargetLayoutDense ClassIndicesInRange ForwardLaunchMatchesOutput
\* The driver stops after its last call, or on an error status.
CHECK_DEADLOCK FALSE
