\* One launch of each of the five Where kernels.
CONSTANTS
  Launches <- MCLaunches
  DataLen <- MCDataLen
  Condition <- MCCondition
  Input <- MCInput
  Other <- MCOther
  OutputGrad <- MCOutputGrad
SPECIFICATION Spec
INVARIANTS TypeOK NoRacingStores ResultMatchesHost
PROPERTIES ImplementsHostWhere KernelTerminates
\* The launch ends when every thread has left its body.
CHECK_DEADLOCK FALSE
