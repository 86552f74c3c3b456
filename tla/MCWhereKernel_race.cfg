\* Broadcast backward with both gradients, input_grad broadcast.
CONSTANTS
  Launches <- MCRaceLaunches
  DataLen <- MCDataLen
  Condition <- MCCondition
  Input <- MCInput
  Other <- MCOther
  OutputGrad <- MCOutputGrad
SPECIFICATION Spec
INVARIANT ResultMatchesHost
\* The launch ends when every thread has left its body.
CHECK_DEADLOCK FALSE
