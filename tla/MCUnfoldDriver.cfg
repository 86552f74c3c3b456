\* Parameter lists matching the 4-d inputs, windows that fit.
CONSTANTS
  DimsFlags <- MCDims
  KernelFlags <- MCKernel
  StrideFlags <- MCStride
  PadFlags <- MCPad
  DilFlags <- MCDil
INIT Init
NEXT Next
INVARIANTS TypeOK OutputShapeCountsWindows
\* The driver stops after sizing its buffers or on undefined parameters.
CHECK_DEADLOCK FALSE
