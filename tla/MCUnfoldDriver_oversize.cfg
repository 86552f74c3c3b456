\* A kernel that does not fit the padded input, with stride 2.
CONSTANTS
  DimsFlags <- MCDimsSmall
  KernelFlags <- MCKernelLarge
  StrideFlags <- MCStride
  PadFlags <- MCPad
  DilFlags <- MCDil
INIT Init
NEXT Next
INVARIANT OutputShapeCountsWindows
\* The driver stops after sizing its buffers or on undefined parameters.
CHECK_DEADLOCK FALSE
