\* Spatial backward when the caller hands back the dscale/dbias buffers of an earlier call.
CONSTANTS
  N = 2
  C = 1
  H = 1
  W = 2
  Mode = "Spatial"
  Epsilon <- MCEpsilon
  ExpAvgFactor <- MCFactor
  XSet <- MCXSet
  DySet <- MCDySet
  ParamSet <- MCParamSet
  ReuseGradBuffers = TRUE
  MaxCalls = 3
INIT Init
NEXT Next
INVARIANT GradientSumsToZero

\* The caller may stop after any call.
CHECK_DEADLOCK FALSE
