\* Per-activation backward compared with the derivative of the forward function.
CONSTANTS
  N = 2
  C = 1
  H = 1
  W = 2
  Mode = "PerActivation"
  Epsilon <- MCEpsilon
  ExpAvgFactor <- MCFactor
  XSet <- MCXSet
  DySet <- MCDySet
  ParamSet <- MCParamSet
  ReuseGradBuffers = FALSE
  MaxCalls = 3
INIT Init
NEXT Next
INVARIANT GradientMatchesDerivative

\* The caller may stop after any call.
CHECK_DEADLOCK FALSE
