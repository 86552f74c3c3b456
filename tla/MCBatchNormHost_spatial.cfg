\* Spatial functions, two samples of a 1x1x2 image: one channel of four.
CONSTANTS
  N = 2
  C = 1
  H = 1
  W = 2
  Mode = "Spatial"
  Epsilon <- MCEpsilon
  ExpAvgFactor <- MCFactor
  XSet <- MCXSet
  DySet <- MCDySet
  ParamSet <- MCParamSet
  ReuseGradBuffers = FALSE
  MaxCalls = 3
INIT Init
NEXT Next
INVARIANT TypeOK ResultsFinite ForwardOutputNormalized BackwardPathsAgree ParamGradientsAreGroupSums GradientSumsToZero

\* The caller may stop after any call.
CHECK_DEADLOCK FALSE
