\* Both kernels over N=2, C=2, 3 pixels, with one x-block per channel
\* and two y-threads.
CONSTANTS
  Launches = {"Spatial", "PerActivation"}
  BatchSize = 2
  Channels = 2
  ImageDims = 3
  BatchStride = 6
  GridX = 2
  BlockX = 1
  GridY = 1
  BlockY = 2
  Epsilon <- MCEpsilon
  X <- MCX
  EstMean <- MCEstMean
  EstVariance <- MCEstVariance
  Scale <- MCScale
  Bias <- MCBias
  Garbage <- MCGarbage
SPECIFICATION Spec
INVARIANTS TypeOK NoRacingStores StoredValuesMatchHost
PROPERTIES ImplementsHostInference EveryElementStored KernelTerminates
\* The kernel ends when every thread has left its loop.
CHECK_DEADLOCK FALSE
