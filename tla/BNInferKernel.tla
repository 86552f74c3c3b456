---------------------------- MODULE BNInferKernel ----------------------------
(***************************************************************************)
(* The HIP batch-normalisation inference kernels with estimated          *)
(* statistics, bn_fwd_infer_spatial                                        *)
(* (src/src/kernels/MIOpenBatchNormFwdInferSpatialHIP.cpp) and            *)
(* bn_fwd_infer_per_activation                                             *)
(* (src/src/kernels/MIOpenBatchNormFwdInferPerActHIP.cpp).                *)
(*                                                                         *)
(* Every thread of the launch grid is a process that runs the kernel     *)
(* body: a grid-stride loop over the image positions, and inside it a    *)
(* loop over the batch that stores one output element per step.  The     *)
(* threads interleave arbitrarily.  A thread whose x index lies beyond    *)
(* the statistics buffers reads values the program does not define: the  *)
(* model lets it read any member of Garbage.                              *)
(***************************************************************************)
EXTENDS Integers, FiniteSets, ExactReal

CONSTANTS
  Launches,        \* the kernels that may be launched: "Spatial", "PerActivation"
  BatchSize,       \* batchSize
  Channels,        \* channels of the tensor (not a kernel argument)
  ImageDims,       \* imageDims
  BatchStride,     \* batchStride
  GridX, BlockX,   \* gridDim.x, blockDim.x
  GridY, BlockY,   \* gridDim.y, blockDim.y
  Epsilon,         \* epsilon
  X,               \* in: the input tensor
  EstMean, EstVariance, Scale, Bias,
                   \* estimatedMean, estimatedVariance, scale, bias, given on
                   \* the per-activation index range (the spatial kernel
                   \* reads their first Channels entries)
  Garbage          \* statistics a read outside those buffers may return

\* The tensor; BatchStride is what the caller passes for C*ImageDims.
Elems == 0 .. BatchSize * Channels * ImageDims - 1
\* Indices of the statistics buffers of kernel k: cidx, or adjIndex
StatCellsOf(k) == IF k = "Spatial" THEN 0 .. Channels - 1 ELSE 0 .. Channels * ImageDims - 1

Params == [mean : Val, var : Val, scale : Val, bias : Val]

ASSUME KernelAssumption == Launches # {} /\ Launches \subseteq {"Spatial", "PerActivation"}
ASSUME ShapeAssumption ==
  /\ {BatchSize, Channels, ImageDims, GridX, BlockX, GridY, BlockY} \subseteq Nat \ {0}
  /\ BatchStride \in Nat
ASSUME EpsilonAssumption == RPos(Epsilon)
ASSUME InputAssumption ==
  /\ X \in [Elems -> Val]
  /\ {EstMean, EstVariance, Scale, Bias} \subseteq [StatCellsOf("PerActivation") -> Val]
  /\ Garbage # {} /\ Garbage \subseteq Params

\* The kernel launched: chosen by the caller, fixed for the run.
VARIABLE launch

Kernel == launch
IsSpatial == Kernel = "Spatial"
StatCells == StatCellsOf(Kernel)

(***************************************************************************)
(* Thread indices.  A thread is <<blockIdx.x, threadIdx.x, blockIdx.y,    *)
(* threadIdx.y>>.                                                          *)
(***************************************************************************)
Threads == (0 .. GridX - 1) \X (0 .. BlockX - 1) \X (0 .. GridY - 1) \X (0 .. BlockY - 1)

\* xidx = blockIdx.x * blockDim.x + threadIdx.x;  grpid = blockIdx.x
Chan(t) == IF IsSpatial THEN t[1] * BlockX + t[2] ELSE t[1]
\* yidx = blockIdx.y * blockDim.y + threadIdx.y
YIdx(t) == t[3] * BlockY + t[4]
\* the step of the grid-stride loop: gridDim.y * blockDim.y
YStride == GridY * BlockY

\* The statistics index a thread loads: xidx, or adjIndex = grpid*imageDims + img_offset
StatIndex(t, i) == IF IsSpatial THEN Chan(t) ELSE Chan(t) * ImageDims + i

\* What the four loads of the statistics return.
Loaded(k) ==
  IF k \in StatCells
    THEN {[mean |-> EstMean[k], var |-> EstVariance[k], scale |-> Scale[k], bias |-> Bias[k]]}
    ELSE Garbage

\* fabs on a double
FAbs(v) == IF IsRational(v) /\ v.a.num < 0 THEN Neg(v) ELSE v

\* Faulty variant: epsilon left out.
InvVarianceNoEps(p) == InvSqrt(FAbs(p.var))

\* invVariance = rsqrt(fabs(variance + epsilon))
InvVariance(p) == InvSqrt(FAbs(Add(p.var, Epsilon)))

\* fma(pscale, (in[index] - mean) * invVariance, pbias)
Normalize(p, v) == Add(Mul(p.scale, Mul(Sub(v, p.mean), InvVariance(p))), p.bias)

\* Faulty variant: the roles of the batch and channel strides swapped.
OutIndexSwapped(t, i, b) == b * ImageDims + Chan(t) * BatchStride + i

\* index = n * batchStride + xidx * imageDims + idx   (spatial)
\* index = batchStride * n + grpid * imageDims + img_offset   (per activation)
OutIndex(t, i, b) == b * BatchStride + Chan(t) * ImageDims + i

\* A stored element is kept as the operands of its fma: the statistics
\* the thread loaded and in[index].  Normalize applies the arithmetic.
Fma(p, v) == [prm |-> p, in |-> v]

\* An element no thread has stored yet.
Unwritten == [a |-> RZero, b |-> RZero, r |-> [num |-> -1, den |-> 1]]
NoParams  == [mean |-> Zero, var |-> Zero, scale |-> Zero, bias |-> Zero]

(***************************************************************************)
(* State: per thread, its place in the kernel body (pc), the loop        *)
(* counters idx/img_offset and n, and the statistics it loaded into       *)
(* registers.  writers records which threads stored each element, and    *)
(* stray whether a store fell outside the output tensor.                  *)
(***************************************************************************)
VARIABLES pc, idx, n, prm, out, writers, stray

vars == <<launch, pc, idx, n, prm, out, writers, stray>>

Init ==
  /\ launch \in Launches
  /\ pc = [t \in Threads |-> IF IsSpatial THEN "load" ELSE "test"]
  /\ idx = [t \in Threads |-> YIdx(t)]
  /\ n = [t \in Threads |-> 0]
  /\ prm = [t \in Threads |-> NoParams]
  /\ out = [i \in Elems |-> Unwritten]
  /\ writers = [i \in Elems |-> {}]
  /\ stray = FALSE

\* Faulty variant: the loop stops one position early.
TestOffByOne(t) ==
  /\ pc[t] = "test"
  /\ pc' = [pc EXCEPT ![t] = IF idx[t] < ImageDims - 1
                               THEN IF IsSpatial THEN "inner" ELSE "load"
                               ELSE "done"]
  /\ UNCHANGED <<launch, idx, n, prm, out, writers, stray>>

\* The test of the grid-stride loop: idx < imageDims.
Test(t) ==
  /\ pc[t] = "test"
  /\ pc' = [pc EXCEPT ![t] = IF idx[t] < ImageDims
                               THEN IF IsSpatial THEN "inner" ELSE "load"
                               ELSE "done"]
  /\ UNCHANGED <<launch, idx, n, prm, out, writers, stray>>

\* The loads of mean, variance, scale and bias: once before the loop in
\* the spatial kernel, at the top of every iteration per activation.
Load(t) ==
  /\ pc[t] = "load"
  /\ \E p \in Loaded(StatIndex(t, idx[t])) : prm' = [prm EXCEPT ![t] = p]
  /\ pc' = [pc EXCEPT ![t] = IF IsSpatial THEN "test" ELSE "inner"]
  /\ UNCHANGED <<launch, idx, n, out, writers, stray>>

\* Faulty variant: the batch loop runs while n <= batchSize.
StoreInclusiveBound(t) ==
  LET i == OutIndex(t, idx[t], n[t]) IN
  /\ pc[t] = "inner" /\ n[t] <= BatchSize
  /\ out' = IF i \in Elems THEN [out EXCEPT ![i] = Fma(prm[t], X[i])] ELSE out
  /\ writers' = IF i \in Elems THEN [writers EXCEPT ![i] = @ \cup {t}] ELSE writers
  /\ stray' = (stray \/ i \notin Elems)
  /\ n' = [n EXCEPT ![t] = n[t] + 1]
  /\ UNCHANGED <<launch, pc, idx, prm>>

\* One iteration of the batch loop: out[index] = fma(...), n++.
Store(t) ==
  LET i == OutIndex(t, idx[t], n[t]) IN
  /\ pc[t] = "inner" /\ n[t] < BatchSize
  /\ out' = IF i \in Elems THEN [out EXCEPT ![i] = Fma(prm[t], X[i])] ELSE out
  /\ writers' = IF i \in Elems THEN [writers EXCEPT ![i] = @ \cup {t}] ELSE writers
  /\ stray' = (stray \/ i \notin Elems)
  /\ n' = [n EXCEPT ![t] = n[t] + 1]
  /\ UNCHANGED <<launch, pc, idx, prm>>

\* Faulty variants of the loop increment: idx += gridDim.y, forgetting
\* the block size, and no increment at all.
AdvanceGridStrideOnly(t) ==
  /\ pc[t] = "inner" /\ n[t] = BatchSize
  /\ idx' = [idx EXCEPT ![t] = idx[t] + GridY]
  /\ n' = [n EXCEPT ![t] = 0]
  /\ pc' = [pc EXCEPT ![t] = "test"]
  /\ UNCHANGED <<launch, prm, out, writers, stray>>

AdvanceNoIncrement(t) ==
  /\ pc[t] = "inner" /\ n[t] = BatchSize
  /\ n' = [n EXCEPT ![t] = 0]
  /\ pc' = [pc EXCEPT ![t] = "test"]
  /\ UNCHANGED <<launch, idx, prm, out, writers, stray>>

\* The end of the batch loop and the increment of the grid-stride loop.
Advance(t) ==
  /\ pc[t] = "inner" /\ n[t] = BatchSize
  /\ idx' = [idx EXCEPT ![t] = idx[t] + YStride]
  /\ n' = [n EXCEPT ![t] = 0]
  /\ pc' = [pc EXCEPT ![t] = "test"]
  /\ UNCHANGED <<launch, prm, out, writers, stray>>

Step(t) == Test(t) \/ Load(t) \/ Store(t) \/ Advance(t)

Next == \E t \in Threads : Step(t)

\* Every launched GPU thread runs its body to the end: each of its steps,
\* once it is the thread's next step, is eventually taken.
Fairness ==
  \A t \in Threads :
    /\ WF_vars(Test(t)) /\ WF_vars(Load(t)) /\ WF_vars(Store(t)) /\ WF_vars(Advance(t))

Spec == Init /\ [][Next]_vars /\ Fairness

(***************************************************************************)
(* The host reference the kernels are ported from: the estimated-        *)
(* statistics branch of miopenBNFwdInfer{Spatial,PerActivation}RunHost,   *)
(* with running statistics EstMean and EstVariance, on the same tensor   *)
(* seen as N x C x 1 x ImageDims.  Only its constant operators are used.  *)
(***************************************************************************)
HostParam == [scale |-> Scale, bias |-> Bias]

Host(k) == INSTANCE BatchNormHost WITH
          N <- BatchSize, C <- Channels, H <- 1, W <- ImageDims, Mode <- k,
          Epsilon <- Epsilon, ExpAvgFactor <- Zero,
          XSet <- {X}, DySet <- {X}, ParamSet <- {HostParam},
          ReuseGradBuffers <- FALSE, MaxCalls <- 0,
          x <- X, param <- HostParam, dy <- X, dx <- X, out <- X,
          dscale <- EstMean, dbias <- EstMean, saveMean <- EstMean,
          saveInvVariance <- EstVariance, runningMean <- EstMean,
          runningVariance <- EstVariance, statsValid <- FALSE,
          lastCall <- [op |-> "none", flag |-> FALSE, fresh |-> TRUE], calls <- 0

\* out_ptr of the host call with estmeanvar set, in the mode of kernel k
HostOutOf(k) ==
  Host(k)!Normalized(Host(k)!Centered(X, EstMean), Host(k)!InvStd(EstVariance), HostParam)

HostOut == IF IsSpatial THEN HostOutOf("Spatial") ELSE HostOutOf("PerActivation")

\* The statistics the host reference uses for element i: those of its
\* group, by the host's own indexing.
HostStats(k, i) ==
  LET g == Host(k)!GroupOf(i)
  IN  [mean |-> EstMean[g], var |-> EstVariance[g], scale |-> Scale[g], bias |-> Bias[g]]

\* The fma each element of out must end up with.
HostOperandsIn(k) == [i \in Elems |-> Fma(HostStats(k, i), X[i])]

\* ... for the kernel k that is launched.
HostOperands(k) ==
  IF k = "Spatial" THEN HostOperandsIn("Spatial") ELSE HostOperandsIn("PerActivation")

Promise == INSTANCE KernelOutput WITH
             Launches <- Launches, Cells <- LAMBDA k : Elems,
             Target <- LAMBDA k : HostOperands(k), Unwritten <- Unwritten,
             launch <- launch, out <- out

(***************************************************************************)
(* Properties.                                                            *)
(***************************************************************************)
\* Every thread's counters stay within the loops of the kernel body.
TypeOK ==
  /\ launch \in Launches
  /\ pc \in [Threads -> {"load", "test", "inner", "done"}]
  /\ idx \in [Threads -> Nat]
  /\ n \in [Threads -> 0 .. BatchSize]
  /\ prm \in [Threads -> Params]
  /\ out \in [Elems -> [prm : Params, in : Val] \cup {Unwritten}]
  /\ writers \in [Elems -> SUBSET Threads]
  /\ stray \in BOOLEAN

\* The threads of a launch store to disjoint elements of out, all inside
\* the tensor: the grid-stride loops of different threads never meet, so
\* the kernel has no write-write race.
NoRacingStores ==
  /\ ~stray
  /\ \A i \in Elems : Cardinality(writers[i]) <= 1

\* The launch implements the safety part of its promise: whatever the
\* interleaving of the threads, each element of out is stored only with
\* the fma of its own input and of the statistics of its own group in the
\* host's indexing: the thread and stride arithmetic puts every store in
\* its place.
ImplementsHostInference == Promise!SafetySpec

\* Every stored element holds the value the host reference computes for
\* it: rsqrt(fabs(variance + epsilon)) and fma(scale, inhat, bias) give
\* the host's scale*(x - mean)/sqrt(variance + epsilon) + bias.
StoredValuesMatchHost ==
  \A i \in Elems : out[i] # Unwritten => Normalize(out[i].prm, out[i].in) = HostOut[i]

\* ... and its liveness part: the grid-stride loops of the threads cover
\* the tensor, so every element of out is eventually stored.
EveryElementStored == <>(\A i \in Elems : out[i] # Unwritten)

\* Every thread leaves its grid-stride loop.
KernelTerminates == <>(\A t \in Threads : pc[t] = "done")
=============================================================================
