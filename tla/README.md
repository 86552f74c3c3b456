# TLA+ verification of the MIOpen batch-norm, Where, Unfold and NLLLoss code

This directory holds TLA+ models of the code under `src/`. It also holds TLC
configurations that check them on small instances, and TLAPS proofs of their
type and safety properties for every value of the constants.

## 1. The system (inventory)

| Part | Source | Status |
|---|---|---|
| Batch-norm host reference: forward training, forward inference, backward, each per-activation and spatial | `src/driver/miopen_BatchNormHost.hpp` | modelled (`BatchNormHost`) |
| HIP batch-norm inference kernels (estimated statistics) | `src/src/kernels/MIOpenBatchNormFwdInfer{Spatial,PerAct}HIP.cpp` | modelled (`BNInferKernel`, refining `KernelOutput`) |
| Where forward/backward kernels (broadcast select) | `src/src/kernels/MIOpenWhere.cpp` | modelled (`WhereKernel`, refining `KernelOutput`; proofs in `WhereKernelProofs`) |
| Where driver host reference, `check_broadcasted_contiguous` | `src/driver/where_driver.hpp` | modelled (`WhereHost`, `WhereDriver`); the GPU calls and timing are left out |
| NLLLoss solver launch sizing and driver reference | `src/src/solver/nllloss/forward_nllloss.cpp`, `src/driver/nllloss_driver.hpp` | modelled (`NLLLossDriver`); the loss arithmetic of the host reference and the kernel is not in this repository |
| Unfold driver (output shape, buffer sizes) | `src/driver/unfold_driver.hpp` | partly (`UnfoldDriver`); its host references and kernels are not in this repository |
| gtest harnesses, `cpu_adam.hpp` | `src/test/...` | not modelled: random data, tolerance comparison and no state of their own |

**State of the host reference.** The caller owns these buffers:
- `out_ptr` and `dx_ptr`, indexed by element;
- `saveMean`, `saveInvVariance`, `runningMean`, `runningVariance`, `dscale_ptr` and `dbias_ptr`, indexed by group;
- the inputs `in_ptr`/`x_ptr`, `dy_ptr`, `scale_ptr` and `bias_ptr`.

A group is one activation, meaning the N samples of one (c,h,w), in
per-activation mode. In spatial mode it is one channel, meaning the N·H·W
values of one c.

**Operations.** There are six host functions:
- training: `miopenBNFwdTrain{PerActivation,Spatial}RunHost`;
- inference: `miopenBNFwdInfer{PerActivation,Spatial}RunHost`;
- backward: `miopenBNBwd{PerActivation,Spatial}RunHost`.

A driver calls them one at a time on one thread.

**Interaction.** The functions talk to each other only through the buffers:
- Training writes the saved statistics when `savemeanvar` is set, and the running statistics when `runningmeanvar` is set.
- Inference with `estmeanvar` reads the running statistics.
- Backward with `savedmeanvar` reads the saved statistics. Without it, backward recomputes them from `x_ptr`.
- Backward adds to the `dscale`/`dbias` buffers it is given.

**What is hard to test** (the `hazards` of PROJECT.json):
- **Stale buffers.**
  - The backward functions accumulate into `dscale`/`dbias` with `+=`. Only the spatial recomputing branch zeroes them first.
  - The saved statistics are those of the last training call. They may belong to another `x`.
- **Order inside one call.**
  - The spatial forward passes use `out_ptr` as a scratchpad holding x − mean between two loops.
  - The spatial backward divides `dscale` by NHW before dx reads it.
- **Numeric edges.**
  - A constant group has variance 0, and only ε keeps 1/sqrt finite.
  - For a batch of one, the Bessel factor n/(n−1) is guarded.
  - The closed-form dx must be the true derivative, which a tolerance test on random data hardly pins down.

## 2. Modules

- **`ExactReal`** models the double arithmetic of the host code exactly.
  - A double is a + b·σ, with a and b rational and σ = 1/sqrt(r).
  - Within one group the code computes sums, products, divisions by a count, and one 1/sqrt(var+ε). This set is closed under all of them.
  - inf and NaN are the value `NonFinite`, which propagates through every operation.
  - Every operator is total on its arguments.
  - Rounding is not modelled: the properties are the algebraic identities that the code must meet in exact arithmetic.
- **`BatchNormHost`** models the host reference.
  - Constants: N, C, H and W (`n_batchs`, `channels`, `height`, `width`), `Mode`, `Epsilon`, `ExpAvgFactor`, the sets of inputs the caller may pass, `ReuseGradBuffers`, and the call bound `MaxCalls`.
  - Each host function is one action, taking the whole function body:
    - every loop, as a fold `Accumulate` over the group members in the code's loop order (`Members`);
    - every store, and every branch on `savemeanvar`, `runningmeanvar`, `estmeanvar` and `savedmeanvar`.
  - The actions are `FwdTrainPerActivation`, `FwdTrainSpatial`, `FwdInferPerActivation`, `FwdInferSpatial`, `BwdPerActivation` and `BwdSpatial`.
  - The spatial functions have `#if`-selected `MIO_BN_DIST` partial-sum loops. These only regroup the same sums, which is the identity in exact arithmetic, so one fold stands for both.
  - History variables:
    - `statsValid`: the saved statistics were computed from the current `x`;
    - `lastCall`: the latest call and its flags;
    - `calls`: bounded by `MaxCalls`.
  - The backward action's `fresh` input says whether the caller's dscale/dbias buffers are zero.
- **`MCBatchNormHost`** defines small integer tensors for TLC. Epsilon is 1/4 and the momentum 1/2.

The properties compare the code with reference definitions written from the
mathematics, not from the code:
- `RefVariance` is E[x²] − E[x]² in one pass, where the code makes two passes.
- `ExactDx` is the derivative of y = γ(x − μ)/sqrt(v + ε) + β.

## 3. Runs of the host reference

All runs bound a behaviour to 3 calls. That covers every pair of calls, such
as train then backward, train then infer, and backward then backward. Every
run draws x from 3 tensors, one of which is constant so that its variance is
0, and dy from 2 tensors, one of which is non-constant.

Every run sets CHECK_DEADLOCK FALSE: the caller may stop after any call, and
the bound MaxCalls ends every behaviour.

| Run | Shape N,C,H,W | Checks | Result |
|---|---|---|---|
| `peract` | 2,1,1,2 per-activation | TypeOK, ResultsFinite, ForwardOutputNormalized, BackwardPathsAgree, ParamGradientsAreGroupSums | pass, 8080 states |
| `spatial` | 2,1,1,2 spatial | the same, plus GradientSumsToZero | pass, 8056 states |
| `peract_grad` | per-activation | GradientMatchesDerivative | **violated** |
| `spatial_reuse` | spatial, reused buffers | GradientSumsToZero | **violated** |

What the violations show:
- **`peract_grad`.** Line 660 computes `tmp2 = n*dxhat - tmp1`, where `dxhat` is the group sum of scale·dy. The derivative needs n·scale·dy_i at that place, so the per-activation dx is not the gradient.
- **`spatial_reuse`.** The saved-statistics spatial branch adds to dbias without zeroing it (789). A stale dbias then enters dx (804).

When the caller passes zeroed buffers, `BackwardPathsAgree` and
`GradientSumsToZero` hold in spatial mode.

`ParamGradientsAreGroupSums` compares the dscale and dbias that a backward call
returns on the current statistics with a reference. The reference is computed
from the mean and variance of the current x, not from what the code saved:
dbias = Σdy and dscale = Σ(xhat·dy)/M. The spec (section 4.5 and its design
notes) leaves the dscale convention open between the raw sum and the
mean-normalised one, but asks for one convention applied consistently. The
code divides by n_batchs per activation (654) and by NHW spatially (794). Both
runs show that this is the same convention, M, whether the statistics were
saved by a training call or recomputed. The mutants of this property are
dscale left undivided per activation, and the spatial dscale divided by
n_batchs.

Two hazards of the backward pass are stated in PROJECT.json but no run is
spent on them:
- the spatial backward divides `dscale_ptr` by NHW (794) before dx reads it
  (805). Checked against the `spatial` configuration, `GradientMatchesDerivative`
  is violated for this reason: the xhat term of dx comes out NHW times too
  small. The run budget holds only the per-activation violation of that
  property (`peract_grad`);
- the per-activation backward never zeroes `dbias`/`dscale` (648).

The shapes of the runs have groups of 2 and 4 members, so the guard of the
unbiased variance for a group of one (102) is not exercised. Every passing property has a mutant
in PROJECT.json, a plausible bug of the code, that TLC finds.

## 3b. The GPU kernels and the Where, Unfold and NLLLoss drivers

**Components and how they interact.** A driver (`where_driver.hpp`,
`unfold_driver.hpp`) parses the command line into tensor shapes, sizes and
fills host buffers, launches a kernel, and compares the device result with
its own CPU reference. A kernel launch is a grid of threads. They share no
state but the output buffers, and each runs its body to the end.

**`KernelOutput`** is the abstract specification of one output buffer of an
elementwise launch. The launch is one of a constant set `Launches`, and it
fixes the cells and their target values. Every cell starts unwritten and is
written once, with its target value. With `WF` it promises that every cell is eventually written.
The kernel modules instantiate it once per output buffer, with the host
reference as the target, and the runs check the instance as a PROPERTY
(refinement by `INSTANCE ... WITH`; the mapping is the device buffer, with an
element that no thread has stored shown as unwritten).

**`BNInferKernel`** models `MIOpenBatchNormFwdInfer{Spatial,PerAct}HIP.cpp`.
- The launched kernel, spatial or per-activation, is the variable `launch`.
- Each thread `(x, y)` of the launch is a process with a program counter and
  its grid-stride loop index.
- Steps: the loop test, the load of the channel statistics, the store of one
  element, and the advance of the index.
- `writers` records every thread that stored an element. It is a history
  variable used only by `NoRacingStores`.
- Values come from `ExactReal`, so the stored value is compared exactly with
  the host inference of `BatchNormHost`.

**`WhereHost`** holds the host helpers of `where_driver.hpp` as pure
operators:
- `CheckBroadcastedContiguous`;
- `FindMax`;
- the forward reference `HostForward` (`mloWhereForwardRunHost`);
- the two backward references (`mloWhereBackwardRunHost`), as a fold in the
  code's loop order, so that the last write wins as it does in the code.

**`WhereKernel`** models the five kernels of `MIOpenWhere.cpp`. The launch
record gives the kernel, `size`, `condition_size`, `input_size`,
`other_size`, the number of threads, and whether each gradient pointer is
non-null.
- Each thread `gid` is a process. Its steps follow the kernel body:
  - the early return past the limit;
  - for the condition-broadcast kernels, the loops with stride
    `condition_size`, one step per store;
  - for the backward kernels, the skipped stores of null gradient pointers.
- `Write` records the writer of each element and whether a store fell
  outside its buffer (`stray`).

**`WhereDriver`** models the driver's control flow:
- the dims flags, as sequences;
- `GetTensorLengthsFromCmdLine`, including its `{0}` fallback;
- the two `isBroadcastable` checks;
- the output shape (`findMax` per dimension, aligned from the innermost);
- `RunForwardCPU`, then `RunBackwardCPU` when `forw` is 0.

A `% 0` in the CPU reference is undefined behaviour. It is the phase
`fault`. `miopen::isBroadcastable` is outside this repository and is modelled
by the usual aligned-from-the-inside rule (marked `spec_modelled`).

**`UnfoldDriver`** models `GetandSetData`. It computes the output lengths
{N, C·P, L} from the input lengths and the kernel, stride, padding and
dilation lists, in C++ truncating integer division. It also models the buffer
sizes of `AllocateBuffersAndCopy`. Reading past a parameter list, or dividing
by a zero stride, is the phase `fault`.

**`NLLLossDriver`** models `nllloss_driver.hpp` and the solver
`NLLLossForward` that its unreduced forward call reaches.
- `GetandSetData`:
  - an unknown `-R` returns `miopenStatusInvalidValue` (the phase `invalid`);
  - a 1-d `-D` is undefined behaviour (`erase(end())`, `in_len[1]`), which
    is the phase `fault`;
  - otherwise it sets the target lengths (the input without dimension 1), the
    target strides from `GetStrides` with `-c`, the weight length `{C}`, the
    output lengths, and the divisor that encodes the reduction. The divisor
    is the model value `NaN` for `none`, 1 for `sum` and the target count for
    `mean`.
- `AllocateBuffersAndCopy`:
  - for a reduced problem the workspace query may return `(size_t)-1`, which
    is the phase `failed`;
  - otherwise the targets are drawn from `[0, weight_sz - 1]`. The model
    admits every value of that range, which covers whatever `random.hpp` does.
- `RunForwardGPU` records the call and, for the unreduced call on a 4-d input,
  the launch that `GetSolution` and its invoker make:
  - the grid `N_total + 1023`;
  - the workgroup size 1024;
  - the arguments `N_total`, `C`, `D1` and `D2`.
- `Run(side, dir)` covers `RunForwardCPU`, `RunBackwardGPU` and
  `RunBackwardCPU`. Each is one call of the reduced or the unreduced function.

What is left out:
- tensor values other than the targets;
- the verification's tolerance check;
- timing.

The host reference `mloNLLLossHost.hpp`, the kernel `MIOpenNLLLoss.cpp` and
`IsApplicable`'s checks are not in this repository. The model therefore
launches the 4d kernel only for 4-d inputs.

### Runs of the kernels and drivers

The kernel modules take a set of launches as a constant (`Launches`). The
launch is a state variable chosen in `Init` and never changed, so one run
covers one launch of each kernel.

| Run | Instance | Checks | Result |
|---|---|---|---|
| `kernel` | both inference kernels; N=2, C=2, 3 pixels; 2 x-blocks × 2 y-threads | TypeOK, NoRacingStores, StoredValuesMatchHost, ImplementsHostInference, EveryElementStored, KernelTerminates | pass |
| `where_kernel` | one launch of each of the five Where kernels (see `MCLaunches`) | TypeOK, NoRacingStores, ResultMatchesHost, ImplementsHostWhere, KernelTerminates | pass |
| `where_kernel_race` | BcastBwd, input_grad broadcast over half of output_grad | ResultMatchesHost | **violated** |
| `where_driver` | all combinations of small dims flags | TypeOK, ContigSizeMatchesLayout, HostForwardIsWhereOnLeadingBroadcast | pass |
| `where_driver_broadcast` | the same flags | HostForwardIsWhere | **violated** |
| `unfold_driver` | 4-d inputs, fitting windows, strides 1–2, paddings 0–2, dilations 1–2 | TypeOK, OutputShapeCountsWindows | pass |
| `unfold_driver_oversize` | kernel larger than the input | OutputShapeCountsWindows | **violated** |
| `nllloss_driver` | inputs 2x3x1x2, 1x2x3x2, 3x2x2, 2x3, 4; `-R` none, mean, sum and an unknown one; `-c` 0, 1, 2; `-g` -1, 1 | TypeOK, TargetLayoutDense, ClassIndicesInRange, ForwardLaunchMatchesOutput | pass, 41070 states |

The bounds: two or three threads per dimension, and buffers of 4 to 6
elements. At these bounds a loop wraps and strides are at least 2, so two
threads meet at one element whenever the indexing lets them. The surplus
threads of the broadcast forward and contiguous backward launches reach the
early return, and one launch of each backward kernel has a null gradient
pointer. The dims flags include ranks 1 and 2, lengths 0, 1 and 2, and every
pairing of them.

The NLLLoss inputs do the following:
- they put the first and the last target length at different values, so a
  layout for `-c 0` that fails to swap back aliases;
- they make the batch size differ from the class count;
- they exercise every error path of the driver.

What the violations show. `PROJECT.json` has the details and lines.
- **`where_kernel_race`.** The broadcast backward kernel stores into
  `input_grad[gid % input_size]` from every `gid` with a plain store. The
  result depends on which thread runs last, and nothing accumulates the
  broadcast gradient.
- **`where_driver_broadcast`.** The CPU forward reference indexes an operand
  by `o % size`. That is the right element only for broadcasts along leading
  dimensions.
- **`unfold_driver_oversize`.** A kernel larger than the padded input gives a
  negative output length. With stride 2, truncation gives a length of 1 where
  no window fits.

More hazards are stated in PROJECT.json without a run of their own:
- the spatial inference kernel never compares `xidx` with the channel count.
  A grid wider than C reads the statistics past their end and stores into the
  next sample's elements. The code relies on a launcher, which is not in this
  repository, to size the grid to C. The `kernel` run uses exact grids;
- the NLLLoss driver ignores the status of its copies to the device and of
  every library call. Its buffer contents are not modelled;
- the NLLLoss invoker passes only `dims[1..3]` to the 4d kernel, while the
  driver's default input is 5-d;
- a dims flag of zeros becomes the accepted shape {0}, and the reference then
  takes `o % 0` (the `fault` phase of `WhereDriver`);
- input is never checked against condition, so shapes that do not broadcast
  are accepted;
- the Unfold spatial loop indexes the parameter lists by the input's rank
  without checking their sizes (the `fault` phase of `UnfoldDriver`).

## 4. Fairness

- **Host functions and drivers: none.** They are sequential, and a driver may
  stop after any call.
- **Kernel models: weak fairness for each thread** (`WF_vars(Step(g))`).
  Every launched GPU thread runs its body to the end. No thread waits on
  another, because the kernels have no barrier and no lock, so each step stays
  enabled until it is taken. Only `EveryElementStored`, `KernelTerminates`
  and the refinement of `KernelOutput` (which carries `WF`) use fairness.

## 5. Proofs

`ExactRealProofs` proves that every arithmetic operator returns a `Double`:
- rationals stay in lowest-term form with a positive denominator (`NormRat`, `RatOps`);
- 1/sqrt of a positive rational is a valid value (`InvSqrtDouble`).

`BatchNormHostProofs` proves the following:
- **`TypeCorrect`: `Spec => []TypeOK`** for every shape, ε, momentum and input set that the `ASSUME`s allow. `TypeOK` is inductive as it stands. The proof splits on the three groups of actions. Each action writes its buffers through `TrainWrites`, `InferWrites` or `BwdWrites`, so one generic step per group shows that those writes preserve `TypeOK`, given the lemmas `ForwardStepsType` and `BackwardResultType`.

`WhereKernelProofs` proves two results about the Where kernels. Both hold for
every launch of any kernel, size and grid that `LaunchAssumption` allows, and
in every interleaving of the threads.
- **`TypeCorrect`: `Spec => []TypeOK`.** Each thread stays at a point of its
  body and keeps a natural loop counter. Each buffer stays an array of
  integers of its length.
- **`RaceFree`: `Spec => []NoRacingStores`.** This holds under the hypothesis
  that every launch satisfies `GradsCoverGrid`. The hypothesis says that a
  broadcast backward launch gives each gradient it writes at least as many
  elements as there are threads passing the early return, that is
  min(grid, size). The launches of the `where_kernel_race` run fail exactly
  this hypothesis.

Neither invariant is inductive as it stands, so both proofs rest on
`IInv == TypeInv /\ ThreadInv /\ WritesInv`:
- `TypeInv` adds to `TypeOK` that `mem` and `writers` are indexed by `Bufs`.
  The stores are nested `EXCEPT`s, and this is what the provers need to see
  that a store keeps the other buffers as they are.
- `ThreadInv` says what a thread's control state implies:
  - a thread in a loop of a condition-broadcast kernel has g < condition_size
    and `idx[g] = g + k * condition_size` for some k;
  - a thread at `"other"` of a backward gid kernel has g < size.

  `TypeOK` needs the second clause, because `BwdOther` stores
  `output_grad[gid]`.
- `WritesInv` says there has been no stray store, and every writer of element
  i is its `Owner`. The owner is i % condition_size in the
  condition-broadcast kernels and i in the others.

The argument for each store:
- a loop store goes to g + k·cs, whose residue is g (`ResidueOfStride`);
- a gid store goes to gid, because gid % input_size = gid when gid is below
  both the grid and input_size (`ModSmall`, `GradsCoverGrid`).

`OneWriter` turns `writers ⊆ {Owner}` into `Cardinality <= 1`. TLC checked
`IInv` first, as an invariant over all 6288 launches of sizes 1..3 and grids
0..4 that satisfy the hypothesis, with k bounded.

`BNInferKernelProofs` proves two results about the batch-norm inference
kernels (`BNInferKernel`), for every tensor shape and every grid, in every
interleaving of the threads.
- **`TypeCorrect`: `Spec => []TypeOK`.** This holds for any launch geometry.
- **`RaceFree`: `Spec => []NoRacingStores`.** This holds under the
  hypothesis `GridFitsTensor`, which is what the launcher (not in the
  repository) must provide:
  - batchStride = C·imageDims;
  - the spatial kernel has at most C x-threads;
  - the per-activation kernel has one thread per x-block and at most C
    x-blocks.

  On the same small tensors, TLC finds a race for a per-activation launch
  with blockDim.x = 2. That is why the hypothesis has BlockX = 1.

The inductive invariant is `IInv == TypeOK /\ ThreadInv /\ WritesInv`:
- `ThreadInv` says that a thread's counter is yidx + k·ystride, and that it
  is below imageDims inside the batch loop and before a per-activation load.
- `WritesInv` says there has been no stray store, and every writer of an
  element `Covers` it, that is, visits it on its loops.

The element a thread stores is b·(C·D) + (chan·D + y), with chan·D + y <
C·D and y = yidx + k·ystride, where yidx < ystride. Read as mixed-radix
digits (`DigitsUnique`), it determines the batch, the channel, the position
and yidx. Together these name the thread (`CoversUnique`).

`BNInferRefinementProofs` proves two more results about these kernels:
- **`Refinement`: `Spec => ImplementsHostInference`**, the safety part of the
  refinement to `KernelOutput`, under `GridFitsTensor`.
- **`ValuesMatchHost`: `Spec => []StoredValuesMatchHost`**, under
  `GridFitsTensor` and `VarianceNonNegative` (the running variances are
  non-negative rationals).

The invariant `RefInv` adds three parts to `IInv`:
- `VisitInv`: every writer stored the element at a (position, batch) point
  it has already passed.
- `OutInv`: an element with no writer is unwritten, and a written one holds
  the host's operands `HostOperands(launch)[e]`.
- `PrmInv`: a thread in its batch loop (or a spatial thread past its loads)
  holds the statistics of its cell.

From these, `FreshStore` shows that a store goes to an element nobody has
stored: no other thread covers it, and the same thread would have to have
passed its current point. `StoreTarget` shows that a store writes the
host's operands. It rests on `HostGroup`, which says that the host's
`GroupOf` of b·C·D + c·D + y is c spatially and c·D + y per activation.
`HostArith` shows, layer by layer, that the host's instance of `ExactReal`
is the kernels' arithmetic. `FAbsAddEps` shows that fabs leaves
variance + ε alone for a non-negative rational variance.

The variance hypothesis is needed. With a running variance of −1 and
ε = 1/4, TLC finds `StoredValuesMatchHost` violated: the kernels'
rsqrt(fabs(·)) is finite where the host's 1/sqrt is not (see the hazard at
`MIOpenBatchNormFwdInferSpatialHIP.cpp:67`). The kernel run's inputs satisfy
both hypotheses.

`WhereRefinementProofs` proves two more results about the Where kernels (the second, `ForwardResult`, is further below):
- **`ForwardRefinement`: `Spec => PromiseOutput!SafetySpec`.** Seen through
  `Shown("output")`, the output buffer starts unwritten. Every step of
  every thread either leaves it alone or is a `KernelOutput` `Store(j)`: it
  writes the host's forward result into an element j that no thread has
  stored yet. This holds for every launch that `LaunchAssumption` allows,
  with no `GradsCoverGrid` hypothesis, because the backward kernels never
  touch output.

The invariant is `RefInvW == TypeInv /\ ThreadInv /\ FwdInv`, where
`FwdInv` has three parts:
- `CndInv`: a thread in the forward loop holds its condition bit.
- `OutWriters`: every writer of output element i is its owner and has
  passed i. It is either done, or loops with `idx > i`.
- `OutValues`: a written element holds `HostResultOf(launch, "output")[i]`.

`Progress` shows that a thread never moves back past an element.
`OutputStore` shows that a store into output is the owner's store of the
host value at its own counter. Together they give freshness: the owner
has not passed j yet, so j has no writer. TLC checked `FwdInv` first, on
the launches of both kernel runs.

- **`ForwardResult`: `Spec => [](IsForward => ResultMatchesHost)`**, under
  `ForwardGridCovers`. This is the forward half of `ResultMatchesHost`:
  once every thread of a forward launch is done, output equals
  `mloWhereForwardRunHost`'s result. The hypothesis says that the grid gives
  every output element's owner a thread:
  - at least `size` threads for the broadcast kernel;
  - at least `condition_size` threads for the condition-broadcast loop.

  The run's launches satisfy it. Before the proof, TLC checked the
  invariant and the statement over all forward launches with sizes up to 4
  and grids up to 5 that satisfy the hypothesis. Over all such launches,
  TLC finds the statement violated (a grid of 0 threads leaves output at
  its initial zeros), so the hypothesis is needed.

The proof adds `CovInv` to `RefInvW`:
- `FwdPcs`: a forward launch's threads stay at the points of their own
  body.
- `OutCovered`: an output element whose owner has passed it (`Passed`) has
  been stored.

When a loop thread's counter moves past j, `SameResidue` shows that j is
the element it stores, because the counter is g + k·condition_size and j ≡ g.
`AllStored` turns `Done` and the hypothesis into "every element stored",
and `OutValues` gives each element's value.

The gradient promises (`PromiseInputGrad`, `PromiseOtherGrad`) and the
backward half of `ResultMatchesHost` are not proved. The host's backward
result is a recursive-function loop over the condition (`WhereHost`).
Relating it to the kernels' stores needs induction over that loop, so they
stay with TLC.

The fold `Accumulate` is a recursive function, and the provers cannot unfold
it. Its result is therefore passed through `AsDouble`, the identity on
`Double`, which lets the type proof treat a fold as a double without
induction. TLC evaluates the fold exactly.

Only TLC checks the numerical identities (`ForwardOutputNormalized`,
`BackwardPathsAgree`, `GradientSumsToZero`, `ParamGradientsAreGroupSums`).
They are statements about what a fold computes, and induction over data is out of the provers' reach.

`NLLLossDriverProofs` proves two of the NLLLoss driver's run properties
for every `-D` shape, reduction, `-c` and `-g` that `FlagsAssumption`
allows:
- **`ClassesInRange`: `Spec => []ClassIndicesInRange`.** Every class target
  drawn in `AllocateBuffersAndCopy` indexes both the input's class
  dimension and the weight buffer.
- **`LaunchMatchesOutput`: `Spec => []ForwardLaunchMatchesOutput`.** A
  recorded unreduced forward launch covers its output:
  - global >= N_total;
  - N_total is the target element count and N·D1·D2;
  - C is the weight count.

The inductive invariant `NInv` has three parts:
- `ShapesSet`: once `GetandSetData` has succeeded, the shapes, output and
  divisor are the ones it derived from `in_len`.
- `TargetsDrawn`: the targets lie in `0 .. weight_sz - 1`.
- `LaunchRecorded`: a launch exists only after allocation, for a NaN
  divisor and a 4-d input, and it is `ForwardLaunch(in_len, out_len)`.

TLC checked `NInv` first, on the run's flags plus a 4-d input with one
class. `LaunchRecorded` is needed because `ForwardLaunchMatchesOutput`
speaks of a launch made three steps after the shapes were set.

`Product` is a recursive function. These proofs use it only at the two
lengths the driver gives it here: `weight_len = {C}` and, for a 4-d input,
`target_len = {N, D1, D2}`. `ProductOne` and `ProductThree` unfold the
`CHOOSE` that defines it: an explicit solution of the defining equation
shows that one exists, and every solution has the stated value at the
end. This is not induction, so it says nothing about `Product` at
arbitrary lengths. Why a reduced problem never records the launch:
- for `mean`, the divisor is the three-factor product, an integer;
- for `sum`, the divisor is 1;
- so neither divisor is NaN.

What is model-checked only:
- the Where gradient promises and the backward half of `ResultMatchesHost`;
- the kernel properties that no theorem above states;
- the driver properties of `WhereDriver` and `UnfoldDriver`, and
  `TypeOK` and `TargetLayoutDense` of `NLLLossDriver`. They are about
  `SuffixProduct`, `SeqProduct`, `Product` or `SelectSeq` at arbitrary
  lengths, which needs induction over the recursive function;
- liveness (`KernelTerminates`, `EveryElementStored`, the `WF` part of the
  refinement);
- everything about what a fold or a recursive function computes.

## 6. Plan for the next sittings

1. The remaining driver invariants are about products and selections over
   shapes of any length. A proof needs either induction over these
   recursive functions, which the installed provers lack, or a
   restatement that is not recursive and is still faithful to the code.
2. Compose the Where driver with the Where kernels, so that the kernels run
   on the shapes the driver accepts.
