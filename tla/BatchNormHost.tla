---------------------------- MODULE BatchNormHost ----------------------------
(***************************************************************************)
(* The batch-normalisation host reference of the MIOpen driver            *)
(* (src/driver/miopen_BatchNormHost.hpp): forward training, forward       *)
(* inference and backward, each in its per-activation and its spatial    *)
(* form.  Each host function is one atomic action of the model: the      *)
(* driver calls them one at a time on one thread.                         *)
(*                                                                         *)
(* The buffers the functions read and write (out, dx, dscale, dbias and  *)
(* the saved and running statistics) are the variables; the arguments   *)
(* the caller chooses (the input tensor, scale and bias, dy and the       *)
(* boolean switches) are drawn from small sets.  Doubles are the exact    *)
(* reals of module ExactReal.  A reduction group is one activation        *)
(* (per-activation mode: the N samples of one c,h,w position) or one      *)
(* channel (spatial mode: the N*H*W values of one c).  The fold over a   *)
(* group visits its members in the loop order of the code.               *)
(***************************************************************************)
EXTENDS Integers, Sequences, ExactReal

CONSTANTS
  N, C, H, W,        \* n_batchs, channels, height, width
  Mode,              \* "PerActivation" or "Spatial": which host functions run
  Epsilon,           \* epsilon
  ExpAvgFactor,      \* expAvgFactor, the momentum of the running statistics
  XSet,              \* input tensors in_ptr / x_ptr the caller may pass
  DySet,             \* gradients dy_ptr the caller may pass
  ParamSet,          \* records [scale, bias] of scale_ptr and bias_ptr
  ReuseGradBuffers,  \* may the caller pass dscale/dbias buffers that still
                     \* hold the results of an earlier backward call?
  MaxCalls           \* bound on the number of host calls of a behaviour

InNStride == C * H * W      \* in_nstride
InCStride == H * W          \* in_cstride
Elems     == 0 .. N * InNStride - 1
IsPerAct  == Mode = "PerActivation"

\* The indices of the statistics buffers: adjIndex or cidx
Groups == IF IsPerAct THEN 0 .. InNStride - 1 ELSE 0 .. C - 1
\* The size of a group: n_batchs, or NHW
M == IF IsPerAct THEN N ELSE N * InCStride

ASSUME ShapeAssumption == {N, C, H, W} \subseteq Nat \ {0}
ASSUME ModeAssumption == Mode \in {"PerActivation", "Spatial"}
ASSUME EpsilonAssumption == RPos(Epsilon)
ASSUME FactorAssumption == IsRational(ExpAvgFactor)
ASSUME InputAssumption ==
  /\ XSet # {} /\ XSet \subseteq [Elems -> Val]
  /\ DySet # {} /\ DySet \subseteq [Elems -> Val]
  /\ ParamSet # {} /\ ParamSet \subseteq [scale : [Groups -> Val], bias : [Groups -> Val]]
ASSUME ReuseAssumption == ReuseGradBuffers \in BOOLEAN
ASSUME MaxCallsAssumption == MaxCalls \in Nat

(***************************************************************************)
(* Indexing.  Members(g) lists the linear indices of group g in the order *)
(* the loops visit them: per activation, bidx; spatially, row, column and *)
(* then bidx innermost.                                                   *)
(***************************************************************************)
Members(g) ==
  IF IsPerAct
    THEN [k \in 1 .. N |-> InNStride * (k - 1) + g]
    ELSE [k \in 1 .. M |-> InNStride * ((k - 1) % N) + InCStride * g + (k - 1) \div N]

GroupOf(i) == IF IsPerAct THEN i % InNStride ELSE (i % InNStride) \div InCStride

\* acc += f[index] over the members s of a group, starting from init.
\* Every step is an Add, so the result is a Double; AsDouble states it
\* (it is the identity on Double) for the proofs, which cannot unfold
\* the recursive function acc.
Accumulate(init, f, s) ==
  LET acc[k \in 0 .. Len(s)] == IF k = 0 THEN init ELSE Add(acc[k - 1], f[s[k]])
  IN  AsDouble(acc[Len(s)])

ZeroStats == [g \in Groups |-> Zero]

(***************************************************************************)
(* The steps of a forward pass, shared by training and inference.         *)
(***************************************************************************)
\* mean_accum += in_ptr[index]; mean_accum /= n
BatchMean(in) == [g \in Groups |-> Div(Accumulate(Zero, in, Members(g)), FromNat(M))]

\* elemStd = in_ptr[index] - mean_accum
Centered(in, mean) == [i \in Elems |-> Sub(in[i], mean[GroupOf(i)])]

\* Faulty variant: the unbiased divisor n - 1 in place of n.
BatchVarianceUnbiased(elemStd) ==
  [g \in Groups |-> Div(Accumulate(Zero, [i \in Elems |-> Sq(elemStd[i])], Members(g)),
                        FromNat(M - 1))]

\* variance_accum += elemStd*elemStd; variance_accum /= n
BatchVariance(elemStd) ==
  [g \in Groups |-> Div(Accumulate(Zero, [i \in Elems |-> Sq(elemStd[i])], Members(g)),
                        FromNat(M))]

\* Faulty variant: sqrt(variance - epsilon), as the comment at line 112 writes it.
InvStdMinusEps(var) == [g \in Groups |-> InvSqrt(Sub(var[g], Epsilon))]

\* 1.0/sqrt(variance + epsilon)
InvStd(var) == [g \in Groups |-> InvSqrt(Add(var[g], Epsilon))]

\* out_ptr[index] = scale*(elemStd*invVar) + bias
Normalized(elemStd, invVar, p) ==
  [i \in Elems |-> Add(Mul(p.scale[GroupOf(i)], Mul(elemStd[i], invVar[GroupOf(i)])),
                       p.bias[GroupOf(i)])]

\* runningMean = mean*expAvgFactor + runningMean*(1 - expAvgFactor)
RunningMeanUpdate(rm, mean) ==
  [g \in Groups |-> Add(Mul(mean[g], ExpAvgFactor), Mul(rm[g], Sub(One, ExpAvgFactor)))]

\* the unbiased variance: n/(n-1)*var, or var itself for a group of one
BesselAdjust(v) == IF M = 1 THEN v ELSE Mul(Div(FromNat(M), FromNat(M - 1)), v)

\* runningVariance = expAvgFactor*runningVariance + (1 - expAvgFactor)*adjust
RunningVarianceUpdate(rv, var) ==
  [g \in Groups |-> Add(Mul(ExpAvgFactor, rv[g]),
                        Mul(Sub(One, ExpAvgFactor), BesselAdjust(var[g])))]

(***************************************************************************)
(* The steps of a backward pass.  Each returns the buffers dx, dscale and *)
(* dbias; dscale0 and dbias0 are the contents of dscale_ptr and dbias_ptr *)
(* when the loops start adding to them.                                    *)
(***************************************************************************)
\* tmp1 = xhat*dxhathat + dxhat; tmp2 = n*dxhat - tmp1; dx = invVar/n * tmp2
PerActivationDx(xh, dxhat, dxhathat, iv) ==
  Mul(Div(iv, FromNat(N)), Sub(Mul(FromNat(N), dxhat), Add(Mul(xh, dxhathat), dxhat)))

\* Faulty variant: the division of dscale by n_batchs left out.
BwdPerActivationResultRawDscale(xin, p, mean, invVar, dyIn, dscale0, dbias0) ==
  LET G(i)     == GroupOf(i)
      xhat     == [i \in Elems |-> Mul(Sub(xin[i], mean[G(i)]), invVar[G(i)])]
      sdy      == [i \in Elems |-> Mul(p.scale[G(i)], dyIn[i])]
      dxhat    == [g \in Groups |-> Accumulate(Zero, sdy, Members(g))]
      dxhathat == [g \in Groups |->
                     Accumulate(Zero, [i \in Elems |-> Mul(sdy[i], xhat[i])], Members(g))]
  IN  [dbias  |-> [g \in Groups |-> Accumulate(dbias0[g], dyIn, Members(g))],
       dscale |-> [g \in Groups |->
                     Accumulate(dscale0[g], [i \in Elems |-> Mul(xhat[i], dyIn[i])],
                                Members(g))],
       dx     |-> [i \in Elems |-> PerActivationDx(xhat[i], dxhat[G(i)], dxhathat[G(i)],
                                                   invVar[G(i)])]]

BwdPerActivationResult(xin, p, mean, invVar, dyIn, dscale0, dbias0) ==
  LET G(i)     == GroupOf(i)
      xhat     == [i \in Elems |-> Mul(Sub(xin[i], mean[G(i)]), invVar[G(i)])]
      sdy      == [i \in Elems |-> Mul(p.scale[G(i)], dyIn[i])]
      dxhat    == [g \in Groups |-> Accumulate(Zero, sdy, Members(g))]
      dxhathat == [g \in Groups |->
                     Accumulate(Zero, [i \in Elems |-> Mul(sdy[i], xhat[i])], Members(g))]
  IN  [dbias  |-> [g \in Groups |-> Accumulate(dbias0[g], dyIn, Members(g))],
       dscale |-> [g \in Groups |->
                     Div(Accumulate(dscale0[g], [i \in Elems |-> Mul(xhat[i], dyIn[i])],
                                    Members(g)), FromNat(N))],
       dx     |-> [i \in Elems |-> PerActivationDx(xhat[i], dxhat[G(i)], dxhathat[G(i)],
                                                   invVar[G(i)])]]

\* Faulty variant: tmp1 = dy - dbias, the factor NHW forgotten.
SpatialDxUnscaledDy(xh, dyi, dbiasG, dscaleG, sc, iv) ==
  Mul(Div(Mul(sc, iv), FromNat(M)), Add(Mul(Neg(xh), dscaleG), Sub(dyi, dbiasG)))

\* tmp1 = NHW*dy - dbias; tmp2 = -xhat*dscale; tmp3 = scale*invVar/NHW
SpatialDx(xh, dyi, dbiasG, dscaleG, sc, iv) ==
  Mul(Div(Mul(sc, iv), FromNat(M)),
      Add(Mul(Neg(xh), dscaleG), Sub(Mul(FromNat(M), dyi), dbiasG)))

\* Faulty variant: dscale divided by n_batchs, the per-activation count.
BwdSpatialResultDscaleOverN(xin, p, mean, invVar, dyIn, dscale0, dbias0) ==
  LET G(i)   == GroupOf(i)
      xhat   == [i \in Elems |-> Mul(Sub(xin[i], mean[G(i)]), invVar[G(i)])]
      dbiasN == [g \in Groups |-> Accumulate(dbias0[g], dyIn, Members(g))]
      dscaleN == [g \in Groups |->
                    Div(Accumulate(dscale0[g], [i \in Elems |-> Mul(xhat[i], dyIn[i])],
                                   Members(g)), FromNat(N))]
  IN  [dbias  |-> dbiasN,
       dscale |-> dscaleN,
       dx     |-> [i \in Elems |-> SpatialDx(xhat[i], dyIn[i], dbiasN[G(i)], dscaleN[G(i)],
                                             p.scale[G(i)], invVar[G(i)])]]

BwdSpatialResult(xin, p, mean, invVar, dyIn, dscale0, dbias0) ==
  LET G(i)   == GroupOf(i)
      xhat   == [i \in Elems |-> Mul(Sub(xin[i], mean[G(i)]), invVar[G(i)])]
      dbiasN == [g \in Groups |-> Accumulate(dbias0[g], dyIn, Members(g))]
      dscaleN == [g \in Groups |->
                    Div(Accumulate(dscale0[g], [i \in Elems |-> Mul(xhat[i], dyIn[i])],
                                   Members(g)), FromNat(M))]
  IN  [dbias  |-> dbiasN,
       dscale |-> dscaleN,
       dx     |-> [i \in Elems |-> SpatialDx(xhat[i], dyIn[i], dbiasN[G(i)], dscaleN[G(i)],
                                             p.scale[G(i)], invVar[G(i)])]]

(***************************************************************************)
(* State.  x, param and dy are the inputs of the latest calls (the        *)
(* backward call reads the x and scale of the forward pass it belongs to);*)
(* statsValid records whether saveMean/saveInvVariance were computed from *)
(* the current x, and lastCall what the latest call was.                   *)
(***************************************************************************)
VARIABLES x, param, dy, out, dx, dscale, dbias,
          saveMean, saveInvVariance, runningMean, runningVariance,
          statsValid, lastCall, calls

vars == <<x, param, dy, out, dx, dscale, dbias, saveMean, saveInvVariance,
          runningMean, runningVariance, statsValid, lastCall, calls>>

Calls == [op : {"none", "fwdTrain", "fwdInfer", "bwd"}, flag : BOOLEAN, fresh : BOOLEAN]

\* The buffers are zero-initialised, as the driver allocates them.
Init ==
  /\ x \in XSet
  /\ param \in ParamSet
  /\ dy \in DySet
  /\ out = [i \in Elems |-> Zero]
  /\ dx = [i \in Elems |-> Zero]
  /\ dscale = ZeroStats /\ dbias = ZeroStats
  /\ saveMean = ZeroStats /\ saveInvVariance = ZeroStats
  /\ runningMean = ZeroStats /\ runningVariance = ZeroStats
  /\ statsValid = FALSE
  /\ lastCall = [op |-> "none", flag |-> FALSE, fresh |-> TRUE]
  /\ calls = 0

\* Forward training of one layer input: the body shared by both modes,
\* given the normalised output the mode computes and the value stored
\* in saveMean.
TrainWrites(in, p, savemeanvar, runningmeanvar, mean, var, newOut, stored) ==
  /\ out' = newOut
  /\ saveMean' = IF savemeanvar THEN stored ELSE saveMean
  /\ saveInvVariance' = IF savemeanvar THEN InvStd(var) ELSE saveInvVariance
  /\ runningMean' = IF runningmeanvar THEN RunningMeanUpdate(runningMean, mean)
                                      ELSE runningMean
  /\ runningVariance' = IF runningmeanvar THEN RunningVarianceUpdate(runningVariance, var)
                                          ELSE runningVariance
  /\ statsValid' = IF savemeanvar THEN TRUE ELSE statsValid /\ in = x
  /\ x' = in /\ param' = p
  /\ lastCall' = [op |-> "fwdTrain", flag |-> savemeanvar, fresh |-> TRUE]
  /\ calls' = calls + 1
  /\ UNCHANGED <<dy, dx, dscale, dbias>>

\* Faulty variants of the training functions: statistics stored at the
\* wrong index, the mean stored before the division by n,
\* and the normalisation pass reading in_ptr instead of the scratchpad.
FwdTrainPerActivationIndexStats(in, p, savemeanvar, runningmeanvar) ==
  LET mean == BatchMean(in)
      var  == BatchVariance(Centered(in, mean))
  IN  /\ IsPerAct /\ calls < MaxCalls
      /\ TrainWrites(in, p, savemeanvar, runningmeanvar, mean, var,
                     Normalized(Centered(in, mean), InvStd(var), p),
                     [i \in Elems |-> mean[GroupOf(i)]])

FwdTrainPerActivationSaveBeforeDiv(in, p, savemeanvar, runningmeanvar) ==
  LET mean == BatchMean(in)
      var  == BatchVariance(Centered(in, mean))
  IN  /\ IsPerAct /\ calls < MaxCalls
      /\ TrainWrites(in, p, savemeanvar, runningmeanvar, mean, var,
                     Normalized(Centered(in, mean), InvStd(var), p),
                     [g \in Groups |-> Mul(mean[g], FromNat(M))])

FwdTrainSpatialAdjIndexStats(in, p, savemeanvar, runningmeanvar) ==
  LET mean    == BatchMean(in)
      scratch == Centered(in, mean)
      var     == BatchVariance(scratch)
  IN  /\ ~IsPerAct /\ calls < MaxCalls
      /\ TrainWrites(in, p, savemeanvar, runningmeanvar, mean, var,
                     Normalized(scratch, InvStd(var), p),
                     [a \in 0 .. InNStride - 1 |-> mean[a \div InCStride]])

FwdTrainSpatialSaveBeforeDiv(in, p, savemeanvar, runningmeanvar) ==
  LET mean    == BatchMean(in)
      scratch == Centered(in, mean)
      var     == BatchVariance(scratch)
  IN  /\ ~IsPerAct /\ calls < MaxCalls
      /\ TrainWrites(in, p, savemeanvar, runningmeanvar, mean, var,
                     Normalized(scratch, InvStd(var), p),
                     [g \in Groups |-> Mul(mean[g], FromNat(M))])

FwdTrainSpatialReadsInput(in, p, savemeanvar, runningmeanvar) ==
  LET mean    == BatchMean(in)
      var     == BatchVariance(Centered(in, mean))
  IN  /\ ~IsPerAct /\ calls < MaxCalls
      /\ TrainWrites(in, p, savemeanvar, runningmeanvar, mean, var,
                     Normalized(in, InvStd(var), p), mean)

\* miopenBNFwdTrainPerActivationRunHost
FwdTrainPerActivation(in, p, savemeanvar, runningmeanvar) ==
  LET mean == BatchMean(in)
      var  == BatchVariance(Centered(in, mean))
  IN  /\ IsPerAct /\ calls < MaxCalls
      /\ TrainWrites(in, p, savemeanvar, runningmeanvar, mean, var,
                     Normalized(Centered(in, mean), InvStd(var), p), mean)

\* miopenBNFwdTrainSpatialRunHost: the variance pass stores x - mean in
\* out_ptr, and the normalisation pass reads it back from there.
FwdTrainSpatial(in, p, savemeanvar, runningmeanvar) ==
  LET mean    == BatchMean(in)
      scratch == Centered(in, mean)
      var     == BatchVariance(scratch)
  IN  /\ ~IsPerAct /\ calls < MaxCalls
      /\ TrainWrites(in, p, savemeanvar, runningmeanvar, mean, var,
                     Normalized(scratch, InvStd(var), p), mean)

\* Forward inference: with estmeanvar the estimated statistics passed in
\* (the running statistics) are used, otherwise the batch statistics are
\* recomputed and not stored.
InferWrites(in, p, estmeanvar, newOut) ==
  /\ out' = newOut
  /\ statsValid' = (statsValid /\ in = x)
  /\ x' = in /\ param' = p
  /\ lastCall' = [op |-> "fwdInfer", flag |-> estmeanvar, fresh |-> TRUE]
  /\ calls' = calls + 1
  /\ UNCHANGED <<dy, dx, dscale, dbias, saveMean, saveInvVariance,
                 runningMean, runningVariance>>

\* miopenBNFwdInferPerActivationRunHost
FwdInferPerActivation(in, p, estmeanvar) ==
  LET mean == IF estmeanvar THEN runningMean ELSE BatchMean(in)
      iv   == IF estmeanvar THEN InvStd(runningVariance)
                            ELSE InvStd(BatchVariance(Centered(in, mean)))
  IN  /\ IsPerAct /\ calls < MaxCalls
      /\ InferWrites(in, p, estmeanvar, Normalized(Centered(in, mean), iv, p))

\* Faulty variant: the estimated-statistics branch computes
\* 1.0/sqrt(variance), without epsilon.
FwdInferSpatialEstNoEps(in, p, estmeanvar) ==
  LET mean    == IF estmeanvar THEN runningMean ELSE BatchMean(in)
      scratch == Centered(in, mean)
      iv      == IF estmeanvar THEN [g \in Groups |-> InvSqrt(runningVariance[g])]
                               ELSE InvStd(BatchVariance(scratch))
  IN  /\ ~IsPerAct /\ calls < MaxCalls
      /\ InferWrites(in, p, estmeanvar, Normalized(scratch, iv, p))

\* miopenBNFwdInferSpatialRunHost: the recomputing branch uses out_ptr as
\* scratchpad like the training function.
FwdInferSpatial(in, p, estmeanvar) ==
  LET mean    == IF estmeanvar THEN runningMean ELSE BatchMean(in)
      scratch == Centered(in, mean)
      iv      == IF estmeanvar THEN InvStd(runningVariance) ELSE InvStd(BatchVariance(scratch))
  IN  /\ ~IsPerAct /\ calls < MaxCalls
      /\ InferWrites(in, p, estmeanvar, Normalized(scratch, iv, p))

\* Which dscale/dbias buffers the caller hands to a backward call.
FreshChoices == IF ReuseGradBuffers THEN BOOLEAN ELSE {TRUE}

BwdWrites(savedmeanvar, fresh, dyIn, r) ==
  /\ dx' = r.dx /\ dscale' = r.dscale /\ dbias' = r.dbias
  /\ dy' = dyIn
  /\ lastCall' = [op |-> "bwd", flag |-> savedmeanvar, fresh |-> fresh]
  /\ calls' = calls + 1
  /\ UNCHANGED <<x, param, out, saveMean, saveInvVariance, runningMean,
                 runningVariance, statsValid>>

\* The statistics a backward call recomputes when savedmeanvar is false.
RecomputedMean == BatchMean(x)
RecomputedInvVar == InvStd(BatchVariance(Centered(x, BatchMean(x))))

\* miopenBNBwdPerActivationRunHost: both branches add to the dscale and
\* dbias buffers they are given.
BwdPerActivation(dyIn, savedmeanvar, fresh) ==
  LET d0 == IF fresh THEN ZeroStats ELSE dscale
      b0 == IF fresh THEN ZeroStats ELSE dbias
      mean == IF savedmeanvar THEN saveMean ELSE RecomputedMean
      iv   == IF savedmeanvar THEN saveInvVariance ELSE RecomputedInvVar
  IN  /\ IsPerAct /\ calls < MaxCalls
      /\ BwdWrites(savedmeanvar, fresh, dyIn,
                   BwdPerActivationResult(x, param, mean, iv, dyIn, d0, b0))

\* miopenBNBwdSpatialRunHost: the saved-statistics branch adds to the
\* buffers it is given, the recomputing branch zeroes them first.
BwdSpatial(dyIn, savedmeanvar, fresh) ==
  LET d0 == IF fresh \/ ~savedmeanvar THEN ZeroStats ELSE dscale
      b0 == IF fresh \/ ~savedmeanvar THEN ZeroStats ELSE dbias
      mean == IF savedmeanvar THEN saveMean ELSE RecomputedMean
      iv   == IF savedmeanvar THEN saveInvVariance ELSE RecomputedInvVar
  IN  /\ ~IsPerAct /\ calls < MaxCalls
      /\ BwdWrites(savedmeanvar, fresh, dyIn,
                   BwdSpatialResult(x, param, mean, iv, dyIn, d0, b0))

Next ==
  \/ \E in \in XSet, p \in ParamSet, s, r \in BOOLEAN :
        \/ FwdTrainPerActivation(in, p, s, r)
        \/ FwdTrainSpatial(in, p, s, r)
  \/ \E in \in XSet, p \in ParamSet, e \in BOOLEAN :
        \/ FwdInferPerActivation(in, p, e)
        \/ FwdInferSpatial(in, p, e)
  \/ \E d \in DySet, s \in BOOLEAN, f \in FreshChoices :
        \/ BwdPerActivation(d, s, f)
        \/ BwdSpatial(d, s, f)

Spec == Init /\ [][Next]_vars

(***************************************************************************)
(* Reference definitions the properties compare the code with.  They are *)
(* written from the mathematics, not from the code: the variance is      *)
(* E[x^2] - E[x]^2 in one pass, where the code makes two passes.          *)
(***************************************************************************)
GroupSum(f, g) == Accumulate(Zero, f, Members(g))
RefMean(in, g) == Div(GroupSum(in, g), FromNat(M))
RefVariance(in, g) ==
  Sub(Div(GroupSum([i \in Elems |-> Sq(in[i])], g), FromNat(M)), Sq(RefMean(in, g)))
RefInvStd(in, g) == InvSqrt(Add(RefVariance(in, g), Epsilon))

\* The normalised input of group g: (x_i - mean) / sqrt(var + eps).
RefXhat(g) == [j \in Elems |-> Mul(Sub(x[j], RefMean(x, g)), RefInvStd(x, g))]

\* d(loss)/dx_i of y = scale * (x - mean) / sqrt(var + eps) + bias:
\* scale*s/M * (M*dy_i - sum dy - xhat_i * sum(dy*xhat)),  s = 1/sqrt(var+eps)
ExactDx(i) ==
  LET g  == GroupOf(i)
      s  == RefInvStd(x, g)
      xh == RefXhat(g)
  IN  Mul(Div(Mul(param.scale[g], s), FromNat(M)),
          Sub(Sub(Mul(FromNat(M), dy[i]), GroupSum(dy, g)),
              Mul(xh[i], GroupSum([j \in Elems |-> Mul(xh[j], dy[j])], g))))

\* The latest call was a backward call whose mean and inverse deviation
\* are those of the current x: recomputed, or saved by a training call
\* on this very x.
BackwardOnCurrentStats ==
  lastCall.op = "bwd" /\ (statsValid \/ ~lastCall.flag)

(***************************************************************************)
(* Properties.                                                            *)
(***************************************************************************)
\* Every buffer of the host functions holds a double of the right shape.
TypeOK ==
  /\ x \in XSet /\ param \in ParamSet /\ dy \in DySet
  /\ out \in [Elems -> Double] /\ dx \in [Elems -> Double]
  /\ dscale \in [Groups -> Double] /\ dbias \in [Groups -> Double]
  /\ saveMean \in [Groups -> Double] /\ saveInvVariance \in [Groups -> Double]
  /\ runningMean \in [Groups -> Double] /\ runningVariance \in [Groups -> Double]
  /\ statsValid \in BOOLEAN
  /\ lastCall \in Calls
  /\ calls \in 0 .. MaxCalls

\* No host function ever produces inf or NaN, in any buffer, whatever the
\* sequence of calls: the epsilon added under the square root keeps
\* 1/sqrt(variance + epsilon) finite even for a constant input, and the
\* n == 1 guard of the unbiased running variance avoids dividing by n - 1.
ResultsFinite ==
  \A i \in Elems : out[i] \in Val /\ dx[i] \in Val
  /\ \A g \in Groups :
       /\ dscale[g] \in Val /\ dbias[g] \in Val
       /\ saveMean[g] \in Val /\ saveInvVariance[g] \in Val
       /\ runningMean[g] \in Val /\ runningVariance[g] \in Val

\* After a forward call on batch statistics (training, or inference without
\* estimated statistics), every group of out - bias has zero sum and
\* mean square scale^2 * v / (v + eps), v the variance of the group of x:
\* the normalisation identity, including the spatial functions' use of
\* out_ptr as the scratchpad that holds x - mean.
ForwardOutputNormalized ==
  (lastCall.op = "fwdTrain" \/ (lastCall.op = "fwdInfer" /\ ~lastCall.flag)) =>
    \A g \in Groups :
      LET y == [i \in Elems |-> Sub(out[i], param.bias[g])]
          v == RefVariance(x, g)
      IN  /\ GroupSum(y, g) = Zero
          /\ Mul(GroupSum([i \in Elems |-> Sq(y[i])], g), Add(v, Epsilon))
               = Mul(Mul(Sq(param.scale[g]), FromNat(M)), v)

\* A backward call that reads the statistics a training call saved for the
\* same x produces exactly the dx, dscale and dbias of the branch that
\* recomputes them: what the forward pass saves is what backward needs.
BackwardPathsAgree ==
  (lastCall.op = "bwd" /\ lastCall.flag /\ lastCall.fresh /\ statsValid) =>
    LET r == IF IsPerAct
               THEN BwdPerActivationResult(x, param, RecomputedMean, RecomputedInvVar,
                                           dy, ZeroStats, ZeroStats)
               ELSE BwdSpatialResult(x, param, RecomputedMean, RecomputedInvVar,
                                     dy, ZeroStats, ZeroStats)
    IN  dx = r.dx /\ dscale = r.dscale /\ dbias = r.dbias

\* The input gradient of a backward call on the current statistics sums
\* to zero over every group: normalisation removes the mean, so adding a
\* constant to a group of x cannot change the loss.
GradientSumsToZero ==
  BackwardOnCurrentStats => \A g \in Groups : GroupSum(dx, g) = Zero

\* The input gradient of a backward call on the current statistics, given
\* zeroed dscale/dbias buffers, is the derivative of the forward function.
GradientMatchesDerivative ==
  (BackwardOnCurrentStats /\ lastCall.fresh) => \A i \in Elems : dx[i] = ExactDx(i)

\* A backward call on the current statistics, given zeroed buffers,
\* reports dbias[g] = sum dy and dscale[g] = sum(xhat * dy) / M in both
\* modes, xhat taken from the mean and variance of the current x: one
\* dscale convention, the mean-normalised one, whether the statistics were
\* saved by training or recomputed, in the per-activation and the spatial
\* functions alike.
ParamGradientsAreGroupSums ==
  (BackwardOnCurrentStats /\ lastCall.fresh) =>
    \A g \in Groups :
      /\ dbias[g] = GroupSum(dy, g)
      /\ Mul(dscale[g], FromNat(M)) = GroupSum([j \in Elems |-> Mul(RefXhat(g)[j], dy[j])], g)
=============================================================================
