-------------------------- MODULE BatchNormHostProofs --------------------------
(***************************************************************************)
(* Theorems about the batch-normalisation host model, for every shape,    *)
(* epsilon, momentum and set of inputs the assumptions of BatchNormHost    *)
(* allow.                                                                  *)
(***************************************************************************)
EXTENDS BatchNormHost, ExactRealProofs, TLAPS

DVec(S) == [S -> Double]

\* A fold over a group is a double, whatever it folds.
LEMMA AccumulateDouble == \A i, f, s : Accumulate(i, f, s) \in Double
BY AsDoubleDouble DEF Accumulate

LEMMA ZeroDouble == Zero \in Double /\ One \in Double /\ ZeroStats \in DVec(Groups)
<1>1. Zero \in Val /\ One \in Val
  BY LitVal DEF Zero, One
<1> QED BY <1>1 DEF ZeroStats, DVec, Double

\* Each step of a forward pass produces a vector of doubles.
LEMMA ForwardStepsType ==
  ASSUME NEW in, NEW mean, NEW var, NEW es, NEW iv, NEW p, NEW rm, NEW rv
  PROVE  /\ BatchMean(in) \in DVec(Groups)
         /\ Centered(in, mean) \in DVec(Elems)
         /\ BatchVariance(es) \in DVec(Groups)
         /\ InvStd(var) \in DVec(Groups)
         /\ Normalized(es, iv, p) \in DVec(Elems)
         /\ RunningMeanUpdate(rm, mean) \in DVec(Groups)
         /\ RunningVarianceUpdate(rv, var) \in DVec(Groups)
BY DivDouble, SubDouble, InvSqrtDouble, AddDouble, MulDouble
DEF BatchMean, Centered, BatchVariance, InvStd, Normalized, RunningMeanUpdate,
    RunningVarianceUpdate, DVec

\* Each backward pass returns vectors of doubles in dx, dscale and dbias.
LEMMA BackwardResultType ==
  ASSUME NEW xin, NEW p, NEW mean, NEW iv, NEW d, NEW d0, NEW b0
  PROVE  /\ BwdPerActivationResult(xin, p, mean, iv, d, d0, b0).dx \in DVec(Elems)
         /\ BwdPerActivationResult(xin, p, mean, iv, d, d0, b0).dscale \in DVec(Groups)
         /\ BwdPerActivationResult(xin, p, mean, iv, d, d0, b0).dbias \in DVec(Groups)
         /\ BwdSpatialResult(xin, p, mean, iv, d, d0, b0).dx \in DVec(Elems)
         /\ BwdSpatialResult(xin, p, mean, iv, d, d0, b0).dscale \in DVec(Groups)
         /\ BwdSpatialResult(xin, p, mean, iv, d, d0, b0).dbias \in DVec(Groups)
<1>1. \A a, b, c, e : PerActivationDx(a, b, c, e) \in Double
  BY MulDouble DEF PerActivationDx
<1>2. \A a, b, c, e, f, g : SpatialDx(a, b, c, e, f, g) \in Double
  BY MulDouble DEF SpatialDx
<1> QED BY <1>1, <1>2, AccumulateDouble, DivDouble
        DEF BwdPerActivationResult, BwdSpatialResult, DVec

LEMMA CallsType ==
  ASSUME NEW f \in BOOLEAN, NEW r \in BOOLEAN
  PROVE  /\ [op |-> "fwdTrain", flag |-> f, fresh |-> TRUE] \in Calls
         /\ [op |-> "fwdInfer", flag |-> f, fresh |-> TRUE] \in Calls
         /\ [op |-> "bwd", flag |-> f, fresh |-> r] \in Calls
BY DEF Calls

(***************************************************************************)
(* TypeOK holds in every reachable state: every buffer holds a double of  *)
(* the shape the host code indexes it with (out/dx by element, the        *)
(* statistics and gradient buffers by adjIndex or cidx).                  *)
(***************************************************************************)
THEOREM TypeCorrect == Spec => []TypeOK
<1> USE DEF DVec
<1>1. Init => TypeOK
  <2> SUFFICES ASSUME Init PROVE TypeOK
    OBVIOUS
  <2>1. MaxCalls \in Nat
    BY MaxCallsAssumption
  <2>2. [op |-> "none", flag |-> FALSE, fresh |-> TRUE] \in Calls
    BY DEF Calls
  <2>3. [i \in Elems |-> Zero] \in [Elems -> Double]
    BY ZeroDouble
  <2>4. ZeroStats \in [Groups -> Double]
    BY ZeroDouble
  <2>5. calls \in 0 .. MaxCalls /\ lastCall \in Calls
    BY <2>1, <2>2 DEF Init
  <2>6. x \in XSet /\ param \in ParamSet /\ dy \in DySet /\ statsValid \in BOOLEAN
    BY DEF Init
  <2> QED BY <2>3, <2>4, <2>5, <2>6 DEF Init, TypeOK
<1>2. TypeOK /\ [Next]_vars => TypeOK'
  <2> SUFFICES ASSUME TypeOK, [Next]_vars PROVE TypeOK'
    OBVIOUS
  <2>0. calls < MaxCalls => calls + 1 \in 0 .. MaxCalls
    BY MaxCallsAssumption DEF TypeOK
  <2>1. ASSUME NEW in \in XSet, NEW p \in ParamSet, NEW s \in BOOLEAN, NEW r \in BOOLEAN,
               FwdTrainPerActivation(in, p, s, r) \/ FwdTrainSpatial(in, p, s, r)
        PROVE  TypeOK'
    <3>1. ASSUME NEW mean \in DVec(Groups), NEW var, NEW o \in DVec(Elems),
                 TrainWrites(in, p, s, r, mean, var, o, mean), calls < MaxCalls
          PROVE  TypeOK'
      <4>1. out' \in DVec(Elems) /\ saveMean' \in DVec(Groups)
        BY <3>1 DEF TrainWrites, TypeOK
      <4>2. saveInvVariance' \in DVec(Groups)
        BY <3>1, ForwardStepsType DEF TrainWrites, TypeOK
      <4>3. runningMean' \in DVec(Groups) /\ runningVariance' \in DVec(Groups)
        BY <3>1, ForwardStepsType DEF TrainWrites, TypeOK
      <4>4. /\ x' \in XSet /\ param' \in ParamSet /\ dy' \in DySet
            /\ dx' \in DVec(Elems) /\ dscale' \in DVec(Groups) /\ dbias' \in DVec(Groups)
        BY <3>1 DEF TrainWrites, TypeOK
      <4>5. statsValid' \in BOOLEAN /\ lastCall' \in Calls /\ calls' \in 0 .. MaxCalls
        BY <3>1, <2>0, CallsType DEF TrainWrites, TypeOK
      <4> QED BY <4>1, <4>2, <4>3, <4>4, <4>5 DEF TypeOK
    <3>2. CASE FwdTrainPerActivation(in, p, s, r)
      <4> DEFINE mean == BatchMean(in)
                 var  == BatchVariance(Centered(in, mean))
      <4>1. mean \in DVec(Groups) /\ Normalized(Centered(in, mean), InvStd(var), p) \in DVec(Elems)
        BY ForwardStepsType
      <4>2. TrainWrites(in, p, s, r, mean, var,
                        Normalized(Centered(in, mean), InvStd(var), p), mean) /\ calls < MaxCalls
        BY <3>2 DEF FwdTrainPerActivation
      <4> QED BY <4>1, <4>2, <3>1
    <3>3. CASE FwdTrainSpatial(in, p, s, r)
      <4> DEFINE mean == BatchMean(in)
                 var  == BatchVariance(Centered(in, mean))
      <4>1. mean \in DVec(Groups) /\ Normalized(Centered(in, mean), InvStd(var), p) \in DVec(Elems)
        BY ForwardStepsType
      <4>2. TrainWrites(in, p, s, r, mean, var,
                        Normalized(Centered(in, mean), InvStd(var), p), mean) /\ calls < MaxCalls
        BY <3>3 DEF FwdTrainSpatial
      <4> QED BY <4>1, <4>2, <3>1
    <3> QED BY <2>1, <3>2, <3>3
  <2>2. ASSUME NEW in \in XSet, NEW p \in ParamSet, NEW e \in BOOLEAN,
               FwdInferPerActivation(in, p, e) \/ FwdInferSpatial(in, p, e)
        PROVE  TypeOK'
    <3>1. ASSUME NEW o \in DVec(Elems), InferWrites(in, p, e, o), calls < MaxCalls
          PROVE  TypeOK'
      BY <3>1, <2>0, CallsType DEF InferWrites, TypeOK
    <3> QED BY <2>2, <3>1, ForwardStepsType DEF FwdInferPerActivation, FwdInferSpatial
  <2>3. ASSUME NEW d \in DySet, NEW s \in BOOLEAN, NEW f \in FreshChoices,
               BwdPerActivation(d, s, f) \/ BwdSpatial(d, s, f)
        PROVE  TypeOK'
    <3>0. f \in BOOLEAN
      BY ReuseAssumption DEF FreshChoices
    <3>1. ASSUME NEW res, res.dx \in DVec(Elems), res.dscale \in DVec(Groups),
                 res.dbias \in DVec(Groups), BwdWrites(s, f, d, res), calls < MaxCalls
          PROVE  TypeOK'
      BY <3>0, <3>1, <2>0, CallsType DEF BwdWrites, TypeOK
    <3> QED BY <2>3, <3>1, BackwardResultType DEF BwdPerActivation, BwdSpatial
  <2>4. CASE UNCHANGED vars
    BY <2>4 DEF vars, TypeOK
  <2> QED BY <2>1, <2>2, <2>3, <2>4 DEF Next
<1> QED BY <1>1, <1>2, PTL DEF Spec
=============================================================================
