---------------------- MODULE BNInferRefinementProofs ----------------------
(***************************************************************************)
(* The batch-norm inference kernels implement the safety part of their    *)
(* promise (KernelOutput): for a launch that fits the tensor, every store *)
(* of a thread is the first store of its element, and it stores the fma   *)
(* operands the host reference uses for that element.                    *)
(***************************************************************************)
EXTENDS BNInferKernelProofs

\* The four statistics of cell g, as the loads of a thread return them.
Stats(g) == [mean |-> EstMean[g], var |-> EstVariance[g], scale |-> Scale[g], bias |-> Bias[g]]

\* Thread t has done its store at position y of batch b: y is behind its
\* counter, or y is its counter and b is behind its batch counter.
Visited(t, y, b) == y < idx[t] \/ (y = idx[t] /\ b < n[t])

\* Every writer of an element stored it at a point of its loops it has
\* already passed.
VisitInv ==
  \A e \in Elems : \A t \in writers[e] :
    \E b \in 0 .. BatchSize - 1, k \in Nat :
      /\ YIdx(t) + k * YStride < ImageDims
      /\ e = OutIndex(t, YIdx(t) + k * YStride, b)
      /\ Visited(t, YIdx(t) + k * YStride, b)

\* An element nobody wrote is unwritten, and a written one holds the host's
\* operands.
OutInv ==
  \A e \in Elems :
    /\ writers[e] = {} => out[e] = Unwritten
    /\ out[e] # Unwritten => out[e] = HostOperands(launch)[e]

\* A thread in its batch loop (and a spatial thread past its loads) holds
\* the statistics of the cell it loads for its counter.
PrmInv ==
  \A t \in Threads :
    pc[t] = "inner" \/ (IsSpatial /\ pc[t] = "test") => prm[t] = Stats(StatIndex(t, idx[t]))

RefInv == IInv /\ VisitInv /\ OutInv /\ PrmInv

-----------------------------------------------------------------------------
\* Division and remainder of a number written in digits of radix m.
LEMMA DivModDigits ==
  ASSUME NEW q \in Nat, NEW m \in Nat \ {0}, NEW r \in 0 .. m - 1
  PROVE  (q * m + r) % m = r /\ (q * m + r) \div m = q
BY Z3

\* The host's group of element b*C*D + c*D + y is channel c in the spatial
\* mode and cell c*D + y per activation.
LEMMA HostGroup ==
  ASSUME NEW k \in {"Spatial", "PerActivation"}, NEW c \in 0 .. Channels - 1,
         NEW y \in 0 .. ImageDims - 1, NEW b \in 0 .. BatchSize - 1
  PROVE  HostStats(k, b * (Channels * ImageDims) + (c * ImageDims + y))
           = Stats(IF k = "Spatial" THEN c ELSE c * ImageDims + y)
<1> DEFINE D == ImageDims
<1>1. c * D + y \in 0 .. Channels * D - 1
  BY ShapeFacts, DigitsBound DEF D
<1>2. (b * (Channels * D) + (c * D + y)) % (Channels * D) = c * D + y
  <2> DEFINE M == Channels * D
  <2> DEFINE R == c * D + y
  <2>1. M \in Nat \ {0} /\ R \in 0 .. M - 1
    BY <1>1, ShapeFacts DEF M, R, D
  <2> HIDE DEF M, R
  <2>2. (b * M + R) % M = R
    BY <2>1, ShapeFacts, DivModDigits
  <2> QED BY <2>2 DEF M, R
<1>3. (c * D + y) \div D = c
  BY ShapeFacts, DivModDigits DEF D
<1>4. /\ Host(k)!InNStride = Channels * D
      /\ Host(k)!InCStride = D
  BY ShapeFacts DEF Host!InNStride, Host!InCStride
<1>5. CASE k = "Spatial"
  <2>1. Host(k)!GroupOf(b * (Channels * D) + (c * D + y)) = c
    BY <1>2, <1>3, <1>4, <1>5 DEF Host!GroupOf, Host!IsPerAct
  <2> QED BY <2>1, <1>5 DEF HostStats, Stats
<1>6. CASE k = "PerActivation"
  <2>1. Host(k)!GroupOf(b * (Channels * D) + (c * D + y)) = c * D + y
    BY <1>2, <1>4, <1>6 DEF Host!GroupOf, Host!IsPerAct
  <2> QED BY <2>1, <1>6 DEF HostStats, Stats
<1> QED BY <1>5, <1>6

\* A thread's store at position y of batch b is the fma the host reference
\* computes for that element, once its registers hold the statistics of
\* the cell it loads for y.
LEMMA StoreTarget ==
  ASSUME GridFitsTensor, launch \in Launches, NEW t \in Threads,
         NEW y \in 0 .. ImageDims - 1, NEW b \in 0 .. BatchSize - 1
  PROVE  HostOperands(launch)[OutIndex(t, y, b)]
           = Fma(Stats(StatIndex(t, y)), X[OutIndex(t, y, b)])
<1> DEFINE e == OutIndex(t, y, b)
<1>1. /\ e = b * (Channels * ImageDims) + (Chan(t) * ImageDims + y)
      /\ e \in Elems
      /\ Chan(t) \in 0 .. Channels - 1
  BY OutIndexDigits, ChanBound, ShapeFacts DEF e
<1>2. CASE launch = "Spatial"
  <2>1. HostOperands(launch)[e] = Fma(HostStats("Spatial", e), X[e])
    BY <1>1, <1>2 DEF HostOperands, HostOperandsIn
  <2>2. HostStats("Spatial", e) = Stats(Chan(t))
    BY <1>1, HostGroup
  <2> QED BY <1>2, <2>1, <2>2 DEF StatIndex, IsSpatial, Kernel
<1>3. CASE launch # "Spatial"
  <2>0. launch = "PerActivation"
    BY <1>3, KernelAssumption
  <2>1. HostOperands(launch)[e] = Fma(HostStats("PerActivation", e), X[e])
    BY <1>1, <2>0 DEF HostOperands, HostOperandsIn
  <2>2. HostStats("PerActivation", e) = Stats(Chan(t) * ImageDims + y)
    BY <1>1, HostGroup
  <2> QED BY <1>3, <2>1, <2>2 DEF StatIndex, IsSpatial, Kernel
<1> QED BY <1>2, <1>3
\* The loads of a thread of a launch that fits the tensor read its cell.
LEMMA LoadedStats ==
  ASSUME GridFitsTensor, launch \in Launches, NEW t \in Threads, NEW y \in Nat,
         IsSpatial \/ y \in 0 .. ImageDims - 1
  PROVE  Loaded(StatIndex(t, y)) = {Stats(StatIndex(t, y))}
<1>1. Chan(t) \in 0 .. Channels - 1
  BY ChanBound
<1>2. CASE IsSpatial
  BY <1>1, <1>2 DEF Loaded, StatIndex, StatCells, StatCellsOf, IsSpatial, Kernel, Stats
<1>3. CASE ~IsSpatial
  <2>1. Chan(t) * ImageDims + y \in 0 .. Channels * ImageDims - 1
    BY <1>1, <1>3, ShapeFacts, DigitsBound
  <2> QED BY <1>3, <2>1 DEF Loaded, StatIndex, StatCells, StatCellsOf, IsSpatial, Kernel, Stats
<1> QED BY <1>2, <1>3

\* A thread stores each (position, batch) pair to an element of its own.
LEMMA OutIndexInjective ==
  ASSUME GridFitsTensor, launch \in Launches, NEW t \in Threads,
         NEW y1 \in 0 .. ImageDims - 1, NEW b1 \in 0 .. BatchSize - 1,
         NEW y2 \in 0 .. ImageDims - 1, NEW b2 \in 0 .. BatchSize - 1,
         OutIndex(t, y1, b1) = OutIndex(t, y2, b2)
  PROVE  y1 = y2 /\ b1 = b2
<1> DEFINE r == Channels * ImageDims
<1> DEFINE g1 == Chan(t) * ImageDims + y1
<1> DEFINE g2 == Chan(t) * ImageDims + y2
<1>1. /\ OutIndex(t, y1, b1) = g1 + b1 * r /\ g1 \in 0 .. r - 1
      /\ OutIndex(t, y2, b2) = g2 + b2 * r /\ g2 \in 0 .. r - 1
  BY OutIndexDigits DEF r, g1, g2
<1>2. r \in Nat \ {0}
  BY ShapeFacts DEF r
<1> HIDE DEF r, g1, g2
<1>3. g1 + b1 * r = g2 + b2 * r
  BY <1>1
<1>4. g1 = g2 /\ b1 = b2
  BY <1>1, <1>2, <1>3, DigitsUnique
<1> QED BY <1>4, ChanBound, ShapeFacts DEF g1, g2
(***************************************************************************)
(* PrmInv is inductive: the loads read the thread's own cell, the spatial *)
(* cell does not depend on the counter, and a per-activation thread loads *)
(* again after every advance of its counter.                              *)
(***************************************************************************)
LEMMA PrmStep ==
  ASSUME IInv, PrmInv, [Next]_vars, GridFitsTensor
  PROVE  PrmInv'
<1>1. CASE UNCHANGED vars
  BY <1>1 DEF PrmInv, vars, StatIndex, Chan, IsSpatial, Kernel
<1>2. CASE Next
  <2>1. PICK t \in Threads : Step(t)
    BY <1>2 DEF Next
  <2>2. /\ launch \in Launches /\ launch' = launch
        /\ pc \in [Threads -> {"load", "test", "inner", "done"}]
        /\ idx \in [Threads -> Nat] /\ prm \in [Threads -> Params]
    BY <2>1 DEF IInv, TypeOK, Step, Test, Load, Store, Advance
  <2>3. SUFFICES ASSUME NEW u \in Threads,
                        pc'[u] = "inner" \/ (IsSpatial /\ pc'[u] = "test")
                 PROVE  prm'[u] = Stats(StatIndex(u, idx'[u]))
    BY <2>2 DEF PrmInv, StatIndex, Chan, IsSpatial, Kernel
  <2>4. CASE u # t
    <3>1. pc'[u] = pc[u] /\ idx'[u] = idx[u] /\ prm'[u] = prm[u]
      BY <2>1, <2>2, <2>4 DEF Step, Test, Load, Store, Advance
    <3> QED BY <2>3, <3>1 DEF PrmInv
  <2>5. CASE u = t
    <3>1. CASE Test(t)
      <4>1. pc[t] = "test" /\ idx'[t] = idx[t] /\ prm'[t] = prm[t]
            /\ (pc'[t] = "inner" => IsSpatial) /\ pc'[t] # "test"
        BY <2>2, <3>1 DEF Test
      <4> QED BY <2>3, <2>5, <4>1 DEF PrmInv
    <3>2. CASE Load(t)
      <4>1. PICK p \in Loaded(StatIndex(t, idx[t])) : prm' = [prm EXCEPT ![t] = p]
        BY <3>2 DEF Load
      <4>2. IsSpatial \/ idx[t] \in 0 .. ImageDims - 1
        BY <2>2, <3>2, ShapeFacts DEF Load, IInv, ThreadInv
      <4>3. p = Stats(StatIndex(t, idx[t]))
        BY <2>2, <4>1, <4>2, LoadedStats
      <4> QED BY <2>2, <2>5, <3>2, <4>1, <4>3 DEF Load
    <3>3. CASE Store(t)
      <4>1. pc'[t] = pc[t] /\ idx'[t] = idx[t] /\ prm'[t] = prm[t]
        BY <2>2, <3>3 DEF Store
      <4> QED BY <2>3, <2>5, <4>1 DEF PrmInv
    <3>4. CASE Advance(t)
      <4>1. pc[t] = "inner" /\ pc'[t] = "test" /\ prm'[t] = prm[t]
        BY <2>2, <3>4 DEF Advance
      <4>2. IsSpatial
        BY <2>3, <2>5, <4>1
      <4> QED BY <2>5, <4>1, <4>2 DEF PrmInv, StatIndex
    <3> QED BY <2>1, <3>1, <3>2, <3>3, <3>4 DEF Step
  <2> QED BY <2>4, <2>5
<1> QED BY <1>1, <1>2

(***************************************************************************)
(* VisitInv is inductive: a thread's (counter, batch) point only moves    *)
(* forward, and a store records the point the thread is at before n++.   *)
(***************************************************************************)
LEMMA VisitStep ==
  ASSUME IInv, VisitInv, [Next]_vars
  PROVE  VisitInv'
<1>1. CASE UNCHANGED vars
  BY <1>1 DEF VisitInv, vars, Visited, OutIndex, Chan, YIdx, YStride, IsSpatial, Kernel
<1>2. CASE Next
  <2>1. PICK t \in Threads : Step(t)
    BY <1>2 DEF Next
  <2>2. /\ launch' = launch
        /\ writers \in [Elems -> SUBSET Threads]
        /\ idx \in [Threads -> Nat] /\ n \in [Threads -> 0 .. BatchSize]
    BY <2>1 DEF IInv, TypeOK, Step, Test, Load, Store, Advance
  <2>3. ASSUME NEW u \in Threads, NEW y \in Nat, NEW b \in Nat, Visited(u, y, b)
        PROVE  Visited(u, y, b)'
    <3>1. CASE u # t \/ Test(t) \/ Load(t)
      <4>1. idx'[u] = idx[u] /\ n'[u] = n[u]
        BY <2>1, <2>2, <3>1 DEF Step, Test, Load, Store, Advance
      <4> QED BY <2>3, <4>1 DEF Visited
    <3>2. CASE u = t /\ Store(t)
      <4>1. idx'[u] = idx[u] /\ n'[u] = n[u] + 1
        BY <2>2, <3>2 DEF Store
      <4> QED BY <2>2, <2>3, <4>1 DEF Visited
    <3>3. CASE u = t /\ Advance(t)
      <4>1. idx'[u] = idx[u] + YStride
        BY <2>2, <3>3 DEF Advance
      <4> QED BY <2>2, <2>3, <4>1, ShapeFacts DEF Visited
    <3> QED BY <2>1, <3>1, <3>2, <3>3 DEF Step
  <2>4. SUFFICES ASSUME NEW e \in Elems, NEW u \in writers'[e]
                 PROVE  \E b \in 0 .. BatchSize - 1, k \in Nat :
                          /\ YIdx(u) + k * YStride < ImageDims
                          /\ e = OutIndex(u, YIdx(u) + k * YStride, b)
                          /\ Visited(u, YIdx(u) + k * YStride, b)'
    BY <2>2 DEF VisitInv, OutIndex, Chan, YIdx, YStride, IsSpatial, Kernel
  <2>5. writers'[e] \subseteq Threads
    BY <2>1, <2>2 DEF Step, Test, Load, Store, Advance
  <2>6. CASE u \in writers[e]
    <3>1. PICK b \in 0 .. BatchSize - 1, k \in Nat :
            /\ YIdx(u) + k * YStride < ImageDims
            /\ e = OutIndex(u, YIdx(u) + k * YStride, b)
            /\ Visited(u, YIdx(u) + k * YStride, b)
      BY <2>6 DEF VisitInv
    <3>2. YIdx(u) + k * YStride \in Nat
      BY <2>5, ThreadFacts, ShapeFacts
    <3> QED BY <3>1, <3>2, <2>3, <2>5
  <2>7. CASE u \notin writers[e]
    <3>1. /\ Store(t) /\ u = t
          /\ e = OutIndex(t, idx[t], n[t])
      BY <2>1, <2>2, <2>7 DEF Step, Test, Load, Advance, Store
    <3>2. /\ pc[t] = "inner" /\ n[t] \in 0 .. BatchSize - 1
          /\ idx'[t] = idx[t] /\ n'[t] = n[t] + 1
      BY <2>2, <3>1, ShapeFacts DEF Store
    <3>3. PICK k \in Nat : idx[t] = YIdx(t) + k * YStride
      BY DEF IInv, ThreadInv
    <3>4. idx[t] < ImageDims
      BY <3>2 DEF IInv, ThreadInv
    <3>5. \A bb \in Nat : bb = n[t] => Visited(t, YIdx(t) + k * YStride, bb)'
      BY <2>2, <3>2, <3>3 DEF Visited
    <3>6. /\ YIdx(t) + k * YStride < ImageDims
          /\ e = OutIndex(t, YIdx(t) + k * YStride, n[t])
      BY <3>1, <3>3, <3>4
    <3> QED BY <3>1, <3>2, <3>5, <3>6
  <2> QED BY <2>6, <2>7
<1> QED BY <1>1, <1>2

\* The element a thread is about to store has no writer yet: no other
\* thread visits it, and the thread itself has not yet passed this point.
LEMMA FreshStore ==
  ASSUME RefInv, GridFitsTensor, NEW t \in Threads,
         pc[t] = "inner", n[t] < BatchSize
  PROVE  writers[OutIndex(t, idx[t], n[t])] = {}
<1> DEFINE i == OutIndex(t, idx[t], n[t])
<1>1. /\ launch \in Launches /\ writers \in [Elems -> SUBSET Threads]
      /\ n[t] \in 0 .. BatchSize - 1 /\ idx[t] \in 0 .. ImageDims - 1
  BY ShapeFacts DEF RefInv, IInv, TypeOK, ThreadInv
<1>2. PICK k \in Nat : idx[t] = YIdx(t) + k * YStride
  BY DEF RefInv, IInv, ThreadInv
<1>3. i \in Elems
  BY <1>1, OutIndexDigits
<1>4. SUFFICES ASSUME NEW u \in writers[i] PROVE FALSE
  OBVIOUS
<1>5. PICK b \in 0 .. BatchSize - 1, k2 \in Nat :
        /\ YIdx(u) + k2 * YStride < ImageDims
        /\ i = OutIndex(u, YIdx(u) + k2 * YStride, b)
        /\ Visited(u, YIdx(u) + k2 * YStride, b)
  BY <1>3 DEF RefInv, VisitInv
<1>6. u = t
  <2>1. u \in Threads
    BY <1>1, <1>3
  <2>2. Covers(u, i)
    BY <1>5 DEF Covers
  <2>3. Covers(t, i)
    <3>1. /\ YIdx(t) + k * YStride < ImageDims
          /\ i = OutIndex(t, YIdx(t) + k * YStride, n[t])
      BY <1>1, <1>2, ShapeFacts DEF i
    <3>2. \E bb \in 0 .. BatchSize - 1, kk \in Nat :
            /\ YIdx(t) + kk * YStride < ImageDims
            /\ i = OutIndex(t, YIdx(t) + kk * YStride, bb)
      BY <1>1, <3>1, Zenon
    <3> QED BY <3>2 DEF Covers
  <2> QED BY <1>1, <2>1, <2>2, <2>3, CoversUnique
<1>7. YIdx(t) + k2 * YStride = idx[t] /\ b = n[t]
  <2>1. YIdx(t) + k2 * YStride \in 0 .. ImageDims - 1
    BY <1>5, <1>6, ThreadFacts, ShapeFacts
  <2> QED BY <1>1, <1>5, <1>6, <2>1, OutIndexInjective
<1> QED BY <1>5, <1>6, <1>7, <1>1 DEF Visited

(***************************************************************************)
(* OutInv is inductive: the only store is to an element of the thread's   *)
(* loop, and it stores the host's operands of that element.              *)
(***************************************************************************)
LEMMA OutStep ==
  ASSUME RefInv, [Next]_vars, GridFitsTensor
  PROVE  OutInv'
<1>1. CASE UNCHANGED vars
  BY <1>1 DEF RefInv, OutInv, vars, HostOperands
<1>2. CASE Next
  <2>1. PICK t \in Threads : Step(t)
    BY <1>2 DEF Next
  <2>2. /\ launch \in Launches /\ launch' = launch
        /\ out \in [Elems -> [prm : Params, in : Val] \cup {Unwritten}]
        /\ writers \in [Elems -> SUBSET Threads]
    BY <2>1 DEF RefInv, IInv, TypeOK, Step, Test, Load, Store, Advance
  <2>3. CASE Test(t) \/ Load(t) \/ Advance(t)
    <3>1. UNCHANGED <<out, writers>>
      BY <2>3 DEF Test, Load, Advance
    <3> QED BY <2>2, <3>1 DEF RefInv, OutInv, HostOperands
  <2>4. CASE Store(t)
    <3> DEFINE i == OutIndex(t, idx[t], n[t])
    <3>1. /\ pc[t] = "inner" /\ n[t] \in 0 .. BatchSize - 1
          /\ idx[t] \in 0 .. ImageDims - 1
      BY <2>4, ShapeFacts DEF Store, RefInv, IInv, TypeOK, ThreadInv
    <3>2. i \in Elems
      BY <2>2, <3>1, OutIndexDigits
    <3>3. /\ out' = [out EXCEPT ![i] = Fma(prm[t], X[i])]
          /\ writers' = [writers EXCEPT ![i] = writers[i] \cup {t}]
      BY <2>4, <3>2 DEF Store, i
    <3>4. Fma(prm[t], X[i]) = HostOperands(launch)[i]
      <4>1. prm[t] = Stats(StatIndex(t, idx[t]))
        BY <3>1 DEF RefInv, PrmInv
      <4> QED BY <2>2, <3>1, <4>1, StoreTarget
    <3> QED BY <2>2, <3>2, <3>3, <3>4 DEF RefInv, OutInv, HostOperands
  <2> QED BY <2>1, <2>3, <2>4 DEF Step
<1> QED BY <1>1, <1>2

\* A kernel step is a store of the promise, or leaves launch and out alone.
LEMMA RefineStep ==
  ASSUME RefInv, [Next]_vars, GridFitsTensor
  PROVE  [Promise!Next]_(Promise!vars)
<1>1. CASE UNCHANGED vars
  BY <1>1 DEF vars, Promise!vars
<1>2. CASE Next
  <2>1. PICK t \in Threads : Step(t)
    BY <1>2 DEF Next
  <2>2. /\ launch \in Launches
        /\ out \in [Elems -> [prm : Params, in : Val] \cup {Unwritten}]
    BY DEF RefInv, IInv, TypeOK
  <2>3. CASE Test(t) \/ Load(t) \/ Advance(t)
    BY <2>3 DEF Test, Load, Advance, Promise!vars
  <2>4. CASE Store(t)
    <3> DEFINE i == OutIndex(t, idx[t], n[t])
    <3>1. /\ pc[t] = "inner" /\ n[t] \in 0 .. BatchSize - 1
          /\ idx[t] \in 0 .. ImageDims - 1
      BY <2>4, ShapeFacts DEF Store, RefInv, IInv, TypeOK, ThreadInv
    <3>2. i \in Elems
      BY <2>2, <3>1, OutIndexDigits
    <3>3. /\ out' = [out EXCEPT ![i] = Fma(prm[t], X[i])]
          /\ launch' = launch
      BY <2>4, <3>2 DEF Store, i
    <3>4. Fma(prm[t], X[i]) = HostOperands(launch)[i]
      <4>1. prm[t] = Stats(StatIndex(t, idx[t]))
        BY <3>1 DEF RefInv, PrmInv
      <4> QED BY <2>2, <3>1, <4>1, StoreTarget
    <3>5. out[i] = Unwritten
      <4>1. writers[i] = {}
        BY <3>1, ShapeFacts, FreshStore DEF i
      <4> QED BY <3>2, <4>1 DEF RefInv, OutInv
    <3>6. Promise!Store(i)
      BY <3>3, <3>4, <3>5 DEF Promise!Store
    <3> QED BY <3>2, <3>6 DEF Promise!Next
  <2> QED BY <2>1, <2>3, <2>4 DEF Step
<1> QED BY <1>1, <1>2

\* The kernels start with no thread past its loads and out unwritten.
LEMMA InitRef ==
  ASSUME Init
  PROVE  RefInv
<1>1. IInv
  BY InitInv
<1>2. VisitInv /\ OutInv
  BY DEF Init, VisitInv, OutInv
<1>3. PrmInv
  BY DEF Init, PrmInv
<1> QED BY <1>1, <1>2, <1>3 DEF RefInv

(***************************************************************************)
(* The batch-norm inference kernels implement the safety part of their    *)
(* promise, for every launch that fits the tensor: in every interleaving  *)
(* of the threads, out starts unwritten and each step either leaves it     *)
(* alone or stores, into an element nobody stored before, the fma of      *)
(* in[index] and of the statistics the host reference uses for that        *)
(* element.  The thread and stride arithmetic of the spatial and per-     *)
(* activation kernels puts every store in its place.                       *)
(***************************************************************************)
THEOREM Refinement ==
  ASSUME GridFitsTensor
  PROVE  Spec => ImplementsHostInference
<1>1. Init => RefInv
  BY InitRef
<1>2. RefInv /\ [Next]_vars => RefInv'
  BY TypeStep, ThreadStep, WritesStep, VisitStep, OutStep, PrmStep DEF RefInv, IInv
<1>3. Init => Promise!Init
  BY DEF Init, Promise!Init
<1>4. RefInv /\ [Next]_vars => [Promise!Next]_(Promise!vars)
  BY RefineStep
<1> QED BY <1>1, <1>2, <1>3, <1>4, PTL DEF Spec, ImplementsHostInference, Promise!SafetySpec

\* The running variances the kernels read are non-negative rationals, as
\* the running average of batch variances (sums of squares over a count)
\* that the training passes write.
VarianceNonNegative ==
  \A g \in StatCellsOf("PerActivation") :
    IsRational(EstVariance[g]) /\ EstVariance[g].a.num >= 0

\* A fraction with a non-negative numerator stays non-negative in lowest
\* terms.
LEMMA NormNonNeg ==
  ASSUME NEW a \in Nat, NEW d \in Nat \ {0}
  PROVE  Norm(a, d).num >= 0
<1> DEFINE g == Gcd[<<AbsInt(a), AbsInt(d)>>]
<1> HIDE DEF g
<1>1. CASE g \in Nat \ {0} /\ a % g = 0 /\ d % g = 0
  <2>1. Norm(a, d).num = a \div g
    BY <1>1 DEF Norm, g
  <2> QED BY <1>1, <2>1, Z3
<1>2. CASE ~(g \in Nat \ {0} /\ a % g = 0 /\ d % g = 0)
  BY <1>2 DEF Norm, g
<1> QED BY <1>1, <1>2

\* 0 + 0 is the rational zero.
LEMMA RAddZero == RAdd(RZero, RZero) = RZero
<1> DEFINE g == Gcd[<<AbsInt(0), AbsInt(1)>>]
<1> HIDE DEF g
<1>1. RAdd(RZero, RZero) = Norm(0, 1)
  BY DEF RAdd, RZero
<1>2. CASE g \in Nat \ {0} /\ 0 % g = 0 /\ 1 % g = 0
  <2>1. g = 1
    BY <1>2, Z3
  <2> QED BY <1>1, <2>1 DEF Norm, g, RZero
<1>3. CASE ~(g \in Nat \ {0} /\ 0 % g = 0 /\ 1 % g = 0)
  BY <1>1, <1>3 DEF Norm, g, RZero
<1> QED BY <1>2, <1>3

\* fabs leaves variance + epsilon alone when the variance is a non-negative
\* rational: the kernel's rsqrt(fabs(variance + epsilon)) is the host's
\* 1/sqrt(variance + epsilon).
LEMMA FAbsAddEps ==
  ASSUME NEW v, IsRational(v), v.a.num >= 0
  PROVE  FAbs(Add(v, Epsilon)) = Add(v, Epsilon)
<1>1. IsRational(Epsilon) /\ Epsilon.a.num > 0
  BY EpsilonAssumption DEF RPos
<1>2. /\ v.a \in Rat /\ Epsilon.a \in Rat
      /\ v.b = RZero /\ Epsilon.b = RZero
  BY <1>1 DEF IsRational, Val
<1>3. Add(v, Epsilon) = Mk(RAdd(v.a, Epsilon.a), RZero, RootOf(v, Epsilon))
  BY <1>1, <1>2, RAddZero DEF Add, IsRational, Compatible
<1>4. RAdd(v.a, Epsilon.a).num >= 0
  <2>1. /\ v.a.num * Epsilon.a.den + Epsilon.a.num * v.a.den \in Nat
        /\ v.a.den * Epsilon.a.den \in Nat \ {0}
    BY <1>1, <1>2 DEF Rat
  <2> QED BY <2>1, NormNonNeg DEF RAdd
<1>5. Add(v, Epsilon).a.num >= 0 /\ Add(v, Epsilon).a.num \in Int
  <2>1. RAdd(v.a, Epsilon.a) \in Rat
    BY <1>2, RatOps
  <2> QED BY <1>3, <1>4, <2>1 DEF Mk, Rat
<1>6. ~(Add(v, Epsilon).a.num < 0)
  BY <1>5
<1> QED BY <1>6 DEF FAbs

\* The host reference is instantiated with its own copy of the exact
\* arithmetic; it is the kernels' arithmetic.
LEMMA HostArith ==
  ASSUME NEW k
  PROVE  /\ \A x, y : Host(k)!Add(x, y) = Add(x, y)
         /\ \A x, y : Host(k)!Sub(x, y) = Sub(x, y)
         /\ \A x, y : Host(k)!Mul(x, y) = Mul(x, y)
         /\ \A x : Host(k)!InvSqrt(x) = InvSqrt(x)
<1>1. /\ Host(k)!Gcd = Gcd /\ Host(k)!RZero = RZero /\ Host(k)!ROne = ROne
      /\ Host(k)!Rat = Rat
  BY DEF Host!Gcd, Gcd, Host!RZero, RZero, Host!ROne, ROne, Host!Rat, Rat
<1>2. \A m, d : Host(k)!Norm(m, d) = Norm(m, d)
  BY <1>1 DEF Host!Norm, Norm, Host!AbsInt, AbsInt
<1>3. /\ \A p, q : Host(k)!RAdd(p, q) = RAdd(p, q)
      /\ \A p, q : Host(k)!RMul(p, q) = RMul(p, q)
      /\ \A p : Host(k)!RNeg(p) = RNeg(p)
      /\ \A p : Host(k)!RInv(p) = RInv(p)
      /\ \A p : Host(k)!RInvSqrt(p) = RInvSqrt(p)
      /\ \A p : Host(k)!RIsSquare(p) = RIsSquare(p)
  BY <1>2 DEF Host!RAdd, RAdd, Host!RMul, RMul, Host!RNeg, RNeg, Host!RInv, RInv,
              Host!RInvSqrt, RInvSqrt, Host!ISqrt, ISqrt, Host!RIsSquare, RIsSquare,
              Host!IsSquare, IsSquare
<1>4. /\ Host(k)!Val = Val /\ Host(k)!NonFinite = NonFinite
      /\ \A a, b, r : Host(k)!Mk(a, b, r) = Mk(a, b, r)
      /\ \A x : Host(k)!IsRational(x) = IsRational(x)
      /\ \A x, y : Host(k)!Compatible(x, y) = Compatible(x, y)
      /\ \A x, y : Host(k)!RootOf(x, y) = RootOf(x, y)
  BY <1>1 DEF Host!Val, Val, Host!NonFinite, NonFinite, Host!Mk, Mk,
              Host!IsRational, IsRational, Host!Compatible, Compatible,
              Host!RootOf, RootOf
<1>5. \A x, y : Host(k)!Add(x, y) = Add(x, y)
  BY <1>3, <1>4 DEF Host!Add, Add
<1>6. \A x : Host(k)!Neg(x) = Neg(x)
  BY <1>3, <1>4 DEF Host!Neg, Neg
<1>7. \A x, y : Host(k)!Sub(x, y) = Sub(x, y)
  BY <1>5, <1>6 DEF Host!Sub, Sub
<1>8. \A x, y : Host(k)!Mul(x, y) = Mul(x, y)
  BY <1>3, <1>4 DEF Host!Mul, Mul
<1>9. \A x : Host(k)!InvSqrt(x) = InvSqrt(x)
  BY <1>1, <1>3, <1>4 DEF Host!InvSqrt, InvSqrt
<1> QED BY <1>5, <1>7, <1>8, <1>9

\* What the kernel computes from the host's operands of an element is what
\* the host computes for it, when the running variances are non-negative.
LEMMA HostOutValue ==
  ASSUME VarianceNonNegative, NEW k \in {"Spatial", "PerActivation"}, NEW i \in Elems
  PROVE  Normalize(HostStats(k, i), X[i]) = HostOutOf(k)[i]
<1> DEFINE G == Host(k)!GroupOf(i)
<1> DEFINE CD == Channels * ImageDims
<1>1. Host(k)!Elems = Elems
  BY ShapeFacts DEF Host!Elems, Host!InNStride, Elems
<1>2. /\ G \in Host(k)!Groups
      /\ G \in StatCellsOf("PerActivation")
  <2>1. CD \in Nat \ {0} /\ i \in Nat
    BY ShapeFacts DEF CD, Elems
  <2>2. i % CD \in 0 .. CD - 1
    BY <2>1
  <2>3. /\ Host(k)!InNStride = CD /\ Host(k)!InCStride = ImageDims
    BY ShapeFacts DEF Host!InNStride, Host!InCStride, CD
  <2>4. CASE k = "PerActivation"
    BY <2>2, <2>3, <2>4 DEF G, Host!GroupOf, Host!IsPerAct, Host!Groups, StatCellsOf, CD
  <2>5. CASE k = "Spatial"
    <3>1. (i % CD) \div ImageDims \in 0 .. Channels - 1
      <4> HIDE DEF CD
      <4>1. i % CD \in 0 .. Channels * ImageDims - 1
        BY <2>2 DEF CD
      <4> QED BY <4>1, ShapeFacts, Z3
    <3>2. Channels - 1 <= Channels * ImageDims - 1
      BY ShapeFacts
    <3>3. G = (i % CD) \div ImageDims
      BY <2>3, <2>5 DEF G, Host!GroupOf, Host!IsPerAct
    <3>4. Host(k)!Groups = 0 .. Channels - 1
      BY <2>5 DEF Host!Groups, Host!IsPerAct
    <3> QED BY <3>1, <3>2, <3>3, <3>4, ShapeFacts DEF StatCellsOf
  <2> QED BY <2>4, <2>5
<1>3. HostOutOf(k)[i]
        = Add(Mul(Scale[G], Mul(Sub(X[i], EstMean[G]), InvSqrt(Add(EstVariance[G], Epsilon)))),
              Bias[G])
  <2>1. Host(k)!Centered(X, EstMean)[i] = Sub(X[i], EstMean[G])
    BY <1>1, HostArith DEF Host!Centered, G
  <2>2. Host(k)!InvStd(EstVariance)[G] = InvSqrt(Add(EstVariance[G], Epsilon))
    BY <1>2, HostArith DEF Host!InvStd
  <2>3. HostOutOf(k)[i]
          = Add(Mul(HostParam.scale[G],
                    Mul(Host(k)!Centered(X, EstMean)[i], Host(k)!InvStd(EstVariance)[G])),
                HostParam.bias[G])
    BY <1>1, HostArith DEF HostOutOf, Host!Normalized, G
  <2> QED BY <2>1, <2>2, <2>3 DEF HostParam
<1>4. Normalize(HostStats(k, i), X[i])
        = Add(Mul(Scale[G], Mul(Sub(X[i], EstMean[G]), InvSqrt(FAbs(Add(EstVariance[G], Epsilon))))),
              Bias[G])
  BY DEF Normalize, InvVariance, HostStats, G
<1>5. FAbs(Add(EstVariance[G], Epsilon)) = Add(EstVariance[G], Epsilon)
  BY <1>2, FAbsAddEps DEF VarianceNonNegative
<1> QED BY <1>3, <1>4, <1>5

(***************************************************************************)
(* Every element the inference kernels store, normalised with the         *)
(* kernel's arithmetic (rsqrt(fabs(variance + epsilon)) and the fma), is  *)
(* the value the host reference miopenBNFwdInfer*RunHost computes for it, *)
(* for every launch that fits the tensor and running variances that are   *)
(* non-negative.  With a negative variance the fabs of the kernels gives  *)
(* a finite result where the host's 1/sqrt does not.                      *)
(***************************************************************************)
THEOREM ValuesMatchHost ==
  ASSUME GridFitsTensor, VarianceNonNegative
  PROVE  Spec => []StoredValuesMatchHost
<1>1. Init => RefInv
  BY InitRef
<1>2. RefInv /\ [Next]_vars => RefInv'
  BY TypeStep, ThreadStep, WritesStep, VisitStep, OutStep, PrmStep DEF RefInv, IInv
<1>3. RefInv => StoredValuesMatchHost
  <2> SUFFICES ASSUME RefInv, NEW i \in Elems, out[i] # Unwritten
               PROVE  Normalize(out[i].prm, out[i].in) = HostOut[i]
    BY DEF StoredValuesMatchHost
  <2>1. out[i] = HostOperands(launch)[i] /\ launch \in Launches
    BY DEF RefInv, OutInv, IInv, TypeOK
  <2>2. CASE launch = "Spatial"
    <3>1. out[i] = Fma(HostStats("Spatial", i), X[i])
      BY <2>1, <2>2 DEF HostOperands, HostOperandsIn
    <3>2. Normalize(HostStats("Spatial", i), X[i]) = HostOutOf("Spatial")[i]
      BY HostOutValue
    <3> QED BY <2>2, <3>1, <3>2 DEF Fma, HostOut, IsSpatial, Kernel
  <2>3. CASE launch # "Spatial"
    <3>0. launch = "PerActivation"
      BY <2>1, <2>3, KernelAssumption
    <3>1. out[i] = Fma(HostStats("PerActivation", i), X[i])
      BY <2>1, <3>0 DEF HostOperands, HostOperandsIn
    <3>2. Normalize(HostStats("PerActivation", i), X[i]) = HostOutOf("PerActivation")[i]
      BY HostOutValue
    <3> QED BY <2>3, <3>1, <3>2 DEF Fma, HostOut, IsSpatial, Kernel
  <2> QED BY <2>2, <2>3
<1> QED BY <1>1, <1>2, <1>3, PTL DEF Spec
=============================================================================
