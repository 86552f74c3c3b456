------------------------- MODULE BNInferKernelProofs -------------------------
(***************************************************************************)
(* Theorems about the batch-norm inference kernels, for every tensor      *)
(* shape and every launch grid.  A launch whose grid fits the tensor      *)
(* (GridFitsTensor) has no write-write race and no store outside out.    *)
(***************************************************************************)
EXTENDS BNInferKernel, ExactRealProofs, FiniteSetTheorems, TLAPS

(***************************************************************************)
(* The launch geometry the kernels rely on: batchStride is C * imageDims, *)
(* the spatial kernel has at most one x-thread per channel, and the per-  *)
(* activation kernel one x-block of one thread per channel.  The          *)
(* launcher that picks the grid is not in the repository.                *)
(***************************************************************************)
GridFitsTensor ==
  /\ BatchStride = Channels * ImageDims
  /\ "Spatial" \in Launches => GridX * BlockX <= Channels
  /\ "PerActivation" \in Launches => BlockX = 1 /\ GridX <= Channels

\* Thread t visits position j of batch b: j is on its grid-stride loop
\* and below imageDims.
Covers(t, e) ==
  \E b \in 0 .. BatchSize - 1, k \in Nat :
    /\ YIdx(t) + k * YStride < ImageDims
    /\ e = OutIndex(t, YIdx(t) + k * YStride, b)

\* Each thread's counter is on its grid-stride loop, and below imageDims
\* inside the batch loop.
ThreadInv ==
  \A t \in Threads :
    /\ \E k \in Nat : idx[t] = YIdx(t) + k * YStride
    /\ pc[t] = "inner" => idx[t] < ImageDims
    /\ pc[t] = "load" /\ ~IsSpatial => idx[t] < ImageDims

\* No stray store, and every writer of an element visits it.
WritesInv == ~stray /\ \A e \in Elems : \A t \in writers[e] : Covers(t, e)

IInv == TypeOK /\ ThreadInv /\ WritesInv

-----------------------------------------------------------------------------
\* A mixed-radix number has one digit decomposition.
LEMMA DigitsUnique ==
  ASSUME NEW r \in Nat \ {0}, NEW g1 \in 0 .. r - 1, NEW g2 \in 0 .. r - 1,
         NEW k1 \in Nat, NEW k2 \in Nat, g1 + k1 * r = g2 + k2 * r
  PROVE  g1 = g2 /\ k1 = k2
BY Z3

\* ... and its low digits stay below the radix product.
LEMMA DigitsBound ==
  ASSUME NEW m \in Nat \ {0}, NEW r \in Nat \ {0}, NEW c \in 0 .. m - 1,
         NEW j \in 0 .. r - 1
  PROVE  c * r + j \in 0 .. m * r - 1
BY Z3

LEMMA StrideNext ==
  ASSUME NEW y \in Nat, NEW s \in Nat, NEW k \in Nat
  PROVE  y + k * s + s = y + (k + 1) * s
BY Z3

\* The shape constants, as ShapeAssumption gives them.
LEMMA ShapeFacts ==
  /\ BatchSize \in Nat \ {0} /\ Channels \in Nat \ {0} /\ ImageDims \in Nat \ {0}
  /\ GridX \in Nat \ {0} /\ BlockX \in Nat \ {0}
  /\ GridY \in Nat \ {0} /\ BlockY \in Nat \ {0}
  /\ BatchStride \in Nat
  /\ YStride \in Nat \ {0}
<1>1. /\ BatchSize \in Nat \ {0} /\ Channels \in Nat \ {0} /\ ImageDims \in Nat \ {0}
      /\ GridX \in Nat \ {0} /\ BlockX \in Nat \ {0}
      /\ GridY \in Nat \ {0} /\ BlockY \in Nat \ {0}
      /\ BatchStride \in Nat
  BY ShapeAssumption
<1> QED BY <1>1, Z3 DEF YStride

\* The coordinates of a thread, and its y index below the y stride.
LEMMA ThreadFacts ==
  ASSUME NEW t \in Threads
  PROVE  /\ t = <<t[1], t[2], t[3], t[4]>>
         /\ t[1] \in 0 .. GridX - 1 /\ t[2] \in 0 .. BlockX - 1
         /\ t[3] \in 0 .. GridY - 1 /\ t[4] \in 0 .. BlockY - 1
         /\ YIdx(t) \in 0 .. YStride - 1
<1>1. /\ t = <<t[1], t[2], t[3], t[4]>>
      /\ t[1] \in 0 .. GridX - 1 /\ t[2] \in 0 .. BlockX - 1
      /\ t[3] \in 0 .. GridY - 1 /\ t[4] \in 0 .. BlockY - 1
  BY DEF Threads
<1>2. YIdx(t) \in 0 .. YStride - 1
  BY <1>1, ShapeFacts, DigitsBound DEF YIdx, YStride
<1> QED BY <1>1, <1>2

\* A thread of a launch whose grid fits the tensor works on a channel.
LEMMA ChanBound ==
  ASSUME GridFitsTensor, launch \in Launches, NEW t \in Threads
  PROVE  Chan(t) \in 0 .. Channels - 1
<1>1. CASE launch = "Spatial"
  <2>1. t[1] * BlockX + t[2] \in 0 .. GridX * BlockX - 1
    BY ThreadFacts, ShapeFacts, DigitsBound
  <2> QED BY <1>1, <2>1, ShapeFacts DEF GridFitsTensor, Chan, IsSpatial, Kernel
<1>2. CASE launch # "Spatial"
  <2>1. launch = "PerActivation"
    BY <1>2, KernelAssumption
  <2> QED BY <1>2, <2>1, ThreadFacts, ShapeFacts DEF GridFitsTensor, Chan, IsSpatial, Kernel
<1> QED BY <1>1, <1>2

\* The element a thread stores for position j < imageDims of batch b < N
\* is one of the tensor's, and its digits are b, the channel and j.
LEMMA OutIndexDigits ==
  ASSUME GridFitsTensor, launch \in Launches, NEW t \in Threads,
         NEW j \in 0 .. ImageDims - 1, NEW b \in 0 .. BatchSize - 1
  PROVE  /\ OutIndex(t, j, b) = (Chan(t) * ImageDims + j) + b * (Channels * ImageDims)
         /\ Chan(t) * ImageDims + j \in 0 .. Channels * ImageDims - 1
         /\ OutIndex(t, j, b) \in Elems
<1>1. Chan(t) \in 0 .. Channels - 1
  BY ChanBound
<1>2. Chan(t) * ImageDims + j \in 0 .. Channels * ImageDims - 1
  BY <1>1, ShapeFacts, DigitsBound
<1>3. OutIndex(t, j, b) = (Chan(t) * ImageDims + j) + b * (Channels * ImageDims)
  BY <1>1, ShapeFacts DEF OutIndex, GridFitsTensor
<1>4. Channels * ImageDims \in Nat \ {0}
  BY ShapeFacts
<1>5. b * (Channels * ImageDims) + (Chan(t) * ImageDims + j)
        \in 0 .. BatchSize * (Channels * ImageDims) - 1
  BY <1>2, <1>4, ShapeFacts, DigitsBound
<1> QED BY <1>2, <1>3, <1>5, ShapeFacts DEF Elems

\* Two threads of a launch that fits the tensor never visit one element.
LEMMA CoversUnique ==
  ASSUME GridFitsTensor, launch \in Launches, NEW t1 \in Threads, NEW t2 \in Threads,
         NEW e, Covers(t1, e), Covers(t2, e)
  PROVE  t1 = t2
<1>1. PICK b1 \in 0 .. BatchSize - 1, k1 \in Nat :
             /\ YIdx(t1) + k1 * YStride < ImageDims
             /\ e = OutIndex(t1, YIdx(t1) + k1 * YStride, b1)
  BY DEF Covers
<1>2. PICK b2 \in 0 .. BatchSize - 1, k2 \in Nat :
             /\ YIdx(t2) + k2 * YStride < ImageDims
             /\ e = OutIndex(t2, YIdx(t2) + k2 * YStride, b2)
  BY DEF Covers
<1> DEFINE j1 == YIdx(t1) + k1 * YStride
           j2 == YIdx(t2) + k2 * YStride
<1>3. j1 \in 0 .. ImageDims - 1 /\ j2 \in 0 .. ImageDims - 1
  BY <1>1, <1>2, ThreadFacts, ShapeFacts
<1>4. Chan(t1) * ImageDims + j1 = Chan(t2) * ImageDims + j2
  <2> DEFINE g1 == Chan(t1) * ImageDims + j1
             g2 == Chan(t2) * ImageDims + j2
             r  == Channels * ImageDims
  <2>1. e = g1 + b1 * r /\ g1 \in 0 .. r - 1
    BY <1>1, <1>3, OutIndexDigits
  <2>2. e = g2 + b2 * r /\ g2 \in 0 .. r - 1
    BY <1>2, <1>3, OutIndexDigits
  <2>3. r \in Nat \ {0} /\ b1 \in Nat /\ b2 \in Nat
    BY ShapeFacts
  <2> HIDE DEF g1, g2, r
  <2>4. g1 = g2
    BY <2>1, <2>2, <2>3, DigitsUnique
  <2> QED BY <2>4 DEF g1, g2
<1>5. j1 = j2 /\ Chan(t1) = Chan(t2)
  <2> DEFINE c1 == Chan(t1)
             c2 == Chan(t2)
  <2>1. c1 \in 0 .. Channels - 1 /\ c2 \in 0 .. Channels - 1
    BY ChanBound
  <2>2. j1 + c1 * ImageDims = j2 + c2 * ImageDims
    BY <1>3, <1>4, <2>1, ShapeFacts DEF c1, c2
  <2>3. ImageDims \in Nat \ {0} /\ c1 \in Nat /\ c2 \in Nat
    BY <2>1, ShapeFacts
  <2> HIDE DEF c1, c2, j1, j2
  <2>4. j1 = j2 /\ c1 = c2
    BY <1>3, <2>2, <2>3, DigitsUnique
  <2> QED BY <2>4 DEF c1, c2
<1>6. YIdx(t1) = YIdx(t2)
  <2> DEFINE y1 == YIdx(t1)
             y2 == YIdx(t2)
  <2>1. y1 \in 0 .. YStride - 1 /\ y2 \in 0 .. YStride - 1
    BY ThreadFacts
  <2>2. y1 + k1 * YStride = y2 + k2 * YStride
    BY <1>5 DEF y1, y2, j1, j2
  <2> HIDE DEF y1, y2
  <2>3. y1 = y2
    BY <2>1, <2>2, ShapeFacts, DigitsUnique
  <2> QED BY <2>3 DEF y1, y2
<1>7. t1[3] = t2[3] /\ t1[4] = t2[4]
  BY <1>6, ThreadFacts, ShapeFacts, DigitsUnique DEF YIdx
<1>8. t1[1] = t2[1] /\ t1[2] = t2[2]
  <2>1. CASE launch = "Spatial"
    BY <1>5, <2>1, ThreadFacts, ShapeFacts, DigitsUnique DEF Chan, IsSpatial, Kernel
  <2>2. CASE launch # "Spatial"
    <3>1. launch = "PerActivation"
      BY <2>2, KernelAssumption
    <3>2. BlockX = 1
      BY <3>1 DEF GridFitsTensor
    <3> QED BY <1>5, <2>2, <3>2, ThreadFacts DEF Chan, IsSpatial, Kernel
  <2> QED BY <2>1, <2>2
<1> QED BY <1>7, <1>8, ThreadFacts

\* Whatever index a thread loads its statistics from, it gets parameters:
\* the buffers' own entries, or a member of Garbage.
LEMMA LoadedParams ==
  ASSUME launch \in Launches, NEW k
  PROVE  Loaded(k) \subseteq Params
<1>1. StatCells \subseteq StatCellsOf("PerActivation")
  <2>1. Channels <= Channels * ImageDims
    BY ShapeFacts
  <2> QED BY <2>1, ShapeFacts, KernelAssumption DEF StatCells, StatCellsOf, Kernel
<1>2. CASE k \in StatCells
  BY <1>1, <1>2, InputAssumption DEF Loaded, Params
<1>3. CASE k \notin StatCells
  BY <1>3, InputAssumption DEF Loaded
<1> QED BY <1>2, <1>3

(***************************************************************************)
(* TypeOK is inductive: a thread loads parameters, stores the fma         *)
(* operands of parameters and an input, keeps n within the batch and      *)
(* moves its counter forward by the y stride.                              *)
(***************************************************************************)
LEMMA TypeStep ==
  ASSUME TypeOK, [Next]_vars
  PROVE  TypeOK'
<1>1. CASE UNCHANGED vars
  BY <1>1 DEF TypeOK, vars
<1>2. CASE Next
  <2>1. PICK t \in Threads : Step(t)
    BY <1>2 DEF Next
  <2>2. /\ launch \in Launches /\ idx[t] \in Nat /\ n[t] \in 0 .. BatchSize
        /\ prm[t] \in Params
    BY DEF TypeOK
  <2>3. CASE Test(t)
    BY <2>3 DEF Test, TypeOK
  <2>4. CASE Load(t)
    <3>1. PICK p \in Loaded(StatIndex(t, idx[t])) : prm' = [prm EXCEPT ![t] = p]
      BY <2>4 DEF Load
    <3>2. p \in Params
      BY <2>2, LoadedParams
    <3> QED BY <2>4, <3>1, <3>2 DEF Load, TypeOK
  <2>5. CASE Store(t)
    <3> DEFINE i == OutIndex(t, idx[t], n[t])
    <3>1. i \in Elems => Fma(prm[t], X[i]) \in [prm : Params, in : Val]
      BY <2>2, InputAssumption DEF Fma
    <3>2. n[t] + 1 \in 0 .. BatchSize
      BY <2>5, <2>2, ShapeFacts DEF Store
    <3> QED BY <2>5, <3>1, <3>2 DEF Store, TypeOK
  <2>6. CASE Advance(t)
    BY <2>2, <2>6, ShapeFacts DEF Advance, TypeOK
  <2> QED BY <2>1, <2>3, <2>4, <2>5, <2>6 DEF Step
<1> QED BY <1>1, <1>2

(***************************************************************************)
(* ThreadInv is inductive: a counter starts at yidx and grows by the y     *)
(* stride; a thread enters the batch loop, and the per-activation loads,  *)
(* only past the test idx < imageDims.                                    *)
(***************************************************************************)
LEMMA ThreadStep ==
  ASSUME TypeOK, ThreadInv, [Next]_vars
  PROVE  ThreadInv'
<1>1. CASE UNCHANGED vars
  BY <1>1 DEF ThreadInv, vars, IsSpatial, Kernel
<1>2. CASE Next
  <2>1. PICK t \in Threads : Step(t)
    BY <1>2 DEF Next
  <2>2. /\ idx \in [Threads -> Nat] /\ pc \in [Threads -> {"load", "test", "inner", "done"}]
        /\ UNCHANGED launch
    BY <2>1 DEF TypeOK, Step, Test, Load, Store, Advance
  <2>3. \A u \in Threads : u # t => pc'[u] = pc[u] /\ idx'[u] = idx[u]
    BY <2>1, <2>2 DEF Step, Test, Load, Store, Advance
  <2>4. SUFFICES ASSUME NEW u \in Threads
                 PROVE  /\ \E k \in Nat : idx'[u] = YIdx(u) + k * YStride
                        /\ pc'[u] = "inner" => idx'[u] < ImageDims
                        /\ pc'[u] = "load" /\ ~IsSpatial => idx'[u] < ImageDims
    BY <2>2 DEF ThreadInv, IsSpatial, Kernel
  <2>5. CASE u # t
    BY <2>3, <2>5 DEF ThreadInv
  <2>6. CASE u = t
    <3>1. CASE Test(t) \/ Load(t) \/ Store(t)
      <4>1. idx'[t] = idx[t]
        BY <2>2, <3>1 DEF Test, Load, Store
      <4>2. /\ pc'[t] = "inner" => idx[t] < ImageDims
            /\ pc'[t] = "load" /\ ~IsSpatial => idx[t] < ImageDims
        <5>1. CASE Test(t)
          BY <2>2, <5>1 DEF Test
        <5>2. CASE Load(t)
          BY <2>2, <5>2 DEF Load, ThreadInv
        <5>3. CASE Store(t)
          BY <2>2, <5>3 DEF Store, ThreadInv
        <5> QED BY <3>1, <5>1, <5>2, <5>3
      <4>3. \E k \in Nat : idx[t] = YIdx(t) + k * YStride
        BY DEF ThreadInv
      <4> QED BY <2>6, <4>1, <4>2, <4>3
    <3>2. CASE Advance(t)
      <4>1. PICK k \in Nat : idx[t] = YIdx(t) + k * YStride
        BY DEF ThreadInv
      <4>2. YIdx(t) \in Nat /\ YStride \in Nat
        BY ThreadFacts, ShapeFacts
      <4>3. idx'[t] = YIdx(t) + (k + 1) * YStride
        BY <2>2, <3>2, <4>1, <4>2, StrideNext DEF Advance
      <4>4. pc'[t] = "test" /\ k + 1 \in Nat
        BY <2>2, <3>2 DEF Advance
      <4> QED BY <2>6, <4>3, <4>4
    <3> QED BY <2>1, <3>1, <3>2 DEF Step
  <2> QED BY <2>5, <2>6
<1> QED BY <1>1, <1>2

\* Which elements a thread visits depends on the launch only.
LEMMA CoversUnchanged ==
  ASSUME launch' = launch, NEW u, NEW e
  PROVE  Covers(u, e)' = Covers(u, e)
BY DEF Covers, OutIndex, Chan, YIdx, YStride, IsSpatial, Kernel

(***************************************************************************)
(* WritesInv is inductive for launches that fit the tensor: a thread      *)
(* stores element OutIndex(t, idx, n) with idx < imageDims on its loop    *)
(* and n < batchSize, which lies in the tensor and which it visits.       *)
(***************************************************************************)
LEMMA WritesStep ==
  ASSUME IInv, [Next]_vars, GridFitsTensor
  PROVE  WritesInv'
<1>1. CASE UNCHANGED vars
  <2>1. launch' = launch /\ UNCHANGED <<writers, stray>>
    BY <1>1 DEF vars
  <2> QED BY <2>1, CoversUnchanged DEF WritesInv, IInv
<1>2. CASE Next
  <2>1. PICK t \in Threads : Step(t)
    BY <1>2 DEF Next
  <2>2. /\ launch \in Launches /\ TypeOK /\ ThreadInv /\ WritesInv
        /\ writers \in [Elems -> SUBSET Threads]
    BY DEF IInv, TypeOK
  <2>3. CASE Test(t) \/ Load(t) \/ Advance(t)
    <3>1. launch' = launch /\ UNCHANGED <<writers, stray>>
      BY <2>3 DEF Test, Load, Advance
    <3> QED BY <2>2, <3>1, CoversUnchanged DEF WritesInv
  <2>4. CASE Store(t)
    <3> DEFINE i == OutIndex(t, idx[t], n[t])
    <3>1. /\ pc[t] = "inner" /\ n[t] \in 0 .. BatchSize - 1
          /\ idx[t] \in 0 .. ImageDims - 1
      BY <2>2, <2>4, ShapeFacts DEF Store, TypeOK, ThreadInv
    <3>2. i \in Elems
      BY <2>2, <3>1, OutIndexDigits
    <3>3. Covers(t, i)
      <4>1. PICK k \in Nat : idx[t] = YIdx(t) + k * YStride
        BY <2>2 DEF ThreadInv
      <4>2. /\ YIdx(t) + k * YStride < ImageDims
            /\ i = OutIndex(t, YIdx(t) + k * YStride, n[t])
        BY <3>1, <4>1, ShapeFacts DEF i
      <4>3. \E b \in 0 .. BatchSize - 1, kk \in Nat :
              /\ YIdx(t) + kk * YStride < ImageDims
              /\ i = OutIndex(t, YIdx(t) + kk * YStride, b)
        BY <3>1, <4>2, Zenon
      <4> QED BY <4>3 DEF Covers
    <3>4. /\ writers' = [writers EXCEPT ![i] = writers[i] \cup {t}]
          /\ stray' = stray /\ launch' = launch
      <4>1. /\ writers' = IF i \in Elems
                            THEN [writers EXCEPT ![i] = writers[i] \cup {t}]
                            ELSE writers
            /\ stray' = (stray \/ i \notin Elems)
            /\ launch' = launch
        BY <2>4 DEF Store, i
      <4> QED BY <2>2, <3>2, <4>1 DEF TypeOK
    <3>5. ASSUME NEW e \in Elems, NEW u \in writers'[e]
          PROVE  Covers(u, e)
      <4>1. CASE e = i
        BY <2>2, <3>3, <3>4, <4>1 DEF WritesInv
      <4>2. CASE e # i
        BY <2>2, <3>4, <4>2 DEF WritesInv
      <4> QED BY <4>1, <4>2
    <3> QED BY <2>2, <3>4, <3>5, CoversUnchanged DEF WritesInv
  <2> QED BY <2>1, <2>3, <2>4 DEF Step
<1> QED BY <1>1, <1>2

\* Every thread starts at the top of its body with its counter at yidx,
\* out unwritten.
LEMMA InitInv ==
  ASSUME Init
  PROVE  IInv
<1>1. launch \in Launches
  BY DEF Init
<1>2. TypeOK
  <2>1. \A t \in Threads : YIdx(t) \in Nat
    BY ThreadFacts
  <2>2. Zero \in Val
    BY LitVal DEF Zero
  <2>3. NoParams \in Params
    BY <2>2 DEF NoParams, Params
  <2>4. /\ pc \in [Threads -> {"load", "test", "inner", "done"}]
        /\ idx \in [Threads -> Nat]
        /\ n \in [Threads -> 0 .. BatchSize]
        /\ prm \in [Threads -> Params]
    BY <2>1, <2>3, ShapeFacts DEF Init
  <2>5. /\ out \in [Elems -> [prm : Params, in : Val] \cup {Unwritten}]
        /\ writers \in [Elems -> SUBSET Threads]
        /\ stray \in BOOLEAN
    BY DEF Init
  <2> QED BY <1>1, <2>4, <2>5 DEF TypeOK
<1>3. ThreadInv
  <2>1. \A t \in Threads : YIdx(t) = YIdx(t) + 0 * YStride
    BY ThreadFacts, ShapeFacts
  <2> QED BY <2>1 DEF Init, ThreadInv, IsSpatial, Kernel
<1>4. WritesInv
  BY DEF Init, WritesInv
<1> QED BY <1>2, <1>3, <1>4 DEF IInv

\* A set inside a singleton has at most one element.
LEMMA OneWriter ==
  ASSUME NEW S, NEW o, S \subseteq {o}
  PROVE  Cardinality(S) <= 1
<1>1. IsFiniteSet({o}) /\ Cardinality({o}) = 1
  BY FS_Singleton
<1>2. Cardinality(S) <= Cardinality({o})
  BY <1>1, FS_Subset
<1> QED BY <1>1, <1>2

\* For a launch that fits the tensor, the writers recorded by WritesInv
\* are never two threads: every writer of e covers e, and e names its
\* covering thread uniquely.
LEMMA WritesRaceFree ==
  ASSUME IInv, GridFitsTensor
  PROVE  NoRacingStores
<1>1. /\ launch \in Launches /\ ~stray
      /\ writers \in [Elems -> SUBSET Threads]
      /\ \A e \in Elems : \A t \in writers[e] : Covers(t, e)
  BY DEF IInv, TypeOK, WritesInv
<1>2. ASSUME NEW e \in Elems
      PROVE  Cardinality(writers[e]) <= 1
  <2>1. CASE writers[e] = {}
    BY <2>1, FS_EmptySet
  <2>2. CASE writers[e] # {}
    <3>1. PICK u \in writers[e] : TRUE
      BY <2>2
    <3>2. writers[e] \subseteq {u}
      BY <1>1, <3>1, CoversUnique
    <3> QED BY <3>2, OneWriter
  <2> QED BY <2>1, <2>2
<1> QED BY <1>1, <1>2 DEF NoRacingStores

(***************************************************************************)
(* Every reachable state of the batch-norm inference kernels is well      *)
(* typed, whatever the launch geometry: thread counters stay naturals,    *)
(* per-thread batch counters stay within 0..batchSize, and every stored   *)
(* element holds an fma of loaded parameters and an input value.          *)
(***************************************************************************)
THEOREM TypeCorrect == Spec => []TypeOK
<1>1. Init => TypeOK
  BY InitInv DEF IInv
<1>2. TypeOK /\ [Next]_vars => TypeOK'
  BY TypeStep
<1> QED BY <1>1, <1>2, PTL DEF Spec

(***************************************************************************)
(* The spatial and per-activation inference kernels never store the same  *)
(* output element from two threads and never store outside the tensor,    *)
(* in every interleaving, for every launch that fits the tensor           *)
(* (GridFitsTensor: batchStride = c*imageDims, the spatial grid has at     *)
(* most c x-threads, the per-activation grid one thread per x-block and   *)
(* at most c blocks).  A thread's stores are OutIndex(t, yidx + k*ystride, *)
(* n) with yidx < ystride, so the mixed-radix digits of the element name  *)
(* the thread.                                                            *)
(***************************************************************************)
THEOREM RaceFree ==
  ASSUME GridFitsTensor
  PROVE  Spec => []NoRacingStores
<1>1. Init => IInv
  BY InitInv
<1>2. IInv /\ [Next]_vars => IInv'
  BY TypeStep, ThreadStep, WritesStep DEF IInv
<1>3. IInv => NoRacingStores
  BY WritesRaceFree
<1> QED BY <1>1, <1>2, <1>3, PTL DEF Spec
=============================================================================
