------------------------- MODULE NLLLossDriverProofs -------------------------
(***************************************************************************)
(* Proofs about the NLLLoss driver: the class targets it draws index the  *)
(* input's class dimension and the weights, and the unreduced forward     *)
(* launch spans exactly the output.  Both rest on the shapes that         *)
(* GetandSetData derives staying as it set them for the rest of the run.  *)
(* The products of lengths that appear here have one or three factors;   *)
(* Product is a recursive function, unfolded for those lengths only.      *)
(***************************************************************************)
EXTENDS NLLLossDriver, SequenceTheorems, TLAPS

\* Once GetandSetData succeeded, the shapes are those it derived from the
\* input lengths and the reduction.
ShapesSet ==
  phase \in {"set", "failed", "alloc"} =>
    /\ reduction \in {"none", "mean", "sum"}
    /\ inLen \in Seq(Nat \ {0}) /\ Len(inLen) >= 2
    /\ targetLen = TargetLen(inLen) /\ weightLen = WeightLen(inLen)
    /\ outLen = IF reduction = "none" THEN targetLen ELSE <<1>>
    /\ divisor = Divisor(reduction, targetLen)

\* The targets are drawn once, from the weight indices.
TargetsDrawn ==
  phase = "alloc" =>
    target \in [0 .. Product(targetLen) - 1 -> 0 .. Product(weightLen) - 1]

\* The launch is recorded only by an unreduced forward call on a 4-d input,
\* after the buffers are allocated, and it is the launch of that problem.
LaunchRecorded ==
  launch # NoLaunch =>
    /\ phase = "alloc" /\ divisor = NaN /\ Len(inLen) = 4
    /\ launch = ForwardLaunch(inLen, outLen)

NInv ==
  /\ phase \in Phases
  /\ ShapesSet /\ TargetsDrawn /\ LaunchRecorded

-----------------------------------------------------------------------------
(***************************************************************************)
(* Product unfolded at the two lengths the driver's shapes give it: the  *)
(* weight lengths {C} and the target lengths {N, D1, D2} of a 4-d input.  *)
(* The recursive function is a CHOOSE over its defining equation; a       *)
(* witness shows that a solution exists, and any solution has these      *)
(* values at the end.                                                     *)
(***************************************************************************)
LEMMA ProductOne ==
  ASSUME NEW a \in Int
  PROVE  Product(<<a>>) = a
<1> DEFINE s == <<a>>
           Eq(p) == p = [j \in 0 .. Len(s) |-> IF j = 0 THEN 1 ELSE p[j - 1] * s[j]]
           w == [j \in 0 .. 1 |-> IF j = 0 THEN 1 ELSE a]
<1>1. Eq(w)
  BY DEF Eq, s, w
<1>2. Eq(CHOOSE p : Eq(p))
  BY <1>1, Zenon
<1>3. Product(s) = (CHOOSE p : Eq(p))[Len(s)]
  BY DEF Product, Eq
<1> HIDE DEF s
<1>4. \A p : Eq(p) => p[1] = a
  BY DEF Eq, s
<1> QED BY <1>2, <1>3, <1>4 DEF s

LEMMA ProductThree ==
  ASSUME NEW a \in Int, NEW b \in Int, NEW c \in Int
  PROVE  Product(<<a, b, c>>) = a * b * c
<1> DEFINE s == <<a, b, c>>
           Eq(p) == p = [j \in 0 .. Len(s) |-> IF j = 0 THEN 1 ELSE p[j - 1] * s[j]]
           w == [j \in 0 .. 3 |-> IF j = 0 THEN 1 ELSE IF j = 1 THEN a
                                  ELSE IF j = 2 THEN a * b ELSE a * b * c]
<1>1. Eq(w)
  BY DEF Eq, s, w
<1>2. Eq(CHOOSE p : Eq(p))
  BY <1>1, Zenon
<1>3. Product(s) = (CHOOSE p : Eq(p))[Len(s)]
  BY DEF Product, Eq
<1> HIDE DEF s
<1>4. \A p : Eq(p) => p[3] = a * b * c
  BY DEF Eq, s
<1> QED BY <1>2, <1>3, <1>4 DEF s

\* target_len of a 4-d input {N, C, D1, D2} is {N, D1, D2}.
LEMMA TargetLenFour ==
  ASSUME NEW d \in Seq(Nat \ {0}), Len(d) = 4
  PROVE  TargetLen(d) = <<d[1], d[3], d[4]>>
<1> DEFINE S == Nat \ {0}
           u == SubSeq(d, 1, 1)
           v == SubSeq(d, 3, 4)
<1>1. \A i \in 1 .. 4 : d[i] \in S
  BY ElementOfSeq
<1>2. u \in Seq(S) /\ Len(u) = 1 /\ u[1] = d[1]
  <2>1. \A i \in 1 .. 1 : d[i] \in S
    BY <1>1
  <2> QED BY <2>1, SubSeqProperties DEF u
<1>3. v \in Seq(S) /\ Len(v) = 2 /\ v[1] = d[3] /\ v[2] = d[4]
  <2>1. \A i \in 3 .. 4 : d[i] \in S
    BY <1>1
  <2> QED BY <2>1, SubSeqProperties DEF v
<1>4. /\ u \o v \in Seq(S) /\ Len(u \o v) = 3
      /\ (u \o v)[1] = d[1] /\ (u \o v)[2] = d[3] /\ (u \o v)[3] = d[4]
  BY <1>2, <1>3, ConcatProperties
<1>5. <<d[1], d[3], d[4]>> \in Seq(S)
  BY <1>1
<1> HIDE DEF u, v
<1>6. \A i \in 1 .. Len(u \o v) : (u \o v)[i] = <<d[1], d[3], d[4]>>[i]
  <2> SUFFICES ASSUME NEW i \in 1 .. 3 PROVE (u \o v)[i] = <<d[1], d[3], d[4]>>[i]
    BY <1>4
  <2>1. i = 1 \/ i = 2 \/ i = 3
    OBVIOUS
  <2>2. CASE i = 1
    BY <1>4, <2>2
  <2>3. CASE i = 2
    BY <1>4, <2>3
  <2>4. CASE i = 3
    BY <1>4, <2>4
  <2> QED BY <2>1, <2>2, <2>3, <2>4
<1>7. u \o v = <<d[1], d[3], d[4]>>
  <2>1. Len(u \o v) = Len(<<d[1], d[3], d[4]>>)
    BY <1>4
  <2> QED BY <1>4, <1>5, <1>6, <2>1, SeqEqual
<1> QED BY <1>7 DEF TargetLen, u, v

\* The shapes of a 4-d problem: one weight per class, the target and an
\* unreduced output of N * D1 * D2 elements.
LEMMA ShapeProducts ==
  ASSUME NEW d \in Seq(Nat \ {0}), Len(d) >= 2
  PROVE  /\ Product(WeightLen(d)) = d[2]
         /\ Len(d) = 4 => Product(TargetLen(d)) = d[1] * d[3] * d[4]
<1>1. Product(WeightLen(d)) = d[2]
  BY ProductOne DEF WeightLen
<1>2. Len(d) = 4 => Product(TargetLen(d)) = d[1] * d[3] * d[4]
  <2> HAVE Len(d) = 4
  <2>1. TargetLen(d) = <<d[1], d[3], d[4]>>
    BY TargetLenFour
  <2>2. \A i \in 1 .. 4 : d[i] \in Nat \ {0}
    BY ElementOfSeq
  <2>3. Product(<<d[1], d[3], d[4]>>) = d[1] * d[3] * d[4]
    BY <2>2, ProductThree
  <2> QED BY <2>1, <2>3
<1> QED BY <1>1, <1>2

-----------------------------------------------------------------------------
LEMMA InitN ==
  ASSUME Init
  PROVE  NInv
BY DEF Init, NInv, Phases, ShapesSet, TargetsDrawn, LaunchRecorded

\* Before the buffers are allocated no launch is recorded.
LEMMA NoLaunchBeforeAlloc ==
  ASSUME NInv, phase # "alloc"
  PROVE  launch = NoLaunch
BY DEF NInv, LaunchRecorded

LEMMA NStep ==
  ASSUME NInv, [Next]_vars
  PROVE  NInv'
<1>1. CASE UNCHANGED vars
  BY <1>1 DEF vars, NInv, Phases, ShapesSet, TargetsDrawn, LaunchRecorded
<1>2. CASE GetandSetData
  <2>1. launch = NoLaunch /\ launch' = launch /\ target' = target
    BY <1>2, NoLaunchBeforeAlloc DEF GetandSetData
  <2>2. PICK red \in ReduceFlags, d \in DimsFlags, g \in IgnoreFlags, c \in ContigFlags :
          \/ /\ red \notin {"none", "mean", "sum"}
             /\ phase' = "invalid"
          \/ /\ red \in {"none", "mean", "sum"} /\ Len(d) = 1
             /\ phase' = "fault"
          \/ /\ red \in {"none", "mean", "sum"} /\ Len(d) >= 2
             /\ phase' = "set" /\ reduction' = red /\ inLen' = d
             /\ targetLen' = TargetLen(d)
             /\ weightLen' = WeightLen(d)
             /\ outLen' = IF red = "none" THEN TargetLen(d) ELSE <<1>>
             /\ divisor' = Divisor(red, TargetLen(d))
    BY <1>2 DEF GetandSetData
  <2>3. d \in Seq(Nat \ {0})
    BY FlagsAssumption
  <2> QED BY <2>1, <2>2, <2>3
          DEF NInv, Phases, ShapesSet, TargetsDrawn, LaunchRecorded
<1>3. CASE AllocateBuffersAndCopy
  <2>1. launch = NoLaunch
    BY <1>3, NoLaunchBeforeAlloc DEF AllocateBuffersAndCopy
  <2> QED BY <1>3, <2>1
          DEF AllocateBuffersAndCopy, NInv, Phases, ShapesSet, TargetsDrawn, LaunchRecorded
<1>4. CASE RunForwardGPU
  BY <1>4 DEF RunForwardGPU, NInv, Phases, ShapesSet, TargetsDrawn, LaunchRecorded
<1>5. CASE \E side \in {"gpu", "cpu"}, dir \in {"fwd", "bwd"} : Run(side, dir)
  BY <1>5 DEF Run, NInv, Phases, ShapesSet, TargetsDrawn, LaunchRecorded
<1> QED BY <1>1, <1>2, <1>3, <1>4, <1>5 DEF Next

(***************************************************************************)
(* Every class target AllocateBuffersAndCopy draws is a class of the      *)
(* input and an index of the weight buffer, for every input shape, every *)
(* reduction and ignore_index: weight_len is {in_len[1]}, so the weight   *)
(* count the targets are drawn below is the class count.                  *)
(***************************************************************************)
THEOREM ClassesInRange == Spec => []ClassIndicesInRange
<1>1. NInv => ClassIndicesInRange
  <2> SUFFICES ASSUME NInv, phase = "alloc"
               PROVE  \A i \in DOMAIN target :
                        /\ target[i] \in 0 .. inLen[2] - 1
                        /\ target[i] \in 0 .. Product(weightLen) - 1
    BY DEF ClassIndicesInRange
  <2>1. /\ inLen \in Seq(Nat \ {0}) /\ Len(inLen) >= 2
        /\ weightLen = WeightLen(inLen)
        /\ target \in [0 .. Product(targetLen) - 1 -> 0 .. Product(weightLen) - 1]
    BY DEF NInv, ShapesSet, TargetsDrawn
  <2>2. Product(weightLen) = inLen[2]
    BY <2>1, ShapeProducts
  <2> QED BY <2>1, <2>2
<1> QED BY InitN, NStep, <1>1, PTL DEF Spec

(***************************************************************************)
(* The unreduced forward launch, whenever RunForwardGPU records one,      *)
(* covers the output: its grid has at least N_total work-items, N_total   *)
(* is the target's element count and the product N * D1 * D2 the kernel  *)
(* decomposes an index by, and C is the weight count.  A reduced problem *)
(* never reaches this launch: its divisor is a number, not NaN.           *)
(***************************************************************************)
THEOREM LaunchMatchesOutput == Spec => []ForwardLaunchMatchesOutput
<1>1. NInv => ForwardLaunchMatchesOutput
  <2> SUFFICES ASSUME NInv, launch # NoLaunch
               PROVE  /\ launch.global >= launch.N_total
                      /\ launch.N_total = Product(targetLen)
                      /\ launch.N_total = inLen[1] * launch.D1 * launch.D2
                      /\ launch.C = Product(weightLen)
    BY DEF ForwardLaunchMatchesOutput
  <2>1. /\ phase = "alloc" /\ divisor = NaN /\ Len(inLen) = 4
        /\ launch = ForwardLaunch(inLen, outLen)
    BY DEF NInv, LaunchRecorded
  <2>2. /\ reduction \in {"none", "mean", "sum"}
        /\ inLen \in Seq(Nat \ {0})
        /\ targetLen = TargetLen(inLen) /\ weightLen = WeightLen(inLen)
        /\ outLen = IF reduction = "none" THEN targetLen ELSE <<1>>
        /\ divisor = Divisor(reduction, targetLen)
    BY <2>1 DEF NInv, ShapesSet
  <2>3. /\ Product(weightLen) = inLen[2]
        /\ Product(targetLen) = inLen[1] * inLen[3] * inLen[4]
    <3>1. Len(inLen) >= 2 /\ Len(inLen) = 4
      BY <2>1
    <3>2. /\ Product(WeightLen(inLen)) = inLen[2]
          /\ Product(TargetLen(inLen)) = inLen[1] * inLen[3] * inLen[4]
      BY <2>2, <3>1, ShapeProducts
    <3> QED BY <2>2, <3>2
  <2>4. \A i \in 1 .. 4 : inLen[i] \in Nat \ {0}
    BY <2>1, <2>2, ElementOfSeq
  \* A mean or sum reduction has a numeric divisor.
  <2>5. reduction = "none"
    <3>1. Divisor(reduction, targetLen) \in Int \/ reduction = "none"
      BY <2>2, <2>3, <2>4 DEF Divisor
    <3> QED BY <2>1, <2>2, <3>1, FlagsAssumption
  <2>6. outLen = targetLen
    BY <2>2, <2>5
  <2> QED BY <2>1, <2>3, <2>4, <2>6 DEF ForwardLaunch, InvokerDims, LOCAL_SIZE
<1> QED BY InitN, NStep, <1>1, PTL DEF Spec
=============================================================================
