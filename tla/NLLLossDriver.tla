---------------------------- MODULE NLLLossDriver ----------------------------
(***************************************************************************)
(* The NLLLoss driver (src/driver/nllloss_driver.hpp) and the forward     *)
(* solver it reaches (src/src/solver/nllloss/forward_nllloss.cpp).        *)
(* GetandSetData derives the target, weight and output descriptors from   *)
(* the input lengths and the reduction; AllocateBuffersAndCopy sizes the  *)
(* buffers and draws the class targets; the four Run functions choose the *)
(* reduced or the unreduced library call.  The unreduced forward call     *)
(* launches NLLLossUnreducedForward4dContiguous with the grid and the     *)
(* arguments that GetSolution and its invoker compute.  Tensor contents   *)
(* other than the targets are not modelled: the host and device loss      *)
(* arithmetic is not in the repository.                                   *)
(***************************************************************************)
EXTENDS Integers, Sequences, FiniteSets

CONSTANTS DimsFlags,      \* -D, the input lengths after std::stoi
          ReduceFlags,    \* -R
          ContigFlags,    \* -c
          IgnoreFlags,    \* -g
          NaN             \* quiet_NaN(), a value no number equals

ASSUME FlagsAssumption ==
  /\ DimsFlags \subseteq Seq(Nat \ {0})
  /\ \A d \in DimsFlags : Len(d) >= 1
  /\ ContigFlags \subseteq Int /\ IgnoreFlags \subseteq Int
  /\ NaN \notin Int

LOCAL_SIZE == 1024

\* The product of the entries of a sequence: the element count of packed
\* lengths.
Product(s) ==
  LET p[j \in 0 .. Len(s)] == IF j = 0 THEN 1 ELSE p[j - 1] * s[j]
  IN  p[Len(s)]

\* Exchange the first and the last entry (std::swap(v.front(), v.back())).
SwapEnds(s) == [s EXCEPT ![1] = s[Len(s)], ![Len(s)] = s[1]]

\* strides.back() = 1; strides[i] = strides[i + 1] * lengths[i + 1].
PackedStrides(l) == [i \in 1 .. Len(l) |-> Product(SubSeq(l, i + 1, Len(l)))]

GetStridesNoSwapBack(l, c) ==
  IF c = 0 THEN PackedStrides(SwapEnds(l)) ELSE PackedStrides(l)

(***************************************************************************)
(* GetStrides: packed strides, except that for contiguous == 0 the first  *)
(* and last lengths are exchanged before and the first and last strides   *)
(* after.  Any other value of the flag only prints an error.              *)
(***************************************************************************)
GetStrides(l, c) ==
  IF c = 0 THEN SwapEnds(PackedStrides(SwapEnds(l))) ELSE PackedStrides(l)

\* target_len: the input lengths without the class dimension.
TargetLen(d) == SubSeq(d, 1, 1) \o SubSeq(d, 3, Len(d))

WeightLenBatchDim(d) == <<d[1]>>

\* weight_len = {in_len[1]}: one weight per class.
WeightLen(d) == <<d[2]>>

DivisorSumUnset(red, tlen) ==
  CASE red = "none" -> NaN
    [] red = "sum"  -> NaN
    [] red = "mean" -> Product(tlen)

\* The divisor that encodes the reduction: NaN for none, 1 for sum and the
\* target element count for mean.
Divisor(red, tlen) ==
  CASE red = "none" -> NaN
    [] red = "sum"  -> 1
    [] red = "mean" -> Product(tlen)

InvokerDimsShifted(d) == [C |-> d[2], D1 |-> d[2], D2 |-> d[3]]

\* The invoker: C, D1, D2 are dims[1], dims[2], dims[3] of the input.
InvokerDims(d) == [C |-> d[2], D1 |-> d[3], D2 |-> d[4]]

(***************************************************************************)
(* GetSolution and its invoker for the unreduced forward problem: a grid  *)
(* of N_total + LOCAL_SIZE - 1 work-items in groups of LOCAL_SIZE, and   *)
(* the kernel arguments N_total (the output element count), C, D1, D2.   *)
(***************************************************************************)
ForwardLaunch(d, olen) ==
  LET k == InvokerDims(d)
  IN  [local |-> LOCAL_SIZE, global |-> Product(olen) + LOCAL_SIZE - 1,
       N_total |-> Product(olen), C |-> k.C, D1 |-> k.D1, D2 |-> k.D2]

VARIABLES phase, reduction, inLen, targetLen, targetStrides, weightLen,
          outLen, divisor, ignoreIndex, target, launch, calls
vars == <<phase, reduction, inLen, targetLen, targetStrides, weightLen,
          outLen, divisor, ignoreIndex, target, launch, calls>>

NoLaunch == [local |-> 0, global |-> 0, N_total |-> 0, C |-> 0, D1 |-> 0, D2 |-> 0]

Init ==
  /\ phase = "start" /\ reduction = "none"
  /\ inLen = << >> /\ targetLen = << >> /\ targetStrides = << >>
  /\ weightLen = << >> /\ outLen = << >>
  /\ divisor = NaN /\ ignoreIndex = 0
  /\ target = << >> /\ launch = NoLaunch /\ calls = {}

(***************************************************************************)
(* GetandSetData: an unknown reduction returns miopenStatusInvalidValue; *)
(* an input of one dimension makes target_len.erase(next(begin)) and      *)
(* in_len[1] undefined, modelled as the fault phase.  Otherwise the       *)
(* target and output take the input lengths without dimension 1 (the     *)
(* output is {1} when reduced) and the target the strides of -c.          *)
(***************************************************************************)
GetandSetData ==
  /\ phase = "start"
  /\ \E red \in ReduceFlags, d \in DimsFlags, g \in IgnoreFlags, c \in ContigFlags :
       \/ /\ red \notin {"none", "mean", "sum"}
          /\ phase' = "invalid"
          /\ UNCHANGED <<reduction, inLen, targetLen, targetStrides, weightLen,
                         outLen, divisor, ignoreIndex>>
       \/ /\ red \in {"none", "mean", "sum"} /\ Len(d) = 1
          /\ phase' = "fault" /\ reduction' = red /\ inLen' = d /\ ignoreIndex' = g
          /\ UNCHANGED <<targetLen, targetStrides, weightLen, outLen, divisor>>
       \/ /\ red \in {"none", "mean", "sum"} /\ Len(d) >= 2
          /\ phase' = "set" /\ reduction' = red /\ inLen' = d /\ ignoreIndex' = g
          /\ targetLen' = TargetLen(d)
          /\ targetStrides' = GetStrides(TargetLen(d), c)
          /\ weightLen' = WeightLen(d)
          /\ outLen' = IF red = "none" THEN TargetLen(d) ELSE <<1>>
          /\ divisor' = Divisor(red, TargetLen(d))
  /\ UNCHANGED <<target, launch, calls>>

(***************************************************************************)
(* AllocateBuffersAndCopy: a reduced problem asks for the workspace size; *)
(* a size of (size_t)-1 from the library returns miopenStatusAllocFailed. *)
(* Otherwise every target element is drawn from [0, weight_sz - 1].  The *)
(* status of the copies to the device is printed, never returned.         *)
(***************************************************************************)
AllocateBuffersAndCopy ==
  /\ phase = "set"
  /\ \/ /\ divisor # NaN
        /\ phase' = "failed"
        /\ UNCHANGED target
     \/ /\ phase' = "alloc"
        /\ target' \in [0 .. Product(targetLen) - 1 -> 0 .. Product(weightLen) - 1]
  /\ UNCHANGED <<reduction, inLen, targetLen, targetStrides, weightLen, outLen,
                 divisor, ignoreIndex, launch, calls>>

\* The call a Run function makes, on the device or on the host: reduced
\* unless divisor is NaN.
Variant(side, dir) == [side |-> side, dir |-> dir, reduced |-> divisor # NaN]

(***************************************************************************)
(* RunForwardGPU: the unreduced call reaches the forward solver, whose    *)
(* kernel reads dims[1..3]: the launch is recorded for 4-d inputs, the    *)
(* problems of the 4d kernel.                                             *)
(***************************************************************************)
RunForwardGPU ==
  /\ phase = "alloc" /\ Variant("gpu", "fwd") \notin calls
  /\ calls' = calls \cup {Variant("gpu", "fwd")}
  /\ launch' = IF divisor = NaN /\ Len(inLen) = 4 THEN ForwardLaunch(inLen, outLen)
                                                     ELSE launch
  /\ UNCHANGED <<phase, reduction, inLen, targetLen, targetStrides, weightLen,
                 outLen, divisor, ignoreIndex, target>>

\* RunBackwardGPU, and RunForwardCPU / RunBackwardCPU that VerifyForward
\* and VerifyBackward call: the reduced or the unreduced function.
Run(side, dir) ==
  /\ phase = "alloc" /\ Variant(side, dir) \notin calls
  /\ calls' = calls \cup {Variant(side, dir)}
  /\ UNCHANGED <<phase, reduction, inLen, targetLen, targetStrides, weightLen,
                 outLen, divisor, ignoreIndex, target, launch>>

Next ==
  \/ GetandSetData \/ AllocateBuffersAndCopy \/ RunForwardGPU
  \/ Run("gpu", "bwd") \/ Run("cpu", "fwd") \/ Run("cpu", "bwd")

Spec == Init /\ [][Next]_vars

-----------------------------------------------------------------------------
Phases == {"start", "invalid", "fault", "set", "failed", "alloc"}

\* The index tuples of a tensor with lengths l, and the offset that the
\* strides s give one of them.
Indices(l) == {f \in [1 .. Len(l) -> 0 .. Product(l)] : \A i \in 1 .. Len(l) : f[i] < l[i]}
Offset(f, s) ==
  LET o[j \in 0 .. Len(s)] == IF j = 0 THEN 0 ELSE o[j - 1] + f[j] * s[j]
  IN  o[Len(s)]

\* The type invariant; the divisor is NaN exactly for reduction none.
TypeOK ==
  /\ phase \in Phases
  /\ reduction \in {"none", "mean", "sum"}
  /\ phase \in {"set", "alloc"} =>
       /\ divisor \in (IF reduction = "none" THEN {NaN} ELSE Nat \ {0})
       /\ targetStrides \in Seq(Nat \ {0}) /\ Len(targetStrides) = Len(targetLen)
  /\ phase = "alloc" => target \in [0 .. Product(targetLen) - 1 -> Int]
  /\ calls \subseteq [side : {"gpu", "cpu"}, dir : {"fwd", "bwd"}, reduced : BOOLEAN]

(***************************************************************************)
(* The strides GetStrides gives the target, for every -c, address each   *)
(* of its target_sz elements exactly once: the offsets of the index       *)
(* tuples (as many as target_sz) are exactly 0 .. target_sz - 1, so the   *)
(* permuted layout of -c 0 neither leaves the target buffer nor aliases.  *)
(***************************************************************************)
TargetLayoutDense ==
  phase \in {"set", "alloc"} =>
    {Offset(f, targetStrides) : f \in Indices(targetLen)} = 0 .. Product(targetLen) - 1

(***************************************************************************)
(* Every target AllocateBuffersAndCopy draws is a class of the input      *)
(* (dimension 1) and an index of the weight buffer, so the loss reads     *)
(* input and weight in bounds whatever ignore_index is.                   *)
(***************************************************************************)
ClassIndicesInRange ==
  phase = "alloc" =>
    \A i \in DOMAIN target :
      /\ target[i] \in 0 .. inLen[2] - 1
      /\ target[i] \in 0 .. Product(weightLen) - 1

(***************************************************************************)
(* The unreduced forward launch gives every output element a work-item,  *)
(* and the kernel's decomposition of an index into (n, d1, d2) by the     *)
(* invoker's D1 and D2 spans exactly N_total, the output of the target's  *)
(* shape, with C the weight count.                                        *)
(***************************************************************************)
ForwardLaunchMatchesOutput ==
  launch # NoLaunch =>
    /\ launch.global >= launch.N_total
    /\ launch.N_total = Product(targetLen)
    /\ launch.N_total = inLen[1] * launch.D1 * launch.D2
    /\ launch.C = Product(weightLen)
=============================================================================
