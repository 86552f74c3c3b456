----------------------------- MODULE UnfoldDriver -----------------------------
(***************************************************************************)
(* The shape computation of the Unfold driver (src/driver/unfold_driver.  *)
(* hpp): GetandSetData reads the input lengths and the kernel, stride,    *)
(* padding and dilation lists from the command line and derives the       *)
(* output shape N x (C * P) x L, where P is the kernel volume and L the    *)
(* number of sliding-window positions; AllocateBuffersAndCopy then sizes   *)
(* the host buffers from the descriptors.  The flag values are drawn from *)
(* small sets; buffers are represented by their sizes only.                *)
(***************************************************************************)
EXTENDS Integers, Sequences, FiniteSets

CONSTANTS DimsFlags, KernelFlags, StrideFlags, PadFlags, DilFlags

ASSUME FlagsAssumption ==
  /\ DimsFlags \subseteq Seq(Nat \ {0})
  /\ \A d \in DimsFlags : Len(d) >= 2
  /\ \A F \in {KernelFlags, StrideFlags, PadFlags, DilFlags} : F \subseteq Seq(Nat)

\* The product of the entries of a sequence of integers.
SeqProduct(s) ==
  LET p[j \in 0 .. Len(s)] == IF j = 0 THEN 1 ELSE p[j - 1] * s[j]
  IN  p[Len(s)]

\* C++ integer division of a by a positive b: the quotient is truncated
\* toward zero, not rounded down.
CDiv(a, b) == IF a >= 0 THEN a \div b ELSE -((-a) \div b)

UnfoldLengthPaddingSubtracted(d, k, s, p, dl) ==
  CDiv(d - 2 * p - dl * (k - 1) - 1, s) + 1

UnfoldLengthNoOffset(d, k, s, p, dl) ==
  CDiv(d + 2 * p - dl * k - 1, s) + 1

(***************************************************************************)
(* The length l of one spatial dimension of the output, as the loop of    *)
(* GetandSetData computes it: (len + 2 pad - dil (k - 1) - 1) / stride + 1 *)
(* in int64_t arithmetic.                                                  *)
(***************************************************************************)
UnfoldLength(d, k, s, p, dl) ==
  CDiv(d + 2 * p - dl * (k - 1) - 1, s) + 1

VARIABLES phase, inLen, kernel, strd, pad, dil, outLen, inSize, outSize
vars == <<phase, inLen, kernel, strd, pad, dil, outLen, inSize, outSize>>

Phases == {"start", "set", "alloc", "fault"}

Init ==
  /\ phase = "start"
  /\ inLen = << >> /\ kernel = << >> /\ strd = << >> /\ pad = << >> /\ dil = << >>
  /\ outLen = << >>
  /\ inSize = 0 /\ outSize = 0

\* The loop reads element i of every list for each spatial dimension i and
\* divides by the stride: a shorter list or a zero stride is undefined
\* behaviour, modelled as the fault phase.
ParamsDefined(d, k, s, p, dl) ==
  LET sp == Len(d) - 2
  IN  /\ \A l \in {k, s, p, dl} : Len(l) >= sp
      /\ \A i \in 1 .. sp : s[i] # 0

(***************************************************************************)
(* GetandSetData: N and C are the first two lengths; for each spatial     *)
(* dimension P is multiplied by the kernel size and L by the output       *)
(* length; the output descriptor gets the lengths {N, C * P, L}.          *)
(***************************************************************************)
GetandSetData ==
  /\ phase = "start"
  /\ \E d \in DimsFlags, k \in KernelFlags, s \in StrideFlags, p \in PadFlags, dl \in DilFlags :
       /\ inLen' = d /\ kernel' = k /\ strd' = s /\ pad' = p /\ dil' = dl
       /\ IF ParamsDefined(d, k, s, p, dl)
          THEN LET sp == Len(d) - 2
                   ls == [i \in 1 .. sp |->
                            UnfoldLength(d[i + 2], k[i], s[i], p[i], dl[i])]
                   P  == SeqProduct([i \in 1 .. sp |-> k[i]])
               IN  /\ outLen' = <<d[1], d[2] * P, SeqProduct(ls)>>
                   /\ phase' = "set"
          ELSE /\ outLen' = << >>
               /\ phase' = "fault"
  /\ UNCHANGED <<inSize, outSize>>

\* AllocateBuffersAndCopy: the host and device buffers take the element
\* counts of the input and output descriptors.
AllocateBuffersAndCopy ==
  /\ phase = "set"
  /\ inSize' = SeqProduct(inLen)
  /\ outSize' = SeqProduct(outLen)
  /\ phase' = "alloc"
  /\ UNCHANGED <<inLen, kernel, strd, pad, dil, outLen>>

Next == GetandSetData \/ AllocateBuffersAndCopy

Spec == Init /\ [][Next]_vars

-----------------------------------------------------------------------------
(* Reference: the number of positions q >= 0 at which a window of k      *)
(* taps spaced dl apart, starting at q * s, fits inside the padded length *)
(* d + 2p.                                                                 *)
Windows(d, k, s, p, dl) ==
  Cardinality({q \in 0 .. d + 2 * p : q * s + dl * (k - 1) <= d + 2 * p - 1})

\* The type invariant: the computed shape and the buffer sizes are natural
\* numbers (the sizes are size_t in the code).
TypeOK ==
  /\ phase \in Phases
  /\ outLen \in Seq(Int)
  /\ phase \in {"set", "alloc"} => outLen \in Seq(Nat) /\ Len(outLen) = 3
  /\ inSize \in Nat /\ outSize \in Nat

(***************************************************************************)
(* The output shape GetandSetData sets counts exactly the sliding-window  *)
(* positions of every spatial dimension: L is the product over the        *)
(* dimensions of the number of windows that fit in the padded input, so   *)
(* that the unfold kernels and the CPU reference address L columns.      *)
(***************************************************************************)
OutputShapeCountsWindows ==
  phase \in {"set", "alloc"} =>
    LET sp == Len(inLen) - 2
    IN  outLen[3] = SeqProduct([i \in 1 .. sp |->
                      Windows(inLen[i + 2], kernel[i], strd[i], pad[i], dil[i])])
=============================================================================
