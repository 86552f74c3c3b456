----------------------------- MODULE WhereDriver -----------------------------
(***************************************************************************)
(* The Where driver of src/driver/where_driver.hpp, on its host side: it  *)
(* reads the three dims flags, checks that they broadcast, derives the    *)
(* output shape, and runs the CPU references the device results are       *)
(* verified against.  Tensor descriptors are packed (SetTensorNd with     *)
(* lengths only), so their strides are the suffix products of lengths.   *)
(* Random data are abstracted to fixed distinct values.                   *)
(***************************************************************************)
EXTENDS Integers, Sequences, Functions, WhereHost

CONSTANTS
  DimsFlags   \* the token sequences a dims flag ("1,4,2,2") may be split into

ASSUME DimsAssumption == DimsFlags \subseteq Seq(Nat)

\* The host buffers filled by AllocateBuffersAndCopy, as functions of the
\* element index: input, other and output_grad distinct, condition 0/1.
InVal(i) == 10 + i
OtherVal(i) == 20 + i
CondVal(i) == (i + 1) % 2
OutGradVal(o) == o + 1

Buffer(val(_), n) == [i \in 0 .. n - 1 |-> val(i)]

(***************************************************************************)
(* GetTensorLengthsFromCmdLine: the numbers of the flag, with every 0     *)
(* dropped; a flag that leaves no number gives the lengths {0}.           *)
(***************************************************************************)
NonZero(x) == x # 0

GetTensorLengthsFromCmdLine(tokens) ==
  LET l == SelectSeq(tokens, NonZero) IN IF l = << >> THEN <<0>> ELSE l

\* SetTensorNd: packed strides.
PackedStrides(len) == [d \in 1 .. Len(len) |-> SuffixProduct(len, Len(len) - d)]

\* The length of dimension i counted from the innermost (i = 0), 1 where
\* the tensor has fewer dimensions.
DimFromEnd(len, i) == IF Len(len) - 1 - i >= 0 THEN len[Len(len) - i] ELSE 1

(***************************************************************************)
(* miopen::isBroadcastable, a library function outside this repository:   *)
(* aligned from the innermost dimension, each pair of lengths is equal or *)
(* one of them is 1.                                                       *)
(***************************************************************************)
IsBroadcastable(x, y) ==
  \A i \in 0 .. (IF Len(x) >= Len(y) THEN Len(x) ELSE Len(y)) - 1 :
    DimFromEnd(x, i) = DimFromEnd(y, i) \/ DimFromEnd(x, i) = 1 \/ DimFromEnd(y, i) = 1

OutLenUnreversed(a, b, c) ==
  LET r == FindMax(Len(a), Len(b), Len(c))
  IN  [k \in 1 .. r |-> FindMax(DimFromEnd(a, k - 1), DimFromEnd(b, k - 1), DimFromEnd(c, k - 1))]

\* out_len: as many dimensions as the longest flag, each the largest of
\* the three aligned lengths.
OutLen(a, b, c) ==
  LET r == FindMax(Len(a), Len(b), Len(c))
  IN  [k \in 1 .. r |-> FindMax(DimFromEnd(a, r - k), DimFromEnd(b, r - k), DimFromEnd(c, r - k))]

ContigSize(len) == CheckBroadcastedContiguous(len, PackedStrides(len))

VARIABLES
  forw,           \* the forw flag: 1 forward only, 0 forward and backward
  phase,          \* how far the driver has got
  inLen, otherLen, condLen, outLen,
  outhost,        \* outhost after RunForwardCPU
  inGradhost,     \* inGradhost after RunBackwardCPU
  otherGradhost   \* otherGradhost after RunBackwardCPU

vars == <<forw, phase, inLen, otherLen, condLen, outLen, outhost, inGradhost, otherGradhost>>

Init ==
  /\ forw \in {0, 1}
  /\ phase = "start"
  /\ inLen = << >> /\ otherLen = << >> /\ condLen = << >> /\ outLen = << >>
  /\ outhost = << >> /\ inGradhost = << >> /\ otherGradhost = << >>

\* GetandSetData: the flags give broadcastable shapes (input with other,
\* other with condition), and the output shape is derived from them.
GetandSetData ==
  /\ phase = "start"
  /\ \E a, b, c \in DimsFlags :
       LET in == GetTensorLengthsFromCmdLine(a)
           ot == GetTensorLengthsFromCmdLine(b)
           cd == GetTensorLengthsFromCmdLine(c)
       IN  /\ inLen' = in /\ otherLen' = ot /\ condLen' = cd
           /\ IF IsBroadcastable(in, ot) /\ IsBroadcastable(ot, cd)
                THEN phase' = "set" /\ outLen' = OutLen(in, ot, cd)
                ELSE phase' = "badparm" /\ outLen' = << >>
  /\ UNCHANGED <<forw, outhost, inGradhost, otherGradhost>>

\* A contiguous size of 0 makes o % size a division by zero (SIGFPE).
Divides(sizes) == NumElems(outLen) = 0 \/ 0 \notin sizes

\* RunForwardCPU, from VerifyForward.
RunForwardCPU ==
  /\ phase = "set"
  /\ IF Divides({ContigSize(inLen), ContigSize(otherLen), ContigSize(condLen)})
       THEN /\ outhost' = HostForward(Buffer(CondVal, NumElems(condLen)),
                                      Buffer(InVal, NumElems(inLen)),
                                      Buffer(OtherVal, NumElems(otherLen)),
                                      ContigSize(condLen), ContigSize(inLen),
                                      ContigSize(otherLen), NumElems(outLen))
            /\ phase' = IF forw = 0 THEN "forward" ELSE "done"
       ELSE phase' = "fault" /\ outhost' = outhost
  /\ UNCHANGED <<forw, inLen, otherLen, condLen, outLen, inGradhost, otherGradhost>>

\* RunBackwardCPU, from VerifyBackward, on zero-filled gradient buffers.
RunBackwardCPU ==
  /\ phase = "forward"
  /\ LET og == Buffer(OutGradVal, NumElems(outLen))
         cd == Buffer(CondVal, NumElems(condLen))
         is == ContigSize(inLen)
         os == ContigSize(otherLen)
         cs == ContigSize(condLen)
     IN  IF Divides({is, os, cs})
           THEN /\ inGradhost' = HostBackwardInput(og, cd, is, cs, NumElems(outLen),
                                   [i \in 0 .. NumElems(inLen) - 1 |-> 0])
                /\ otherGradhost' = HostBackwardOther(og, cd, os, cs, NumElems(outLen),
                                      [i \in 0 .. NumElems(otherLen) - 1 |-> 0])
                /\ phase' = "done"
           ELSE phase' = "fault" /\ UNCHANGED <<inGradhost, otherGradhost>>
  /\ UNCHANGED <<forw, inLen, otherLen, condLen, outLen, outhost>>

Next == GetandSetData \/ RunForwardCPU \/ RunBackwardCPU

Spec == Init /\ [][Next]_vars

(***************************************************************************)
(* Reference definitions, from the meaning of a broadcast select, not     *)
(* from the code.  Output element o has the multi-index whose digit d is  *)
(* (o \div (product of the lengths inside d)) % outLen[d]; an operand     *)
(* aligned from the innermost dimension takes that digit where its length *)
(* is not 1 and 0 where it is.                                             *)
(***************************************************************************)
Digit(out, d, o) == (o \div SuffixProduct(out, Len(out) - d)) % out[d]

OperandIndex(len, out, o) ==
  LET shift == Len(out) - Len(len)
      s[e \in 0 .. Len(len)] ==
        IF e = 0 THEN 0
        ELSE s[e - 1] + (IF len[e] = 1 THEN 0 ELSE Digit(out, e + shift, o))
                        * SuffixProduct(len, Len(len) - e)
  IN  s[Len(len)]

RefWhere(shape) ==
  [o \in 0 .. NumElems(shape) - 1 |->
     IF CondVal(OperandIndex(condLen, shape, o)) # 0
       THEN InVal(OperandIndex(inLen, shape, o))
       ELSE OtherVal(OperandIndex(otherLen, shape, o))]

\* The broadcast shape of three operands: aligned from the innermost
\* dimension, each length is the one that is not 1, if there is one.
RefShape(a, b, c) ==
  LET r == FindMax(Len(a), Len(b), Len(c))
      ds(k) == {DimFromEnd(x, r - k) : x \in {a, b, c}} \ {1}
  IN  [k \in 1 .. r |-> IF ds(k) = {} THEN 1 ELSE CHOOSE v \in ds(k) : TRUE]

\* The operand's broadcast dimensions are all leading: past its leading
\* 1s it has the output's innermost lengths.
LeadingBroadcast(len, out) ==
  Len(len) <= Len(out) /\
  \E k \in 0 .. Len(len) :
    /\ \A e \in 1 .. k : len[e] = 1
    /\ \A e \in k + 1 .. Len(len) : len[e] = out[e + Len(out) - Len(len)]

\* A broadcast-contiguous layout: the outer k dimensions have stride 0 and
\* the others are packed; its size is the number of the inner elements.
RefContig(len, st) ==
  IF \E k \in 0 .. Len(len) :
       /\ \A d \in 1 .. k : st[d] = 0
       /\ \A d \in k + 1 .. Len(len) : st[d] = SuffixProduct(len, Len(len) - d) /\ st[d] # 0
  THEN LET k == CHOOSE k \in 0 .. Len(len) :
                  /\ \A d \in 1 .. k : st[d] = 0
                  /\ \A d \in k + 1 .. Len(len) : st[d] = SuffixProduct(len, Len(len) - d) /\ st[d] # 0
       IN  SuffixProduct(len, Len(len) - k)
  ELSE 0

(***************************************************************************)
(* Properties.                                                            *)
(***************************************************************************)
Shapes == Seq(Nat)

\* The driver's state has the shapes of the host buffers it allocates.
TypeOK ==
  /\ forw \in {0, 1}
  /\ phase \in {"start", "set", "badparm", "forward", "done", "fault"}
  /\ {inLen, otherLen, condLen, outLen} \subseteq Seq(Nat)
  /\ phase \in {"forward", "done"} => outhost \in [0 .. NumElems(outLen) - 1 -> Int]
  /\ phase = "done" /\ forw = 0 =>
       /\ inGradhost \in [0 .. NumElems(inLen) - 1 -> Int]
       /\ otherGradhost \in [0 .. NumElems(otherLen) - 1 -> Int]

\* For every operand shape of positive lengths the driver has parsed,
\* check_broadcasted_contiguous returns, whatever strides a descriptor of
\* that shape has, the size of the layout when it is packed inside and
\* stride 0 outside, and 0 for every other layout.
ContigSizeMatchesLayout ==
  \A len \in {inLen, otherLen, condLen} :
    len # << >> /\ 0 \notin Range(len) =>
      \A st \in [1 .. Len(len) -> {0, 1, 2, 3, 4}] :
        CheckBroadcastedContiguous(len, st) = RefContig(len, st)

\* For operands of positive lengths that are broadcast only along leading
\* dimensions, the driver derives their broadcast shape and the CPU
\* forward reference is their broadcast select: then o % contiguous size
\* is the operand's element of output element o.
HostForwardIsWhereOnLeadingBroadcast ==
  LET shape == RefShape(inLen, otherLen, condLen)
  IN  /\ phase \in {"forward", "done"}
      /\ \A x \in {inLen, otherLen, condLen} : 0 \notin Range(x) /\ LeadingBroadcast(x, shape)
      => outLen = shape /\ outhost = RefWhere(shape)

\* The CPU forward reference is the broadcast select of its operands, over
\* their broadcast shape, for every shape the driver accepts.
HostForwardIsWhere ==
  phase \in {"forward", "done"} => outhost = RefWhere(RefShape(inLen, otherLen, condLen))
=============================================================================
