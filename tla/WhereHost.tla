------------------------------ MODULE WhereHost ------------------------------
(***************************************************************************)
(* The host-side helpers of the Where driver (src/driver/where_driver.hpp) *)
(* as pure operators: the contiguous-broadcast size of a descriptor, the  *)
(* three-way maximum, and the CPU references of the forward and backward  *)
(* passes.  Buffers are functions on 0 .. n-1; descriptors are sequences  *)
(* of lengths and strides, outermost dimension first.                      *)
(***************************************************************************)
EXTENDS Integers, Sequences

\* The product of the last k entries of a sequence of lengths.
SuffixProduct(len, k) ==
  LET p[j \in 0 .. k] == IF j = 0 THEN 1 ELSE p[j - 1] * len[Len(len) - j + 1]
  IN  p[k]

\* Number of elements of a tensor of lengths len.
NumElems(len) == SuffixProduct(len, Len(len))

CheckBroadcastedContiguousNoOuterCheck(len, st) ==
  LET r      == Len(len)
      ne(d)  == SuffixProduct(len, r - d)
      Stop   == {d \in 1 .. r : st[d] = 0 \/ st[d] # ne(d)}
      d0     == CHOOSE d \in Stop : \A e \in Stop : e <= d
  IN  IF Stop = {} THEN NumElems(len)
      ELSE IF st[d0] # 0 THEN 0
      ELSE ne(d0)

(***************************************************************************)
(* check_broadcasted_contiguous: walking the dimensions from the          *)
(* innermost, num_elems is the product of the dimensions already passed.  *)
(* The walk stops at the first dimension whose stride is neither 0 nor    *)
(* num_elems (result 0), or whose stride is 0: then every outer stride   *)
(* must be 0 too, and the result is num_elems.  Only the first dimension  *)
(* from the inside that breaks the packed layout decides the result.       *)
(***************************************************************************)
CheckBroadcastedContiguous(len, st) ==
  LET r      == Len(len)
      ne(d)  == SuffixProduct(len, r - d)
      Stop   == {d \in 1 .. r : st[d] = 0 \/ st[d] # ne(d)}
      d0     == CHOOSE d \in Stop : \A e \in Stop : e <= d
  IN  IF Stop = {} THEN NumElems(len)
      ELSE IF st[d0] # 0 \/ \E j \in 1 .. d0 : st[j] # 0 THEN 0
      ELSE ne(d0)

\* findMax
FindMax(a, b, c) ==
  IF a >= b THEN (IF a >= c THEN a ELSE c) ELSE (IF b >= c THEN b ELSE c)

HostForwardShortLoop(cond, in, oth, cs, is, os, numel) ==
  [o \in 0 .. numel - 2 |-> IF cond[o % cs] # 0 THEN in[o % is] ELSE oth[o % os]]

(***************************************************************************)
(* mloWhereForwardRunHost: output element o takes input[o % input_size]   *)
(* where condition[o % cond_size] is set and other[o % other_size]        *)
(* elsewhere, the sizes being the contiguous-broadcast sizes.              *)
(***************************************************************************)
HostForward(cond, in, oth, cs, is, os, numel) ==
  [o \in 0 .. numel - 1 |-> IF cond[o % cs] # 0 THEN in[o % is] ELSE oth[o % os]]

(***************************************************************************)
(* mloWhereBackwardRunHost, for one of the two gradients: the loop over   *)
(* o in increasing order stores og[o] * c(cond[o % cond_size]) into       *)
(* element o % grad_size of the buffer, so where several o meet in one    *)
(* element, the last o's value is what stays.  c is cond itself for the   *)
(* input gradient and 1 - cond for the other gradient.                    *)
(***************************************************************************)
HostBackwardInput(og, cond, gs, cs, numel, init) ==
  LET f[k \in 0 .. numel] ==
        IF k = 0 THEN init
        ELSE [f[k - 1] EXCEPT ![(k - 1) % gs] = og[k - 1] * cond[(k - 1) % cs]]
  IN  f[numel]

HostBackwardOther(og, cond, gs, cs, numel, init) ==
  LET f[k \in 0 .. numel] ==
        IF k = 0 THEN init
        ELSE [f[k - 1] EXCEPT ![(k - 1) % gs] = og[k - 1] * (1 - cond[(k - 1) % cs])]
  IN  f[numel]
=============================================================================
