------------------------------ MODULE ExactReal ------------------------------
(***************************************************************************)
(* Exact model of the double arithmetic done by the batch-normalisation   *)
(* host reference (src/driver/miopen_BatchNormHost.hpp).                  *)
(*                                                                         *)
(* A double is abstracted to an exact real of the form  a + b * sigma,    *)
(* with a, b rational and sigma = 1 / sqrt(r) for a rational radicand r.  *)
(* This set is closed under the operations the host code applies inside   *)
(* one reduction group: +, -, *, division by a rational and one           *)
(* 1.0/sqrt(variance + epsilon) per group.  Rounding is not modelled:     *)
(* the properties of the model are the algebraic identities the code     *)
(* must satisfy in exact arithmetic.                                       *)
(*                                                                         *)
(* A result the code would produce as inf or NaN (a division by zero, the *)
(* square root of a non-positive number) is the value NonFinite, and      *)
(* NonFinite propagates through every operation, as in IEEE arithmetic.   *)
(* Every operator is total: whatever its arguments, its result is in      *)
(* Double.  That is what makes the type invariant of the host model       *)
(* provable without induction over the sums.                              *)
(***************************************************************************)
EXTENDS Integers

AbsInt(k) == IF k < 0 THEN -k ELSE k

(***************************************************************************)
(* Rationals in lowest terms with a positive denominator.                 *)
(***************************************************************************)
Rat == [num : Int, den : Nat \ {0}]

Gcd[p \in Nat \X Nat] == IF p[2] = 0 THEN p[1] ELSE Gcd[<<p[2], p[1] % p[2]>>]

\* The rational n/d (d # 0), reduced when the gcd divides both parts.
Norm(n, d) ==
  LET g  == Gcd[<<AbsInt(n), AbsInt(d)>>]
      sg == IF d < 0 THEN -1 ELSE 1
  IN  IF g \in Nat \ {0} /\ n % g = 0 /\ d % g = 0
        THEN [num |-> sg * (n \div g), den |-> sg * (d \div g)]
        ELSE [num |-> sg * n, den |-> sg * d]

RZero == [num |-> 0, den |-> 1]
ROne  == [num |-> 1, den |-> 1]
RAdd(p, q) == Norm(p.num * q.den + q.num * p.den, p.den * q.den)
RNeg(p)    == [num |-> -p.num, den |-> p.den]
RMul(p, q) == Norm(p.num * q.num, p.den * q.den)
\* 1/p, for p # 0
RInv(p)    == Norm(p.den, p.num)

IsSquare(k) == \E j \in 0..k : j * j = k
ISqrt(k)    == CHOOSE j \in 0..k : j * j = k
RIsSquare(p) == p.num >= 0 /\ IsSquare(p.num) /\ IsSquare(p.den)
\* 1/sqrt(p) for a positive rational square p
RInvSqrt(p) == Norm(ISqrt(p.den), ISqrt(p.num))

(***************************************************************************)
(* Doubles.  b = 0 forces r = 1, so that a rational has one               *)
(* representation; a value with b # 0 carries the radicand of its group.  *)
(***************************************************************************)
Val       == {v \in [a : Rat, b : Rat, r : Rat] : v.r.num > 0}
NonFinite == [a |-> RZero, b |-> RZero, r |-> RZero]
Double    == Val \cup {NonFinite}

Mk(a, b, r) == IF b = RZero THEN [a |-> a, b |-> RZero, r |-> ROne]
                            ELSE [a |-> a, b |-> b, r |-> r]

\* The double n/d: a literal, or an int converted with double(...)
Lit(n, d) == Mk(Norm(n, d), RZero, ROne)
Zero == Lit(0, 1)
One  == Lit(1, 1)
\* double(k) for a count k
FromNat(k) == Lit(k, 1)

IsRational(x) == x \in Val /\ x.b = RZero
Compatible(x, y) == x.b = RZero \/ y.b = RZero \/ x.r = y.r
RootOf(x, y) == IF x.b = RZero THEN y.r ELSE x.r

Add(x, y) ==
  IF x \in Val /\ y \in Val /\ Compatible(x, y)
    THEN Mk(RAdd(x.a, y.a), RAdd(x.b, y.b), RootOf(x, y))
    ELSE NonFinite

Neg(x) == IF x \in Val THEN Mk(RNeg(x.a), RNeg(x.b), x.r) ELSE NonFinite

Sub(x, y) == Add(x, Neg(y))

\* (a1 + b1 s)(a2 + b2 s) = a1 a2 + b1 b2 / r + (a1 b2 + b1 a2) s
Mul(x, y) ==
  IF x \in Val /\ y \in Val /\ Compatible(x, y)
    THEN LET r == RootOf(x, y) IN
         Mk(RAdd(RMul(x.a, y.a), RMul(RMul(x.b, y.b), RInv(r))),
            RAdd(RMul(x.a, y.b), RMul(x.b, y.a)),
            r)
    ELSE NonFinite

\* x / y for a rational y; division by zero gives inf or NaN
Div(x, y) ==
  IF x \in Val /\ IsRational(y) /\ y.a.num # 0
    THEN Mk(RMul(x.a, RInv(y.a)), RMul(x.b, RInv(y.a)), x.r)
    ELSE NonFinite

\* 1.0 / sqrt(x): inf for x = 0, NaN for x < 0
InvSqrt(x) ==
  IF IsRational(x) /\ x.a.num > 0
    THEN IF RIsSquare(x.a) THEN Mk(RInvSqrt(x.a), RZero, ROne)
                           ELSE Mk(RZero, ROne, x.a)
    ELSE NonFinite

Sq(x) == Mul(x, x)

AsDouble(v) == IF v \in Double THEN v ELSE NonFinite

\* Order on rationals, used for the range of a constant
RNonNeg(x) == IsRational(x) /\ x.a.num >= 0
RPos(x)    == IsRational(x) /\ x.a.num > 0
=============================================================================
