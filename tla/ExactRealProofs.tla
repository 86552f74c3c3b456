--------------------------- MODULE ExactRealProofs ---------------------------
(***************************************************************************)
(* Closure of the exact double arithmetic: every operation of ExactReal   *)
(* returns a Double, whatever its arguments.  The type invariant of the  *)
(* batch-normalisation model rests on these lemmas.                        *)
(***************************************************************************)
EXTENDS ExactReal, TLAPS

\* The reduction of n/d keeps a positive denominator, whether or not the
\* gcd is applied.
LEMMA NormRat ==
  ASSUME NEW n \in Int, NEW d \in Int \ {0}
  PROVE  Norm(n, d) \in Rat
<1> DEFINE g  == Gcd[<<AbsInt(n), AbsInt(d)>>]
           sg == IF d < 0 THEN -1 ELSE 1
<1>1. CASE g \in Nat \ {0} /\ n % g = 0 /\ d % g = 0
  <2>1. d = g * (d \div g)
    BY <1>1
  <2>2. sg * (d \div g) \in Nat \ {0}
    BY <1>1, <2>1
  <2>3. sg * (n \div g) \in Int
    BY <1>1
  <2> QED BY <1>1, <2>2, <2>3 DEF Norm, Rat
<1>2. CASE ~(g \in Nat \ {0} /\ n % g = 0 /\ d % g = 0)
  BY <1>2 DEF Norm, Rat
<1> QED BY <1>1, <1>2

\* The operations on rationals return rationals.
LEMMA RatOps ==
  ASSUME NEW p \in Rat, NEW q \in Rat
  PROVE  /\ RAdd(p, q) \in Rat
         /\ RMul(p, q) \in Rat
         /\ RNeg(p) \in Rat
         /\ p.num # 0 => RInv(p) \in Rat
<1>1. p.num \in Int /\ p.den \in Nat \ {0} /\ q.num \in Int /\ q.den \in Nat \ {0}
  BY DEF Rat
<1>2. RAdd(p, q) \in Rat
  BY <1>1, NormRat DEF RAdd
<1>3. RMul(p, q) \in Rat
  BY <1>1, NormRat DEF RMul
<1>4. RNeg(p) \in Rat
  BY <1>1 DEF RNeg, Rat
<1>5. p.num # 0 => RInv(p) \in Rat
  BY <1>1, NormRat DEF RInv
<1> QED BY <1>2, <1>3, <1>4, <1>5

LEMMA RConstRat == RZero \in Rat /\ ROne \in Rat
BY DEF RZero, ROne, Rat

\* A value built from rationals and a positive radicand is a finite double.
LEMMA MkVal ==
  ASSUME NEW a \in Rat, NEW b \in Rat, NEW r \in Rat, r.num > 0
  PROVE  Mk(a, b, r) \in Val
BY RConstRat DEF Mk, Val, ROne

LEMMA NonFiniteDouble == NonFinite \in Double
BY DEF Double

\* Every arithmetic operation of the model is total on doubles.
LEMMA AddDouble == \A x, y : Add(x, y) \in Double
<1> SUFFICES ASSUME NEW x, NEW y, x \in Val, y \in Val, Compatible(x, y)
             PROVE  Mk(RAdd(x.a, y.a), RAdd(x.b, y.b), RootOf(x, y)) \in Double
  BY NonFiniteDouble DEF Add
<1>1. x.a \in Rat /\ x.b \in Rat /\ y.a \in Rat /\ y.b \in Rat
  BY DEF Val
<1>2. RootOf(x, y) \in Rat /\ RootOf(x, y).num > 0
  BY DEF RootOf, Val
<1> QED BY <1>1, <1>2, RatOps, MkVal DEF Double

LEMMA NegDouble == \A x : Neg(x) \in Double
<1> SUFFICES ASSUME NEW x, x \in Val PROVE Mk(RNeg(x.a), RNeg(x.b), x.r) \in Double
  BY NonFiniteDouble DEF Neg
<1>1. x.a \in Rat /\ x.b \in Rat /\ x.r \in Rat /\ x.r.num > 0
  BY DEF Val
<1> QED BY <1>1, RatOps, MkVal DEF Double

LEMMA SubDouble == \A x, y : Sub(x, y) \in Double
BY AddDouble DEF Sub

LEMMA MulDouble == \A x, y : Mul(x, y) \in Double
<1> SUFFICES ASSUME NEW x, NEW y, x \in Val, y \in Val, Compatible(x, y)
             PROVE  Mul(x, y) \in Double
  BY NonFiniteDouble DEF Mul
<1> DEFINE r == RootOf(x, y)
<1>1. x.a \in Rat /\ x.b \in Rat /\ y.a \in Rat /\ y.b \in Rat
  BY DEF Val
<1>2. r \in Rat /\ r.num > 0
  BY DEF RootOf, Val
<1>3. RInv(r) \in Rat
  BY <1>2, RatOps
<1>4. RAdd(RMul(x.a, y.a), RMul(RMul(x.b, y.b), RInv(r))) \in Rat
  BY <1>1, <1>3, RatOps
<1>5. RAdd(RMul(x.a, y.b), RMul(x.b, y.a)) \in Rat
  BY <1>1, RatOps
<1>6. Mk(RAdd(RMul(x.a, y.a), RMul(RMul(x.b, y.b), RInv(r))),
         RAdd(RMul(x.a, y.b), RMul(x.b, y.a)), r) \in Val
  BY <1>2, <1>4, <1>5, MkVal
<1> QED BY <1>6 DEF Mul, Double

LEMMA SqDouble == \A x : Sq(x) \in Double
BY MulDouble DEF Sq

LEMMA DivDouble == \A x, y : Div(x, y) \in Double
<1> SUFFICES ASSUME NEW x, NEW y, x \in Val, IsRational(y), y.a.num # 0
             PROVE  Mk(RMul(x.a, RInv(y.a)), RMul(x.b, RInv(y.a)), x.r) \in Double
  BY NonFiniteDouble DEF Div
<1>1. x.a \in Rat /\ x.b \in Rat /\ x.r \in Rat /\ x.r.num > 0 /\ y.a \in Rat
  BY DEF Val, IsRational
<1>2. RInv(y.a) \in Rat
  BY <1>1, RatOps
<1> QED BY <1>1, <1>2, RatOps, MkVal DEF Double

\* 1/sqrt of a positive integer square is defined: its root is not 0.
LEMMA ISqrtPos ==
  ASSUME NEW k \in Nat, k > 0, IsSquare(k)
  PROVE  ISqrt(k) \in Nat \ {0}
<1>1. ISqrt(k) \in 0 .. k /\ ISqrt(k) * ISqrt(k) = k
  BY DEF IsSquare, ISqrt
<1> QED BY <1>1

LEMMA InvSqrtDouble == \A x : InvSqrt(x) \in Double
<1> SUFFICES ASSUME NEW x, IsRational(x), x.a.num > 0
             PROVE  InvSqrt(x) \in Double
  BY NonFiniteDouble DEF InvSqrt
<1>1. x.a \in Rat /\ x.a.num \in Nat /\ x.a.den \in Nat \ {0}
  BY DEF IsRational, Val, Rat
<1>2. CASE RIsSquare(x.a)
  <2>1. ISqrt(x.a.num) \in Nat \ {0}
    BY <1>1, <1>2, ISqrtPos DEF RIsSquare
  <2>2. ISqrt(x.a.den) \in Nat
    <3>1. IsSquare(x.a.den)
      BY <1>2 DEF RIsSquare
    <3> QED BY <1>1, <3>1 DEF IsSquare, ISqrt
  <2>3. RInvSqrt(x.a) \in Rat
    BY <2>1, <2>2, NormRat DEF RInvSqrt
  <2> QED BY <1>2, <2>3, RConstRat, MkVal DEF InvSqrt, ROne, Double
<1>3. CASE ~RIsSquare(x.a)
  BY <1>1, <1>3, RConstRat, MkVal DEF InvSqrt, Double
<1> QED BY <1>2, <1>3

LEMMA AsDoubleDouble == \A v : AsDouble(v) \in Double
BY NonFiniteDouble DEF AsDouble

\* Literals are finite doubles.
LEMMA LitVal ==
  ASSUME NEW n \in Int, NEW d \in Int \ {0}
  PROVE  Lit(n, d) \in Val
BY NormRat, RConstRat, MkVal DEF Lit, ROne
=============================================================================
