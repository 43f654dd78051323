------------------------------ MODULE Machine ------------------------------
(***************************************************************************)
(* What the two processors have in common, at scaled widths: a 64-bit      *)
(* register holds 16 bits here, a 32-bit one 8, a byte 2.  Memory is a     *)
(* function from addresses to bytes.                                       *)
(*                                                                         *)
(* A floating point number is a sign bit and a magnitude in halves; the    *)
(* greatest magnitude is the NaN.                                          *)
(***************************************************************************)
EXTENDS Integers, FiniteSets

Unsigned(v, n) == v % 2^n
Signed(v, n) == LET u == v % 2^n IN IF u >= 2^(n - 1) THEN u - 2^n ELSE u
FitsSigned(v, n) == v \in -(2^(n - 1))..(2^(n - 1) - 1)

BitSet(v, n) == {k \in 0..(n - 1) : (v \div 2^k) % 2 = 1}
RECURSIVE Number(_)
Number(bits) == IF bits = {} THEN 0 ELSE LET k == CHOOSE k \in bits : TRUE IN 2^k + Number(bits \ {k})

And(a, b, n) == Number(BitSet(a, n) \cap BitSet(b, n))
Or(a, b, n) == Number(BitSet(a, n) \cup BitSet(b, n))
Xor(a, b, n) == Number((BitSet(a, n) \cup BitSet(b, n)) \ (BitSet(a, n) \cap BitSet(b, n)))
Not(a, n) == 2^n - 1 - (a % 2^n)
Ror(a, k, n) == LET j == k % n IN Number({(b + n - j) % n : b \in BitSet(a, n)})
Rbit(a, n) == Number({n - 1 - b : b \in BitSet(a, n)})
Popcount(a, n) == Cardinality(BitSet(a, n))
LeadingZeros(a, n) == Cardinality({k \in 0..(n - 1) : \A b \in BitSet(a, n) : b < k})
TrailingZeros(a, n) == Cardinality({k \in 0..(n - 1) : \A b \in BitSet(a, n) : b > k})
\* Quotient and remainder, truncated toward zero.
Abs(v) == IF v < 0 THEN -v ELSE v
Quotient(a, b) == IF (a < 0) = (b < 0) THEN Abs(a) \div Abs(b) ELSE -(Abs(a) \div Abs(b))
Remainder(a, b) == a - b * Quotient(a, b)

Shl(a, k, n) == (a * 2^(k % n)) % 2^n
Shr(a, k, n) == (a % 2^n) \div 2^(k % n)
Sar(a, k, n) == Unsigned(Signed(a, n) \div 2^(k % n), n)

\* A number of size bytes in memory, the low byte first.
Wrap(address) == address % 2^16
Mapped(mem, a, size) == \A k \in 0..(size - 1) : Wrap(a + k) \in DOMAIN mem
RECURSIVE Load(_, _, _)
Load(mem, a, size) ==
    IF size = 0 THEN 0 ELSE mem[Wrap(a)] + 4 * Load(mem, a + 1, size - 1)
Store(mem, a, size, v) ==
    [x \in DOMAIN mem |-> IF Wrap(x - a) < size THEN (v \div 4^Wrap(x - a)) % 4 ELSE mem[x]]

-----------------------------------------------------------------------------
(* Floating point numbers of n bits.                                       *)

NaN(n) == 2^(n - 1) - 1
Magnitude(f, n) == f % 2^(n - 1)
IsNaN(f, n) == Magnitude(f, n) = NaN(n)
Negative(f, n) == (f \div 2^(n - 1)) % 2 = 1
Halves(f, n) == IF Negative(f, n) THEN -Magnitude(f, n) ELSE Magnitude(f, n)

FromHalves(v, n) ==
    CASE Abs(v) >= NaN(n) -> NaN(n)
      [] Abs(v) < NaN(n) -> IF v < 0 THEN 2^(n - 1) - v ELSE v

FAdd(a, b, n) == IF IsNaN(a, n) \/ IsNaN(b, n) THEN NaN(n) ELSE FromHalves(Halves(a, n) + Halves(b, n), n)
FSub(a, b, n) == IF IsNaN(a, n) \/ IsNaN(b, n) THEN NaN(n) ELSE FromHalves(Halves(a, n) - Halves(b, n), n)
FMul(a, b, n) ==
    IF IsNaN(a, n) \/ IsNaN(b, n) THEN NaN(n)
    ELSE FromHalves(Quotient(Halves(a, n) * Halves(b, n), 2), n)
FDiv(a, b, n) ==
    IF IsNaN(a, n) \/ IsNaN(b, n) \/ Magnitude(b, n) = 0 THEN NaN(n)
    ELSE FromHalves(Quotient(2 * Halves(a, n), Halves(b, n)), n)
FSqrt(a, n) ==
    IF IsNaN(a, n) \/ Negative(a, n) THEN NaN(n)
    ELSE CHOOSE s \in 0..2^(n \div 2) : s * s <= 2 * a /\ (s + 1) * (s + 1) > 2 * a
\* Rounding to an integer: to zero, up, down, or to the nearest even.
FRound(a, how, n) ==
    LET v == Halves(a, n)
        integer == CASE how = "tozero" -> Quotient(v, 2)
                     [] how = "up" -> -((-v) \div 2)
                     [] how = "down" -> v \div 2
                     [] how = "halfeven" ->
                          IF v % 2 = 0 THEN v \div 2
                          ELSE IF ((v - 1) \div 2) % 2 = 0 THEN (v - 1) \div 2 ELSE (v + 1) \div 2
    IN IF IsNaN(a, n) THEN a ELSE FromHalves(2 * integer, n)
FConvert(a, from, to) == IF IsNaN(a, from) THEN NaN(to) ELSE FromHalves(Halves(a, from), to)
FToInt(a, n) == Quotient(Halves(a, n), 2)
FAbs(a, n) == a % 2^(n - 1)
FNeg(a, n) == (a + 2^(n - 1)) % 2^n

\* How two numbers compare.
FOrder(a, b, n) ==
    CASE IsNaN(a, n) \/ IsNaN(b, n) -> "unordered"
      [] ~ (IsNaN(a, n) \/ IsNaN(b, n)) ->
            CASE Halves(a, n) < Halves(b, n) -> "less"
              [] Halves(a, n) = Halves(b, n) -> "equal"
              [] Halves(a, n) > Halves(b, n) -> "greater"
=============================================================================
