------------------------------- MODULE CpuX64 -------------------------------
(***************************************************************************)
(* What an x86-64 processor does with a decoded instruction of IsaX64, at  *)
(* the scaled widths of Machine.                                           *)
(*                                                                         *)
(* A state is a record: r and x the registers, f the flags, mem the memory, *)
(* pc the position of the next instruction, stop why it stopped ("" while  *)
(* it runs) and to the address it left for.                                *)
(***************************************************************************)
EXTENDS Machine, Sequences

RSP == 4

Bits(w) == CASE w \in {"l", "ss"} -> 8 [] w = "b" -> 2 [] OTHER -> 16
Size(w) == Bits(w) \div 2

Address(c, m, next) ==
    LET base == CASE m[2] = -1 -> 0 [] m[2] = -2 -> next [] OTHER -> c.r[m[2]]
        index == IF m[3] = -1 THEN 0 ELSE c.r[m[3]] * 2^m[4]
    IN Wrap(base + index + m[5])

\* The number an immediate of one, four or eight bytes stands for.
ImmediateValue(bytes) ==
    LET b(k) == IF k <= Len(bytes) THEN bytes[k] ELSE IF bytes[Len(bytes)] >= 128 THEN 255 ELSE 0
    IN b(1) + 256 * b(2)

\* An operand at a width.
Get(c, arg, w, next) ==
    CASE arg[1] = "r" -> Unsigned(c.r[arg[2]], Bits(w))
      [] arg[1] = "h" -> Unsigned(c.r[arg[2]] \div 4, 2)
      [] arg[1] = "x" -> Unsigned(c.x[arg[2]], Bits(w))
      [] arg[1] = "i" -> Unsigned(ImmediateValue(arg[2]), Bits(w))
      [] arg[1] = "m" ->
            LET a == Address(c, arg, next) IN
            IF Mapped(c.mem, a, Size(w)) THEN Load(c.mem, a, Size(w)) ELSE 0

\* Every memory operand is there, and aligned where the processor insists.
Reachable(c, args, w, next) ==
    \A k \in DOMAIN args : args[k][1] = "m" =>
        LET a == Address(c, args[k], next) IN
        Mapped(c.mem, a, Size(w)) /\ (w \in {"ps", "pd"} => a % 16 = 0)

\* A write of 32 bits clears the upper half, one of a byte keeps the rest; a
\* write of single precision keeps the rest of a vector register.
Set(c, arg, w, v, next) ==
    CASE arg[1] = "r" ->
            [c EXCEPT !.r[arg[2]] = IF w = "b" THEN @ - (@ % 4) + (v % 4) ELSE Unsigned(v, Bits(w))]
      [] arg[1] = "h" ->
            [c EXCEPT !.r[arg[2]] = @ - 4 * ((@ \div 4) % 4) + 4 * (v % 4)]
      [] arg[1] = "x" ->
            [c EXCEPT !.x[arg[2]] = IF w = "ss" THEN @ - (@ % 256) + (v % 256) ELSE Unsigned(v, 16)]
      [] arg[1] = "m" -> [c EXCEPT !.mem = Store(c.mem, Address(c, arg, next), Size(w), v)]

-----------------------------------------------------------------------------
(* Flags.                                                                  *)

ResultFlags(v, w, carry, overflow) ==
    [c |-> carry, o |-> overflow, z |-> Unsigned(v, Bits(w)) = 0,
     s |-> Signed(v, Bits(w)) < 0, p |-> FALSE]
AddFlags(a, b, w) ==
    ResultFlags(a + b, w, a + b >= 2^Bits(w),
                ~ FitsSigned(Signed(a, Bits(w)) + Signed(b, Bits(w)), Bits(w)))
SubFlags(a, b, w) ==
    ResultFlags(a - b, w, a < b, ~ FitsSigned(Signed(a, Bits(w)) - Signed(b, Bits(w)), Bits(w)))

OrderFlags(order) ==
    [c |-> order \in {"unordered", "less"}, z |-> order \in {"unordered", "equal"},
     p |-> order = "unordered", s |-> FALSE, o |-> FALSE]

\* The sixteen conditions; an odd one is the negation of the one before.
Holds(f, cc) ==
    LET even == CASE cc \div 2 = 0 -> f.o [] cc \div 2 = 1 -> f.c [] cc \div 2 = 2 -> f.z
                  [] cc \div 2 = 3 -> f.c \/ f.z [] cc \div 2 = 4 -> f.s [] cc \div 2 = 5 -> f.p
                  [] cc \div 2 = 6 -> f.s # f.o [] cc \div 2 = 7 -> f.z \/ f.s # f.o
    IN IF cc % 2 = 0 THEN even ELSE ~even

-----------------------------------------------------------------------------
(* Instructions: what each does to the state, the program counter aside.   *)

Fault(c) == [c EXCEPT !.stop = "fault"]

Binary(mn, a, b, w) ==
    LET n == Bits(w) IN
    CASE mn \in {"add", "xadd", "lock_xadd"} -> a + b [] mn = "sub" -> a - b
      [] mn = "and" -> And(a, b, n) [] mn = "or" -> Or(a, b, n) [] mn = "xor" -> Xor(a, b, n)
      [] mn = "imul" -> Signed(a, n) * Signed(b, n)

BinaryFlags(mn, a, b, w) ==
    CASE mn \in {"add", "xadd", "lock_xadd"} -> AddFlags(a, b, w) [] mn = "sub" -> SubFlags(a, b, w)
      [] mn = "imul" ->
            LET wide == Signed(a, Bits(w)) * Signed(b, Bits(w))
            IN ResultFlags(wide, w, ~ FitsSigned(wide, Bits(w)), ~ FitsSigned(wide, Bits(w)))
      [] OTHER -> ResultFlags(Binary(mn, a, b, w), w, FALSE, FALSE)

Alu(c, mn, w, args, next) ==
    LET a == Get(c, args[1], w, next)  b == Get(c, args[2], w, next) IN
    CASE mn = "cmp" -> [c EXCEPT !.f = SubFlags(a, b, w)]
      [] mn = "test" -> [c EXCEPT !.f = ResultFlags(And(a, b, Bits(w)), w, FALSE, FALSE)]
      [] OTHER -> Set([c EXCEPT !.f = BinaryFlags(mn, a, b, w)], args[1], w, Binary(mn, a, b, w), next)

\* Shifts take their count from the immediate or from CL, modulo the width.
Shift(c, mn, w, args, next) ==
    LET n == Bits(w)
        a == Get(c, args[1], w, next)
        k == (IF Len(args) = 2 THEN args[2][2][1] ELSE c.r[1]) % n
    IN Set(c, args[1], w,
           CASE mn = "shl" -> Shl(a, k, n) [] mn = "shr" -> Shr(a, k, n)
             [] mn = "sar" -> Sar(a, k, n) [] mn = "ror" -> Ror(a, k, n)
             [] mn = "rol" -> Ror(a, n - k, n), next)

Unary(c, mn, w, args, next) ==
    LET n == Bits(w)  v == Get(c, args[Len(args)], w, next) IN
    CASE mn = "neg" -> Set([c EXCEPT !.f = SubFlags(0, v, w)], args[1], w, -v, next)
      [] mn = "not" -> Set(c, args[1], w, Not(v, n), next)
      [] mn = "popcnt" -> Set(c, args[1], w, Popcount(v, n), next)
      [] mn = "lzcnt" -> Set(c, args[1], w, LeadingZeros(v, n), next)
      [] mn = "tzcnt" -> Set(c, args[1], w, TrailingZeros(v, n), next)

\* cdq, cqo and the division of RDX:RAX.
Divide(c, w, args, next) ==
    LET n == Bits(w)
        divisor == Signed(Get(c, args[1], w, next), n)
        dividend == Signed(c.r[2], n) * 2^n + Unsigned(c.r[0], n)
    IN IF divisor = 0 \/ ~ FitsSigned(Quotient(dividend, divisor), n) THEN Fault(c)
       ELSE [c EXCEPT !.r[0] = Unsigned(Quotient(dividend, divisor), n),
                      !.r[2] = Unsigned(Remainder(dividend, divisor), n)]

\* Moves and exchanges.
Move(c, mn, w, args, next) ==
    LET v == Get(c, args[2], w, next) IN
    CASE mn = "mov" /\ args[1][1] = "x" /\ args[2][1] = "m" -> Set(c, args[1], "sd", v, next)
      [] mn = "mov" /\ ~ (args[1][1] = "x" /\ args[2][1] = "m") -> Set(c, args[1], w, v, next)
      [] mn = "movzxb" -> Set(c, args[1], w, Get(c, args[2], "b", next), next)
      [] mn = "movsxl" -> Set(c, args[1], w, Signed(Get(c, args[2], "l", next), 8), next)
      [] mn = "lea" -> Set(c, args[1], w, Address(c, args[2], next), next)
      [] mn = "xchg" -> Set(Set(c, args[1], w, Get(c, args[2], w, next), next), args[2], w,
                            Get(c, args[1], w, next), next)
      [] mn \in {"lock_xadd", "xadd"} ->
            Set(Alu(c, mn, w, args, next), args[2], w, Get(c, args[1], w, next), next)
      [] mn \in {"lock_cmpxchg", "cmpxchg"} ->
            LET old == Get(c, args[1], w, next)
                flags == SubFlags(Unsigned(c.r[0], Bits(w)), old, w)
            IN IF flags.z THEN Set([c EXCEPT !.f = flags], args[1], w, v, next)
               ELSE Set([c EXCEPT !.f = flags], <<"r", 0>>, w, old, next)

Conditional(c, mn, w, args, next) ==
    CASE mn = "set" -> Set(c, args[1], "b", IF Holds(c.f, args[2][2]) THEN 1 ELSE 0, next)
      [] mn = "cmov" -> Set(c, args[1], w, Get(c, args[IF Holds(c.f, args[3][2]) THEN 2 ELSE 1], w, next), next)

\* Scalar floating point.
RoundMode == [n \in 8..11 |-> CASE n = 8 -> "halfeven" [] n = 9 -> "down" [] n = 10 -> "up" [] n = 11 -> "tozero"]
Float(c, mn, w, args, next) ==
    LET n == Bits(w)  a == Get(c, args[1], w, next)  b == Get(c, args[2], w, next) IN
    CASE mn = "ucomi" -> [c EXCEPT !.f = OrderFlags(FOrder(a, b, n))]
      [] mn = "add" -> Set(c, args[1], w, FAdd(a, b, n), next)
      [] mn = "sub" -> Set(c, args[1], w, FSub(a, b, n), next)
      [] mn = "mul" -> Set(c, args[1], w, FMul(a, b, n), next)
      [] mn = "div" -> Set(c, args[1], w, FDiv(a, b, n), next)
      [] mn = "sqrt" -> Set(c, args[1], w, FSqrt(b, n), next)
      [] mn = "round" -> Set(c, args[1], w, FRound(b, RoundMode[args[3][2][1]], n), next)

\* Packed logic, and conversions between the register files.  What does not fit
\* an integer is the least one.
Indefinite(v, n) == IF FitsSigned(v, n) THEN v ELSE 2^(n - 1)
Convert(c, mn, w, args, next) ==
    LET b(width) == Get(c, args[2], width, next) IN
    CASE mn = "pxor" -> Set(c, args[1], "q", Xor(Get(c, args[1], "q", next), b("q"), 16), next)
      [] mn = "and" -> Set(c, args[1], "q", And(Get(c, args[1], "q", next), b("q"), 16), next)
      [] mn = "xor" -> Set(c, args[1], "q", Xor(Get(c, args[1], "q", next), b("q"), 16), next)
      [] mn = "cvtss2sd" -> Set(c, args[1], "sd", FConvert(b("ss"), 8, 16), next)
      [] mn = "cvtsd2ss" -> Set(c, args[1], "ss", FConvert(b("sd"), 16, 8), next)
      [] mn = "cvtsi2ss" -> Set(c, args[1], "ss", FromHalves(2 * Signed(b(w), Bits(w)), 8), next)
      [] mn = "cvtsi2sd" -> Set(c, args[1], "sd", FromHalves(2 * Signed(b(w), Bits(w)), 16), next)
      [] mn = "cvttss2si" ->
            Set(c, args[1], w, IF IsNaN(b("ss"), 8) THEN 2^(Bits(w) - 1)
                               ELSE Indefinite(FToInt(b("ss"), 8), Bits(w)), next)
      [] mn = "cvttsd2si" ->
            Set(c, args[1], w, IF IsNaN(b("sd"), 16) THEN 2^(Bits(w) - 1)
                               ELSE Indefinite(FToInt(b("sd"), 16), Bits(w)), next)

\* The stack, calls and jumps.
Pushed(c, v) == [c EXCEPT !.r[RSP] = Wrap(@ - 8), !.mem = Store(c.mem, Wrap(c.r[RSP] - 8), 8, v)]
Control(c, mn, args, next) ==
    CASE mn = "push" -> Pushed(c, c.r[args[1][2]])
      [] mn = "pop" -> [c EXCEPT !.r = [@ EXCEPT ![RSP] = Wrap(@ + 8),
                                                 ![args[1][2]] = Load(c.mem, c.r[RSP], 8)]]
      [] mn = "ret" -> [c EXCEPT !.stop = "ret", !.to = Load(c.mem, c.r[RSP], 8)]
      [] mn = "call" -> [Pushed(c, next) EXCEPT !.stop = "call", !.to = c.r[args[1][2]]]
      [] mn = "jmp" -> IF args[1][1] = "to" THEN [c EXCEPT !.pc = args[1][2] - 1]
                       ELSE [c EXCEPT !.stop = "jump", !.to = c.r[args[1][2]]]
      [] mn = "jcc" -> IF Holds(c.f, args[1][2]) THEN [c EXCEPT !.pc = args[2][2] - 1] ELSE c
      [] mn = "int3" -> [c EXCEPT !.stop = "debug"]
      [] mn = "nop" -> c

\* The width of the memory operand, where it is not the instruction's own.
OperandWidth(mn, w) == IF mn = "movzxb" THEN "b" ELSE w

\* The memory an instruction needs is there.
Possible(c, mn, w, args, next) ==
    /\ mn # "lea" => Reachable(c, args, OperandWidth(mn, w), next)
    /\ mn \in {"push", "pop", "ret", "call"} => Mapped(c.mem, Wrap(c.r[RSP] - 8), 16)

Packed == {"pxor", "cvtss2sd", "cvtsd2ss", "cvtsi2ss", "cvtsi2sd", "cvttss2si", "cvttsd2si"}

\* The state after the instruction i = <<mnemonic, width, operands>> whose
\* successor is at next.
Step(state, i, next) ==
    LET mn == i[1]  w == i[2]  args == i[3]
        c == [state EXCEPT !.pc = next]
    IN IF ~ Possible(c, mn, w, args, next) THEN Fault(c)
       ELSE CASE mn \in {"push", "pop", "ret", "call", "jmp", "jcc", "int3", "nop"} ->
                    Control(c, mn, args, next)
              [] mn = "cdq" ->
                    [c EXCEPT !.r[2] = IF Signed(c.r[0], Bits(w)) < 0 THEN 2^Bits(w) - 1 ELSE 0]
              [] mn = "idiv" -> Divide(c, w, args, next)
              [] mn \in {"set", "cmov"} -> Conditional(c, mn, w, args, next)
              [] mn \in {"shl", "shr", "sar", "rol", "ror"} -> Shift(c, mn, w, args, next)
              [] mn \in {"neg", "not", "popcnt", "lzcnt", "tzcnt"} -> Unary(c, mn, w, args, next)
              [] mn \in {"mov", "movzxb", "movsxl", "lea", "xchg", "xadd", "lock_xadd", "cmpxchg",
                         "lock_cmpxchg"} -> Move(c, mn, w, args, next)
              [] mn \in {"add", "sub", "and", "or", "xor", "imul", "cmp", "test"}
                    /\ w \in {"q", "l", "b"} -> Alu(c, mn, w, args, next)
              [] mn \in {"ucomi", "add", "sub", "mul", "div", "sqrt", "round"} /\ w \in {"ss", "sd"} ->
                    Float(c, mn, w, args, next)
              [] mn \in Packed \/ (mn \in {"and", "xor"} /\ w \in {"ps", "pd"}) ->
                    Convert(c, mn, w, args, next)
              [] OTHER -> Fault(c)
=============================================================================
