------------------------------ MODULE CpuArm64 ------------------------------
(***************************************************************************)
(* What an AArch64 processor does with a decoded instruction of IsaArm64,  *)
(* at the scaled widths of Machine.                                        *)
(*                                                                         *)
(* A state is the record of CpuX64; r also has the stack pointer, ex is    *)
(* the address marked for exclusive access, or -1, and pc counts words of  *)
(* four bytes.                                                             *)
(***************************************************************************)
EXTENDS Machine, Sequences, FiniteSetsExt

ZR == 100
SP == 101
LR == 30

Bits(w) == IF w \in {"w", "s"} THEN 8 ELSE IF w = "b" THEN 2 ELSE 16
Size(w) == Bits(w) \div 2

Get(c, arg, w) ==
    CASE arg[1] = "r" -> IF arg[2] = ZR THEN 0 ELSE Unsigned(c.r[arg[2]], Bits(w))
      [] arg[1] = "v" -> Unsigned(c.x[arg[2]], Bits(w))
      [] arg[1] = "i" -> Unsigned(arg[2], Bits(w))

\* A write clears the rest of the register.
Set(c, arg, w, v) ==
    CASE arg[1] = "r" -> IF arg[2] = ZR THEN c ELSE [c EXCEPT !.r[arg[2]] = Unsigned(v, Bits(w))]
      [] arg[1] = "v" -> [c EXCEPT !.x[arg[2]] = Unsigned(v, Bits(w))]

Fault(c) == [c EXCEPT !.stop = "fault"]

-----------------------------------------------------------------------------
(* Flags.                                                                  *)

AddFlags(a, b, n) ==
    [n |-> Signed(a + b, n) < 0, z |-> Unsigned(a + b, n) = 0, c |-> a + b >= 2^n,
     v |-> ~ FitsSigned(Signed(a, n) + Signed(b, n), n)]
SubFlags(a, b, n) ==
    [n |-> Signed(a - b, n) < 0, z |-> Unsigned(a - b, n) = 0, c |-> a >= b,
     v |-> ~ FitsSigned(Signed(a, n) - Signed(b, n), n)]
OrderFlags(order) ==
    [n |-> order = "less", z |-> order = "equal", c |-> order # "less", v |-> order = "unordered"]

Holds(f, cond) ==
    CASE cond = "EQ" -> f.z [] cond = "NE" -> ~f.z [] cond = "CS" -> f.c
      [] cond = "CC" -> ~f.c [] cond = "MI" -> f.n [] cond = "PL" -> ~f.n
      [] cond = "VS" -> f.v [] cond = "VC" -> ~f.v [] cond = "HI" -> f.c /\ ~f.z
      [] cond = "LS" -> ~f.c \/ f.z [] cond = "GE" -> f.n = f.v [] cond = "LT" -> f.n # f.v
      [] cond = "GT" -> ~f.z /\ f.n = f.v [] cond = "LE" -> f.z \/ f.n # f.v

-----------------------------------------------------------------------------
(* Data processing.                                                        *)

Shifted(v, how, k, n) ==
    CASE how = "LSL" -> Shl(v, k, n) [] how = "LSR" -> Shr(v, k, n)
      [] how = "ASR" -> Sar(v, k, n) [] how = "ROR" -> Ror(v, k, n)
Extended(v, how) == CASE how = "SXTW" -> Unsigned(Signed(v, 8), 16) [] how = "UXTW" -> Unsigned(v, 8)
                      [] OTHER -> v

\* Additions and subtractions: the second operand of each form.
AddSub(c, m, w, a) ==
    LET n == Bits(w)
        x(k) == Get(c, a[k], w)
        imm == a[Len(a) - 1][2]
    IN CASE m \in {"add", "adds"} ->
              Set(IF m = "adds" THEN [c EXCEPT !.f = AddFlags(x(2), x(3), n)] ELSE c, a[1], w, x(2) + x(3))
         [] m \in {"sub", "subs"} ->
              Set(IF m = "subs" THEN [c EXCEPT !.f = SubFlags(x(2), x(3), n)] ELSE c, a[1], w, x(2) - x(3))
         [] m = "add_imm" -> Set(c, a[1], w, x(2) + a[3][2])
         [] m = "add_sh" -> Set(c, a[1], w, x(2) + Shifted(x(3), a[4][2], a[5][2], n))
         [] m = "cmp" -> [c EXCEPT !.f = SubFlags(x(1), x(2), n)]
         [] m = "cmp_imm" -> [c EXCEPT !.f = SubFlags(x(1), imm, n)]
         [] m = "cmn_imm" -> [c EXCEPT !.f = AddFlags(x(1), imm, n)]
         [] m = "cmp_sh" -> [c EXCEPT !.f = SubFlags(x(1), Shifted(x(2), a[3][2], a[4][2], n), n)]
         [] m = "cmp_ext" -> [c EXCEPT !.f = SubFlags(x(1), Extended(x(2), a[3][2]), n)]

\* Moves of a half word, 4 bits here.
MoveWide(c, m, w, a) ==
    LET n == Bits(w)  k == 4 * a[3][2]  v == Get(c, a[1], w) IN
    CASE m = "movz" -> Set(c, a[1], w, a[2][2] * 2^k)
      [] m = "movn" -> Set(c, a[1], w, Not(a[2][2] * 2^k, n))
      [] m = "movk" -> Set(c, a[1], w, v + 2^k * (a[2][2] - ((v \div 2^k) % 16)))

Multiply(c, m, w, a) ==
    LET n == Bits(w)
        s(k) == Signed(Get(c, a[k], w), n)
        low(k) == Signed(Get(c, a[k], "w"), 8)
    IN CASE m = "mul" -> Set(c, a[1], w, s(2) * s(3))
         [] m = "msub" -> Set(c, a[1], w, s(4) - s(2) * s(3))
         [] m = "smull" -> Set(c, a[1], w, low(2) * low(3))
         [] m = "smulh" -> Set(c, a[1], w, (s(2) * s(3)) \div 2^16)
         [] m = "sdiv" -> Set(c, a[1], w, IF s(3) = 0 THEN 0 ELSE Quotient(s(2), s(3)))

Bitwise(c, m, w, a) ==
    LET n == Bits(w)
        x == Get(c, a[2], w)
        y == Get(c, a[Len(a)], w)
        z == Shifted(Get(c, a[3], w), a[4][2], a[5][2], n)
    IN CASE m = "lslv" -> Set(c, a[1], w, Shl(x, y, n)) [] m = "lsrv" -> Set(c, a[1], w, Shr(x, y, n))
         [] m = "asrv" -> Set(c, a[1], w, Sar(x, y, n)) [] m = "rorv" -> Set(c, a[1], w, Ror(x, y, n))
         [] m = "lsl_imm" -> Set(c, a[1], w, Shl(x, a[3][2], n))
         [] m = "lsr_imm" -> Set(c, a[1], w, Shr(x, a[3][2], n))
         [] m = "and_imm" -> Set(c, a[1], w, Number(BitSet(x, n) \cap a[3][2]))
         [] m = "and_sh" -> Set(c, a[1], w, And(x, z, n)) [] m = "orr_sh" -> Set(c, a[1], w, Or(x, z, n))
         [] m = "eor_sh" -> Set(c, a[1], w, Xor(x, z, n))
         [] m = "orn_sh" -> Set(c, a[1], w, Or(x, Not(z, n), n))
         [] m = "mov" -> Set(c, a[1], w, y)
         [] m = "rbit" -> Set(c, a[1], w, Rbit(y, n)) [] m = "clz" -> Set(c, a[1], w, LeadingZeros(y, n))
         [] m = "sxtw" -> Set(c, a[1], w, Signed(y, 8)) [] m = "uxtw" -> Set(c, a[1], w, Unsigned(y, 8))
         [] m = "uxtb" -> Set(c, a[1], w, Unsigned(y, 2))

Conditional(c, m, w, a) ==
    LET holds == Holds(c.f, a[Len(a)][2]) IN
    CASE m = "cset" -> Set(c, a[1], w, IF holds THEN 1 ELSE 0)
      [] m = "csel" -> Set(c, a[1], w, Get(c, a[IF holds THEN 2 ELSE 3], w))
      [] m = "csinv" -> Set(c, a[1], w, IF holds THEN Get(c, a[2], w) ELSE Not(Get(c, a[3], w), Bits(w)))

-----------------------------------------------------------------------------
(* Memory.  An access outside of it is a fault.                            *)

Base(c, arg) == c.r[arg[2]]
Transfer(c, load, w, reg, at) ==
    IF ~ Mapped(c.mem, at, Size(w)) THEN Fault(c)
    ELSE IF load THEN Set(c, reg, w, Load(c.mem, at, Size(w)))
    ELSE [c EXCEPT !.mem = Store(c.mem, at, Size(w), Get(c, reg, w))]

Single(c, m, w, a) ==
    LET load == m \in {"ldr_imm", "ldr_unscaled", "ldr_ind"}
        offset == CASE m \in {"ldr_imm", "str_imm"} -> a[3][2] * Size(w)
                    [] m \in {"ldr_unscaled", "str_unscaled"} -> a[3][2]
                    [] OTHER -> Get(c, a[3], "x") * (IF a[5][2] = 1 THEN Size(w) ELSE 1)
    IN Transfer(c, load, w, a[1], Wrap(Base(c, a[2]) + offset))

\* The pair pushed by prolog and popped by epilog.
Pair(c, m, w, a) ==
    LET moved == Wrap(Base(c, a[3]) + a[4][2] * 8) IN
    CASE m = "stp_pre" ->
            [Transfer(Transfer(c, FALSE, w, a[1], moved), FALSE, w, a[2], Wrap(moved + 8))
                EXCEPT !.r[a[3][2]] = moved]
      [] m = "ldp_post" ->
            [Transfer(Transfer(c, TRUE, w, a[1], Base(c, a[3])), TRUE, w, a[2], Wrap(Base(c, a[3]) + 8))
                EXCEPT !.r[a[3][2]] = moved]

\* Ordered and exclusive accesses, and the atomic instructions of LSE.
Atomic(c, m, w, a) ==
    LET at == Base(c, a[IF m \in {"ldar", "stlr", "ldaxr"} THEN 2 ELSE 3])
        old == Load(c.mem, at, Size(w))
        write(v) == [c EXCEPT !.mem = Store(c.mem, at, Size(w), v)]
    IN IF ~ Mapped(c.mem, at, Size(w)) \/ at % Size(w) # 0 THEN Fault(c)
       ELSE CASE m = "ldar" -> Set(c, a[1], w, old)
              [] m = "stlr" -> write(Get(c, a[1], w))
              [] m = "ldaxr" -> Set([c EXCEPT !.ex = at], a[1], w, old)
              [] m = "stlxr" -> IF c.ex = at
                                THEN Set([write(Get(c, a[2], w)) EXCEPT !.ex = -1], a[1], w, 0)
                                ELSE Set([c EXCEPT !.ex = -1], a[1], w, 1)
              [] m = "swp" -> Set(write(Get(c, a[1], w)), a[2], w, old)
              [] m = "ldadd" -> Set(write(Get(c, a[1], w) + old), a[2], w, old)
              [] m = "cas" -> Set(IF old = Get(c, a[1], w) THEN write(Get(c, a[2], w)) ELSE c, a[1], w, old)

-----------------------------------------------------------------------------
(* Floating point.                                                         *)

RoundMode == [frintn |-> "halfeven", frintp |-> "up", frintm |-> "down", frintz |-> "tozero"]
Saturated(v, n) == IF v >= 2^(n - 1) THEN 2^(n - 1) - 1 ELSE IF v < -(2^(n - 1)) THEN 2^(n - 1) ELSE v
IntWidth(w) == IF w \in {"ws", "wd"} THEN "w" ELSE "x"
FloatWidth(w) == IF w \in {"ws", "xs"} THEN "s" ELSE "d"

Float(c, m, w, a) ==
    LET n == Bits(w)
        x == Get(c, a[Len(a) - 1], w)
        y == Get(c, a[Len(a)], w)
    IN CASE m = "fmov" -> Set(c, a[1], w, y)
         [] m = "fadd" -> Set(c, a[1], w, FAdd(x, y, n)) [] m = "fsub" -> Set(c, a[1], w, FSub(x, y, n))
         [] m = "fmul" -> Set(c, a[1], w, FMul(x, y, n)) [] m = "fdiv" -> Set(c, a[1], w, FDiv(x, y, n))
         [] m = "fabs" -> Set(c, a[1], w, FAbs(y, n)) [] m = "fneg" -> Set(c, a[1], w, FNeg(y, n))
         [] m = "fsqrt" -> Set(c, a[1], w, FSqrt(y, n))
         [] m \in DOMAIN RoundMode -> Set(c, a[1], w, FRound(y, RoundMode[m], n))
         [] m = "fcmp" -> [c EXCEPT !.f = OrderFlags(FOrder(x, y, n))]
         [] m = "fcvt" -> Set(c, a[1], IF w = "s" THEN "d" ELSE "s", FConvert(y, n, 24 - n))

\* Between the register files.  The sum of addv is that of the bits cnt has
\* counted in each byte.
Crossing(c, m, w, a) ==
    LET i == IntWidth(w)  f == FloatWidth(w)
        n == Bits(f)
        v == Get(c, a[Len(a)], IF a[Len(a)][1] = "r" THEN i ELSE f)
        lanes == [k \in 0..7 |-> (c.x[a[Len(a)][2]] \div 4^k) % 4]
    IN CASE m = "scvtf" -> Set(c, a[1], f, FromHalves(2 * Signed(v, Bits(i)), n))
         [] m = "fcvtzs" -> Set(c, a[1], i, IF IsNaN(v, n) THEN 0 ELSE Saturated(FToInt(v, n), Bits(i)))
         [] m = "fmov_fs" -> Set(c, a[1], f, v)
         [] m = "fmov_sf" -> Set(c, a[1], i, v)
         [] m = "cnt" -> Set(c, a[3], "x", SumSet({4^k : k \in {j \in 0..7 : lanes[j] \in {1, 2}}})
                                           + 2 * SumSet({4^k : k \in {j \in 0..7 : lanes[j] = 3}}))
         [] m = "addv" -> Set(c, a[3], "x", Cardinality({k \in 0..7 : lanes[k] = 1})
                                            + 2 * Cardinality({k \in 0..7 : lanes[k] = 2}))

-----------------------------------------------------------------------------
(* Branches: distances count words from the instruction itself.            *)

Branch(c, m, w, a, here) ==
    CASE m = "b_imm" -> [c EXCEPT !.pc = here + a[1][2]]
      [] m = "bc_imm" -> IF Holds(c.f, a[1][2]) THEN [c EXCEPT !.pc = here + a[2][2]] ELSE c
      [] m \in {"cbz", "cbnz"} ->
            IF (Get(c, a[1], w) = 0) = (m = "cbz") THEN [c EXCEPT !.pc = here + a[2][2]] ELSE c
      [] m = "b_r" -> [c EXCEPT !.stop = "jump", !.to = Get(c, a[1], "x")]
      [] m = "bl_r" -> [c EXCEPT !.stop = "call", !.to = Get(c, a[1], "x"), !.r[LR] = 4 * (here + 1)]
      [] m = "ret" -> [c EXCEPT !.stop = "ret", !.to = Get(c, a[1], "x")]
      [] m = "brk" -> [c EXCEPT !.stop = "debug"]
      [] m = "nop" -> c
      [] m = "adr_imm" -> Set(c, a[1], "x", 4 * here + a[2][2])

Step(state, i, next) ==
    LET m == i[1]  w == i[2]  a == i[3]
        c == [state EXCEPT !.pc = next]
    IN CASE m \in {"b_imm", "bc_imm", "cbz", "cbnz", "b_r", "bl_r", "ret", "brk", "nop", "adr_imm"} ->
              Branch(c, m, w, a, next - 1)
         [] m \in {"add", "adds", "sub", "subs", "add_imm", "add_sh", "cmp", "cmp_imm", "cmn_imm",
                   "cmp_sh", "cmp_ext"} -> AddSub(c, m, w, a)
         [] m \in {"movz", "movn", "movk"} -> MoveWide(c, m, w, a)
         [] m \in {"mul", "msub", "smull", "smulh", "sdiv"} -> Multiply(c, m, w, a)
         [] m \in {"lslv", "lsrv", "asrv", "rorv", "lsl_imm", "lsr_imm", "and_imm", "and_sh", "orr_sh",
                   "eor_sh", "orn_sh", "mov", "rbit", "clz", "sxtw", "uxtw", "uxtb"} -> Bitwise(c, m, w, a)
         [] m \in {"cset", "csel", "csinv"} -> Conditional(c, m, w, a)
         [] m \in {"ldr_imm", "ldr_unscaled", "ldr_ind", "str_imm", "str_unscaled", "str_ind"} ->
              Single(c, m, w, a)
         [] m \in {"stp_pre", "ldp_post"} -> Pair(c, m, w, a)
         [] m \in {"ldar", "stlr", "ldaxr", "stlxr", "swp", "ldadd", "cas"} -> Atomic(c, m, w, a)
         [] m \in {"scvtf", "fcvtzs", "fmov_fs", "fmov_sf", "cnt", "addv"} -> Crossing(c, m, w, a)
         [] m \in {"fmov", "fadd", "fsub", "fmul", "fdiv", "fabs", "fneg", "fsqrt", "fcmp", "fcvt"}
              \/ m \in DOMAIN RoundMode -> Float(c, m, w, a)
         [] OTHER -> Fault(c)
=============================================================================
