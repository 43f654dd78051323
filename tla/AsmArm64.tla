------------------------------ MODULE AsmArm64 ------------------------------
(***************************************************************************)
(* The AArch64 assembler of dora-asm/src/arm64.rs.                         *)
(*                                                                         *)
(* An instruction word is the set of its one bits, so that v << k is       *)
(* Sh(v, k) and | is union, overlapping fields included.  An instruction   *)
(* class returns the word and whether its assertions hold.  A method is a  *)
(* name and a width: "x" and "w" for the general registers, "d", "s", "h"  *)
(* (and "b" in memory) otherwise, a pair of them for the moves between     *)
(* register files; the suffix _w of the Rust name is the width "w".        *)
(*                                                                         *)
(* Operands are tagged: <<"r", n>> a Register (REG_ZERO is 100, REG_SP     *)
(* 101), <<"v", n>> a NeonRegister, <<"i", n>> a number, <<"e", Extend>>,  *)
(* <<"s", Shift>>, <<"c", Cond>>, <<"b", bits>> a 64-bit immediate.        *)
(***************************************************************************)
EXTENDS Integers, FiniteSets, FiniteSetsExt, Sequences

REG_ZERO == <<"r", 100>>
REG_SP == <<"r", 101>>

IsGpr(r) == r[2] <= 30
IsGprOrZero(r) == IsGpr(r) \/ r = REG_ZERO
IsGprOrSp(r) == IsGpr(r) \/ r = REG_SP

\* encoding, encoding_zero, encoding_sp and encoding_zero_or_sp, whose
\* assertions the classes repeat.
Enc(r) == IF r[2] <= 31 THEN r[2] ELSE 31

Bits(v) == {k \in 0..30 : (v \div 2^k) % 2 = 1}
Sh(v, k) == {b + k : b \in Bits(v)}

fits_u(bits, imm) == imm \in 0..(2^bits - 1)
fits_i(bits, imm) == imm \in -(2^(bits - 1))..(2^(bits - 1) - 1)

\* The bits of a signed number of a width.
Low(bits, imm) == imm % 2^bits

Cond == [EQ |-> 0, NE |-> 1, CS |-> 2, HS |-> 2, CC |-> 3, LO |-> 3, MI |-> 4, PL |-> 5,
         VS |-> 6, VC |-> 7, HI |-> 8, LS |-> 9, GE |-> 10, LT |-> 11, GT |-> 12, LE |-> 13]

Invert == [EQ |-> "NE", NE |-> "EQ", CS |-> "CC", HS |-> "CC", CC |-> "CS", LO |-> "CS",
           MI |-> "PL", PL |-> "MI", VS |-> "VC", VC |-> "VS", HI |-> "LS", LS |-> "HI",
           GE |-> "LT", LT |-> "GE", GT |-> "LE", LE |-> "GT"]

Extend == [UXTB |-> 0, UXTH |-> 1, LSL |-> 2, UXTW |-> 2, UXTX |-> 3,
           SXTB |-> 4, SXTH |-> 5, SXTW |-> 6, SXTX |-> 7]
LdstExtend == [UXTW |-> 2, LSL |-> 3, SXTW |-> 6, SXTX |-> 7]

Shift == [LSL |-> 0, LSR |-> 1, ASR |-> 2, ROR |-> 3]
LSL == <<"s", "LSL">>
UXTX == <<"e", "UXTX">>

-----------------------------------------------------------------------------
(* mod cls: one operator per instruction class.                            *)

addsub_extreg(sf, op, s, rm, option, imm3, rn, rd) ==
    [ok |-> /\ IsGprOrZero(rm) /\ fits_u(2, imm3[2]) /\ IsGprOrSp(rn)
            /\ IF s # 0 THEN IsGprOrZero(rd) ELSE IsGprOrSp(rd),
     word |-> Sh(sf, 31) \cup Sh(op, 30) \cup Sh(s, 29) \cup Sh(11, 24) \cup Sh(1, 21)
              \cup Sh(Enc(rm), 16) \cup Sh(Extend[option[2]], 13) \cup Sh(imm3[2], 10)
              \cup Sh(Enc(rn), 5) \cup Bits(Enc(rd))]

addsub_shreg(sf, op, s, shift, rm, imm6, rn, rd) ==
    [ok |-> /\ shift[2] # "ROR" /\ IsGpr(rm) /\ fits_u(6, imm6[2])
            /\ IsGprOrZero(rn) /\ IsGprOrZero(rd),
     word |-> Sh(11, 24) \cup Sh(sf, 31) \cup Sh(op, 30) \cup Sh(s, 29)
              \cup Sh(Shift[shift[2]], 22) \cup Sh(Enc(rm), 16) \cup Sh(imm6[2], 10)
              \cup Sh(Enc(rn), 5) \cup Bits(Enc(rd))]

addsub_imm(sf, op, s, shift, imm12, rn, rd) ==
    [ok |-> /\ fits_u(1, shift[2]) /\ fits_u(12, imm12[2]) /\ IsGprOrSp(rn)
            /\ IF s # 0 THEN IsGprOrZero(rd) ELSE IsGprOrSp(rd),
     word |-> Sh(17, 24) \cup Sh(sf, 31) \cup Sh(op, 30) \cup Sh(s, 29) \cup Sh(shift[2], 22)
              \cup Sh(imm12[2], 10) \cup Sh(Enc(rn), 5) \cup Bits(Enc(rd))]

atomic_op(size, a, r, rs, o3, rn, rt) ==
    [ok |-> IsGpr(rs) /\ IsGpr(rn) /\ IsGpr(rt),
     word |-> Sh(size, 30) \cup Sh(7, 27) \cup Sh(a, 23) \cup Sh(r, 22) \cup Sh(1, 21)
              \cup Sh(Enc(rs), 16) \cup Sh(o3, 15) \cup Sh(Enc(rn), 5) \cup Bits(Enc(rt))]

bitfield(sf, opc, n, immr, imms, rn, rd) ==
    [ok |-> fits_u(6, immr) /\ fits_u(6, imms) /\ IsGpr(rn) /\ IsGpr(rd),
     word |-> Sh(sf, 31) \cup Sh(opc, 29) \cup Sh(38, 23) \cup Sh(n, 22)
              \cup Sh(Low(6, immr), 16) \cup Sh(Low(6, imms), 10)
              \cup Sh(Enc(rn), 5) \cup Bits(Enc(rd))]

cmp_branch_imm(sf, op, rt, imm19) ==
    [ok |-> fits_i(19, imm19) /\ IsGpr(rt),
     word |-> Sh(sf, 31) \cup Sh(26, 25) \cup Sh(op, 24) \cup Sh(Low(19, imm19), 5)
              \cup Bits(Enc(rt))]

cond_branch_imm(cond, imm19) ==
    [ok |-> fits_i(19, imm19),
     word |-> Sh(84, 24) \cup Sh(Low(19, imm19), 5) \cup Bits(Cond[cond[2]])]

csel(sf, op, rm, cond, op2, rn, rd) ==
    [ok |-> IsGprOrZero(rm) /\ IsGprOrZero(rn) /\ IsGpr(rd),
     word |-> Sh(212, 21) \cup Sh(sf, 31) \cup Sh(op, 30) \cup Sh(Enc(rm), 16)
              \cup Sh(Cond[cond[2]], 12) \cup Sh(op2, 10) \cup Sh(Enc(rn), 5) \cup Bits(Enc(rd))]

dataproc1(sf, opcode, rn, rd) ==
    [ok |-> IsGpr(rn) /\ IsGpr(rd),
     word |-> Sh(sf, 31) \cup Sh(1, 30) \cup Sh(214, 21) \cup Sh(opcode, 10)
              \cup Sh(Enc(rn), 5) \cup Bits(Enc(rd))]

dataproc2(sf, rm, opcode, rn, rd) ==
    [ok |-> IsGpr(rm) /\ IsGpr(rn) /\ IsGpr(rd),
     word |-> Sh(sf, 31) \cup Sh(214, 21) \cup Sh(Enc(rm), 16) \cup Sh(opcode, 10)
              \cup Sh(Enc(rn), 5) \cup Bits(Enc(rd))]

dataproc3(sf, op31, rm, o0, ra, rn, rd) ==
    [ok |-> IsGpr(rm) /\ IsGprOrZero(ra) /\ IsGpr(rn) /\ IsGpr(rd),
     word |-> Sh(sf, 31) \cup Sh(27, 24) \cup Sh(op31, 21) \cup Sh(Enc(rm), 16) \cup Sh(o0, 15)
              \cup Sh(Enc(ra), 10) \cup Sh(Enc(rn), 5) \cup Bits(Enc(rd))]

exception(opc, imm16) ==
    [ok |-> fits_u(16, imm16[2]), word |-> Sh(212, 24) \cup Sh(opc, 21) \cup Sh(imm16[2], 5)]

\* The comparison and the two-operand instructions take a type of one bit:
\* their half-precision forms never pass the assertion.
fp_compare(ty, rm, rn, opcode2) ==
    [ok |-> fits_u(1, ty),
     word |-> Sh(30, 24) \cup Sh(ty, 22) \cup Sh(1, 21) \cup Sh(Enc(rm), 16) \cup Sh(8, 10)
              \cup Sh(Enc(rn), 5) \cup Bits(opcode2)]

fp_dataproc1(ty, opcode, rn, rd) ==
    [ok |-> fits_u(2, ty),
     word |-> Sh(30, 24) \cup Sh(ty, 22) \cup Sh(1, 21) \cup Sh(opcode, 15) \cup Sh(16, 10)
              \cup Sh(Enc(rn), 5) \cup Bits(Enc(rd))]

fp_dataproc2(ty, rm, opcode, rn, rd) ==
    [ok |-> fits_u(1, ty),
     word |-> Sh(30, 24) \cup Sh(ty, 22) \cup Sh(1, 21) \cup Sh(Enc(rm), 16) \cup Sh(opcode, 12)
              \cup Sh(2, 10) \cup Sh(Enc(rn), 5) \cup Bits(Enc(rd))]

\* Its callers take encoding() of the general register.
fp_int(sf, ty, rmode, opcode, rn, rd) ==
    [ok |-> fits_u(5, rn[2]) /\ fits_u(5, rd[2]),
     word |-> Sh(sf, 31) \cup Sh(30, 24) \cup Sh(ty, 22) \cup Sh(1, 21) \cup Sh(rmode, 19)
              \cup Sh(opcode, 16) \cup Sh(Enc(rn), 5) \cup Bits(Enc(rd))]

ldst_exclusive(size, o2, l, o1, rs, o0, rn, rt) ==
    [ok |-> IsGprOrZero(rs) /\ IsGprOrSp(rn) /\ IsGprOrZero(rt),
     word |-> Sh(size, 30) \cup Sh(8, 24) \cup Sh(o2, 23) \cup Sh(l, 22) \cup Sh(o1, 21)
              \cup Sh(Enc(rs), 16) \cup Sh(o0, 15) \cup Sh(Enc(REG_ZERO), 10)
              \cup Sh(Enc(rn), 5) \cup Bits(Enc(rt))]

\* ldst_pair, ldst_pair_post and ldst_pair_pre differ in the field mode.
ldst_pair(mode, opc, l, imm7, rt2, rn, rt) ==
    [ok |-> fits_i(7, imm7[2]) /\ IsGpr(rt2) /\ IsGprOrSp(rn) /\ IsGpr(rt),
     word |-> Sh(opc, 30) \cup Sh(5, 27) \cup Sh(mode, 23) \cup Sh(l, 22)
              \cup Sh(Low(7, imm7[2]), 15) \cup Sh(Enc(rt2), 10) \cup Sh(Enc(rn), 5)
              \cup Bits(Enc(rt))]

logical_imm(sf, opc, n_immr_imms, rn, rd) ==
    [ok |-> fits_u(13, n_immr_imms) /\ IsGpr(rn) /\ IsGpr(rd),
     word |-> Sh(sf, 31) \cup Sh(opc, 29) \cup Sh(36, 23) \cup Sh(n_immr_imms, 10)
              \cup Sh(Enc(rn), 5) \cup Bits(Enc(rd))]

logical_shreg(sf, opc, shift, n, rm, imm6, rn, rd) ==
    [ok |-> IsGprOrZero(rm) /\ fits_u(5, imm6[2]) /\ IsGprOrZero(rn) /\ IsGpr(rd),
     word |-> Sh(10, 24) \cup Sh(sf, 31) \cup Sh(opc, 29) \cup Sh(Shift[shift[2]], 22)
              \cup Sh(n, 21) \cup Sh(Enc(rm), 16) \cup Sh(imm6[2], 10)
              \cup Sh(Enc(rn), 5) \cup Bits(Enc(rd))]

move_wide_imm(sf, opc, hw, imm16, rd) ==
    [ok |-> fits_u(IF sf = 0 THEN 1 ELSE 2, hw[2]) /\ fits_u(16, imm16[2]) /\ IsGpr(rd),
     word |-> Sh(37, 23) \cup Sh(sf, 31) \cup Sh(opc, 29) \cup Sh(hw[2], 21)
              \cup Sh(imm16[2], 5) \cup Bits(Enc(rd))]

ldst_regimm(size, v, opc, imm12, rn, rt) ==
    [ok |-> fits_u(12, imm12[2]) /\ IsGprOrSp(rn),
     word |-> Sh(57, 24) \cup Sh(size, 30) \cup Sh(v, 26) \cup Sh(opc, 22) \cup Sh(imm12[2], 10)
              \cup Sh(Enc(rn), 5) \cup Bits(Enc(rt))]

ldst_regoffset(size, v, opc, rm, option, s, rn, rt) ==
    [ok |-> /\ IsGprOrZero(rm) /\ option[2] \in DOMAIN LdstExtend
            /\ fits_u(1, s[2]) /\ IsGprOrSp(rn),
     word |-> Sh(7, 27) \cup Sh(1, 21) \cup Sh(2, 10) \cup Sh(size, 30) \cup Sh(v, 26)
              \cup Sh(opc, 22) \cup Sh(Enc(rm), 16) \cup Sh(LdstExtend[option[2]], 13)
              \cup Sh(s[2], 12) \cup Sh(Enc(rn), 5) \cup Bits(Enc(rt))]

ldst_reg_unscaledimm(size, v, opc, imm9, rn, rt) ==
    [ok |-> fits_i(9, imm9[2]) /\ IsGprOrSp(rn),
     word |-> Sh(size, 30) \cup Sh(7, 27) \cup Sh(v, 26) \cup Sh(opc, 22)
              \cup Sh(Low(9, imm9[2]), 12) \cup Sh(Enc(rn), 5) \cup Bits(Enc(rt))]

\* simd_across_lanes and simd_2regs_misc: the two differ in the field group.
simd(group, q, size, opcode, rn, rd) ==
    [ok |-> fits_u(1, q[2]) /\ fits_u(2, size[2]),
     word |-> Sh(q[2], 30) \cup Sh(14, 24) \cup Sh(size[2], 22) \cup Sh(group, 17)
              \cup Sh(opcode, 12) \cup Sh(2, 10) \cup Sh(Enc(rn), 5) \cup Bits(Enc(rd))]

pcrel(op, imm, rd) ==
    [ok |-> fits_i(21, imm[2]) /\ IsGpr(rd),
     word |-> Sh(1, 28) \cup Sh(op, 31) \cup Sh(imm[2] % 4, 29)
              \cup Sh(Low(19, imm[2] \div 4), 5) \cup Bits(Enc(rd))]

system(imm) == [ok |-> fits_u(7, imm), word |-> Sh(54531, 16) \cup Bits(8223) \cup Sh(imm, 5)]

uncond_branch_imm(op, imm26) ==
    [ok |-> fits_i(26, imm26), word |-> Sh(5, 26) \cup Sh(op, 31) \cup Bits(Low(26, imm26))]

uncond_branch_reg(opc, rn) ==
    [ok |-> IsGpr(rn), word |-> Sh(107, 25) \cup Sh(opc, 21) \cup Sh(31, 16) \cup Sh(Enc(rn), 5)]

-----------------------------------------------------------------------------
(* encode_logical_imm: bits is the set of one bits of the 64-bit number.   *)

Run(bits) == bits # {} /\ bits = Min(bits)..Max(bits)     \* is_shifted_mask

\* The smallest power of two that the immediate repeats at.
RECURSIVE ElementSize(_, _)
ElementSize(bits, size) ==
    LET half == size \div 2
        low == {b \in bits : b < half}
        high == {b - half : b \in {c \in bits : c \in half..(size - 1)}}
    IN IF size > 2 /\ low = high THEN ElementSize(bits, half) ELSE size

\* Where the run of ones starts and how long it is.  An element that is not a
\* run is one that wraps: its zeros are a run.
RunOfOnes(bits, size) ==
    LET element == {b \in bits : b < size}
        zeros == (0..(size - 1)) \ element
    IN IF Run(element)
       THEN [rotation |-> (size - Min(element)) % size, ones |-> Cardinality(element)]
       ELSE [rotation |-> size - 1 - Max(zeros), ones |-> Cardinality(element)]

\* Some(..): the immediate has an encoding.
HasLogicalImm(bits, reg_size) ==
    LET size == ElementSize(bits, reg_size)
        element == {b \in bits : b < size}
    IN /\ bits # {} /\ bits # 0..(reg_size - 1) /\ bits \subseteq 0..(reg_size - 1)
       /\ Run(element) \/ Run((0..(size - 1)) \ element)

encode_logical_imm(bits, reg_size) ==
    LET size == ElementSize(bits, reg_size)
        run == RunOfOnes(bits, size)
        \* !(size - 1) << 1 in its seven low bits
        nimms == (128 - 2 * size) + run.ones - 1
        n == 1 - ((nimms \div 64) % 2)
    IN n * 4096 + run.rotation * 64 + (nimms % 64)

-----------------------------------------------------------------------------
(* The methods, from the last of the source to the first: each group ends  *)
(* with the one after it.  a is the list of arguments.                     *)

I(n) == <<"i", n>>

\* What a width says: sf, the FLOAT_TYPE constants, the size of an access and
\* whether it is one of the vector registers.
SF == [x |-> 1, w |-> 0, xd |-> 1, xs |-> 1, xh |-> 1, wd |-> 0, ws |-> 0, wh |-> 0]
FLOAT_TYPE == [s |-> 0, d |-> 1, h |-> 3, xs |-> 0, xd |-> 1, xh |-> 3,
               ws |-> 0, wd |-> 1, wh |-> 3]
SIZE == [x |-> 3, w |-> 2, h |-> 1, b |-> 0, d |-> 3, s |-> 2]
Vector(w) == IF w \in {"d", "s"} THEN 1 ELSE 0

\* add and sub, where only the extended form can name the stack pointer.
addsub(sf, op, a) ==
    IF REG_SP \in {a[1], a[2]}
    THEN addsub_extreg(sf, op, 0, a[3], UXTX, I(0), a[2], a[1])
    ELSE addsub_shreg(sf, op, 0, LSL, a[3], I(0), a[2], a[1])

\* The four orderings of an atomic: plain, acquire, acquire-release, release.
Acquire(order) == IF order \in {"a", "al"} THEN 1 ELSE 0
Release(order) == IF order \in {"al", "l"} THEN 1 ELSE 0

\* sub to uxtw
SubToUxtw(m, w, a) ==
    CASE m = "sub" -> addsub(SF[w], 1, a)
      [] m = "sub_ext" -> addsub_extreg(SF[w], 1, 0, a[3], a[4], a[5], a[2], a[1])
      [] m = "sub_sh" -> addsub_shreg(SF[w], 1, 0, a[4], a[3], a[5], a[2], a[1])
      [] m = "sub_imm" -> addsub_imm(SF[w], 1, 0, a[4], a[3], a[2], a[1])
      [] m = "subs" -> addsub_shreg(SF[w], 1, 1, LSL, a[3], I(0), a[2], a[1])
      [] m = "subs_ext" -> addsub_extreg(SF[w], 1, 1, a[3], a[4], a[5], a[2], a[1])
      [] m = "subs_imm" -> addsub_imm(SF[w], 1, 1, a[4], a[3], a[2], a[1])
      [] m = "subs_sh" -> addsub_shreg(SF[w], 1, 1, a[4], a[3], a[5], a[2], a[1])
      [] m = "sxtw" -> bitfield(1, 0, 1, 0, 31, a[2], a[1])
      [] m = "ubfm" -> bitfield(SF[w], 2, SF[w], a[3][2], a[4][2], a[2], a[1])
      [] m = "udiv" -> dataproc2(SF[w], a[3], 2, a[2], a[1])
      [] m = "uxtb" -> bitfield(0, 2, 0, 0, 7, a[2], a[1])
      [] m = "uxtw" -> bitfield(1, 2, 1, 0, 31, a[2], a[1])

\* scvtf_d to smulh
ScvtfToSmulh(m, w, a) ==
    CASE m = "scvtf" -> fp_int(SF[w], FLOAT_TYPE[w], 0, 2, a[2], a[1])
      [] m = "smaddl" -> dataproc3(1, 1, a[3], 0, a[4], a[2], a[1])
      [] m = "smull" -> dataproc3(1, 1, a[3], 0, REG_ZERO, a[2], a[1])
      [] m = "smulh" -> dataproc3(1, 2, a[3], 0, REG_ZERO, a[2], a[1])
      [] OTHER -> SubToUxtw(m, w, a)

\* movn to sdiv_w.  rev and rev_w emit the same word.
MovnToSdiv(m, w, a) ==
    CASE m = "movn" -> move_wide_imm(SF[w], 0, a[3], a[2], a[1])
      [] m = "movz" -> move_wide_imm(SF[w], 2, a[3], a[2], a[1])
      [] m = "movk" -> move_wide_imm(SF[w], 3, a[3], a[2], a[1])
      [] m = "msub" -> dataproc3(SF[w], 0, a[3], 1, a[4], a[2], a[1])
      [] m \in {"mul", "muls"} -> dataproc3(SF[w], 0, a[3], 0, REG_ZERO, a[2], a[1])
      [] m = "nop" -> system(0)
      [] m = "orn_sh" -> logical_shreg(SF[w], 1, a[4], 1, a[3], a[5], a[2], a[1])
      [] m = "orr_sh" -> logical_shreg(SF[w], 1, a[4], 0, a[3], a[5], a[2], a[1])
      [] m = "rbit" -> dataproc1(SF[w], 0, a[2], a[1])
      [] m = "ret" -> uncond_branch_reg(2, a[1])
      [] m = "rev" -> dataproc1(0, 1, a[2], a[1])
      [] m = "rorv" -> dataproc2(SF[w], a[3], 11, a[2], a[1])
      [] m = "sbfm" -> bitfield(SF[w], 0, SF[w], a[3][2], a[4][2], a[2], a[1])
      [] m = "sdiv" -> dataproc2(SF[w], a[3], 3, a[2], a[1])
      [] OTHER -> ScvtfToSmulh(m, w, a)

\* stxr to mov_w
StxrToMov(m, w, a) ==
    LET val == IF SF[w] = 1 THEN 64 ELSE 32 IN
    CASE m = "stxr" -> ldst_exclusive(2 + SF[w], 0, 0, 0, a[1], 0, a[3], a[2])
      [] m = "stlxr" -> ldst_exclusive(2 + SF[w], 0, 0, 0, a[1], 1, a[3], a[2])
      [] m = "swp" -> atomic_op(2 + SF[w], Acquire(a[4][2]), Release(a[4][2]), a[1], 1, a[3], a[2])
      [] m = "lsl_imm" ->
            bitfield(SF[w], 2, SF[w], (val - a[3][2]) % val, val - 1 - a[3][2], a[2], a[1])
      [] m = "lslv" -> dataproc2(SF[w], a[3], 8, a[2], a[1])
      [] m = "lsr_imm" -> bitfield(SF[w], 2, SF[w], a[3][2], val - 1, a[2], a[1])
      [] m = "lsrv" -> dataproc2(SF[w], a[3], 9, a[2], a[1])
      [] m = "madd" -> dataproc3(SF[w], 0, a[3], 0, a[4], a[2], a[1])
      [] m = "mov" -> IF REG_SP \in {a[1], a[2]}
                      THEN addsub_imm(SF[w], 0, 0, I(0), I(0), a[2], a[1])
                      ELSE logical_shreg(SF[w], 1, LSL, 0, a[2], I(0), REG_ZERO, a[1])
      [] OTHER -> MovnToSdiv(m, w, a)

\* ldr_imm_s to stp_pre_w: the exclusive accesses and the pairs.
LdxrToStp(m, w, a) ==
    CASE m = "ldxr" -> ldst_exclusive(2 + SF[w], 0, 1, 0, REG_ZERO, 0, a[2], a[1])
      [] m = "ldaxr" -> ldst_exclusive(2 + SF[w], 0, 1, 0, REG_ZERO, 1, a[2], a[1])
      [] m = "stlr" -> ldst_exclusive(2 + SF[w], 1, 0, 0, REG_ZERO, 1, a[2], a[1])
      [] m = "stp" -> ldst_pair(2, 2 * SF[w], 0, a[4], a[2], a[3], a[1])
      [] m = "stp_pre" -> ldst_pair(3, 2 * SF[w], 0, a[4], a[2], a[3], a[1])
      [] OTHER -> StxrToMov(m, w, a)

\* ldadd to ldp_post_w
LdaddToLdp(m, w, a) ==
    CASE m = "ldadd" -> atomic_op(2 + SF[w], Acquire(a[4][2]), Release(a[4][2]), a[1], 0, a[3], a[2])
      [] m = "ldar" -> ldst_exclusive(2 + SF[w], 1, 1, 0, REG_ZERO, 1, a[2], a[1])
      [] m = "ldp" -> ldst_pair(2, 2 * SF[w], 1, a[4], a[2], a[3], a[1])
      [] m = "ldp_post" -> ldst_pair(1, 2 * SF[w], 1, a[4], a[2], a[3], a[1])
      [] OTHER -> LdxrToStp(m, w, a)

\* fmul_h to fsub_d
FmulToFsub(m, w, a) ==
    LET f1(opcode) == fp_dataproc1(FLOAT_TYPE[w], opcode, a[2], a[1]) IN
    CASE m = "fmul" -> fp_dataproc2(FLOAT_TYPE[w], a[3], 0, a[2], a[1])
      [] m = "fabs" -> f1(1)
      [] m = "fneg" -> f1(2)
      [] m = "frintn" -> f1(8)
      [] m = "frintp" -> f1(9)
      [] m = "frintm" -> f1(10)
      [] m = "frintz" -> f1(11)
      [] m = "frinta" -> f1(12)
      [] m = "fsqrt" -> f1(3)
      [] m = "fsub" -> fp_dataproc2(FLOAT_TYPE[w], a[3], 3, a[2], a[1])
      [] OTHER -> LdaddToLdp(m, w, a)

\* fmov_fs_d to fmov_sf_ws
FmovBetween(m, w, a) ==
    CASE m = "fmov_fs" -> fp_int(SF[w], FLOAT_TYPE[w], 0, 7, a[2], a[1])
      [] m = "fmov_sf" -> fp_int(SF[w], FLOAT_TYPE[w], 0, 6, a[2], a[1])
      [] OTHER -> FmulToFsub(m, w, a)

\* fcvtzs_d to fmov_s.
FcvtzsToFmov(m, w, a) ==
    CASE m = "fcvtzs" -> fp_int(SF[w], FLOAT_TYPE[w], 3, 0, a[2], a[1])
      [] m = "fdiv" -> fp_dataproc2(FLOAT_TYPE[w], a[3], 1, a[2], a[1])
      [] m = "fmov" -> fp_dataproc1(FLOAT_TYPE[w], 0, a[2], a[1])
      [] OTHER -> FmovBetween(m, w, a)

\* fadd_h to fcvt_sd.
FaddToFcvt(m, w, a) ==
    CASE m = "fadd" -> fp_dataproc2(FLOAT_TYPE[w], a[3], 2, a[2], a[1])
      [] m = "fcmp" -> fp_compare(FLOAT_TYPE[w], a[2], a[1], 0)
      [] m = "fcmpe" -> fp_compare(FLOAT_TYPE[w], a[2], a[1], 16)
      [] m = "fcvt" /\ w = "d" -> fp_dataproc1(1, 4, a[2], a[1])     \* fcvt_ds
      [] m = "fcvt" /\ w = "s" -> fp_dataproc1(0, 5, a[2], a[1])     \* fcvt_sd
      [] OTHER -> FcvtzsToFmov(m, w, a)

\* cls to eor_sh.  cmp_ext_w calls the 64-bit subs_ext.
ClsToEor(m, w, a) ==
    CASE m = "cls" -> dataproc1(SF[w], 5, a[2], a[1])
      [] m = "clz" -> dataproc1(SF[w], 4, a[2], a[1])
      [] m = "cmn_imm" -> addsub_imm(SF[w], 0, 1, a[3], a[2], a[1], REG_ZERO)
      [] m = "cmp" -> addsub_shreg(SF[w], 1, 1, LSL, a[2], I(0), a[1], REG_ZERO)
      [] m = "cmp_ext" -> addsub_extreg(1, 1, 1, a[2], a[3], a[4], a[1], REG_ZERO)
      [] m = "cmp_imm" -> addsub_imm(SF[w], 1, 1, a[3], a[2], a[1], REG_ZERO)
      [] m = "cmp_sh" -> addsub_shreg(SF[w], 1, 1, a[3], a[2], a[4], a[1], REG_ZERO)
      [] m = "cnt" -> simd(16, a[1], a[2], 5, a[4], a[3])
      [] m = "csel" -> csel(SF[w], 0, a[3], a[4], 0, a[2], a[1])
      [] m = "cset" -> csel(SF[w], 0, REG_ZERO, <<"c", Invert[a[2][2]]>>, 1, REG_ZERO, a[1])
      [] m = "csinc" -> csel(SF[w], 0, a[3], a[4], 1, a[2], a[1])
      [] m = "csinv" -> csel(SF[w], 1, a[3], a[4], 0, a[2], a[1])
      [] m = "eon_sh" -> logical_shreg(SF[w], 2, a[4], 1, a[3], a[5], a[2], a[1])
      [] m = "eor_sh" -> logical_shreg(SF[w], 2, a[4], 0, a[3], a[5], a[2], a[1])
      [] OTHER -> FaddToFcvt(m, w, a)

\* asrv to casl: cas has an ordering as its last argument.
AsrvToCas(m, w, a) ==
    CASE m = "asrv" -> dataproc2(SF[w], a[3], 10, a[2], a[1])
      [] m = "b_r" -> uncond_branch_reg(0, a[1])
      [] m = "bfm" -> bitfield(SF[w], 1, SF[w], a[3][2], a[4][2], a[2], a[1])
      [] m = "bic_sh" -> logical_shreg(SF[w], 0, a[4], 1, a[3], a[5], a[2], a[1])
      [] m = "bics_sh" -> logical_shreg(SF[w], 3, a[4], 1, a[3], a[5], a[2], a[1])
      [] m = "bl_imm" -> uncond_branch_imm(1, a[1][2])
      [] m = "bl_r" -> uncond_branch_reg(1, a[1])
      [] m = "brk" -> exception(1, a[1])
      [] m = "cas" -> ldst_exclusive(2 + SF[w], 1, Acquire(a[4][2]), 1, a[1],
                                     Release(a[4][2]), a[3], a[2])
      [] OTHER -> ClsToEor(m, w, a)

\* add to ands_sh
AddToAnds(m, w, a) ==
    CASE m = "add" -> addsub(SF[w], 0, a)
      [] m = "add_ext" -> addsub_extreg(SF[w], 0, 0, a[3], a[4], a[5], a[2], a[1])
      [] m = "add_sh" -> addsub_shreg(SF[w], 0, 0, a[4], a[3], a[5], a[2], a[1])
      [] m = "add_imm" -> addsub_imm(SF[w], 0, 0, a[4], a[3], a[2], a[1])
      [] m = "adds_imm" -> addsub_imm(SF[w], 0, 1, a[4], a[3], a[2], a[1])
      [] m = "adds_sh" -> addsub_shreg(SF[w], 0, 1, a[4], a[3], a[5], a[2], a[1])
      [] m = "adds" -> addsub_shreg(SF[w], 0, 1, LSL, a[3], I(0), a[2], a[1])
      [] m = "addv" -> simd(24, a[1], a[2], 27, a[4], a[3])
      [] m = "adr_imm" -> pcrel(0, a[2], a[1])
      [] m = "adrp_imm" -> pcrel(1, a[2], a[1])
      [] m = "and_imm" ->
            LET size == IF SF[w] = 1 THEN 64 ELSE 32
                class == logical_imm(SF[w], 0, encode_logical_imm(a[3][2], size), a[2], a[1])
            IN IF HasLogicalImm(a[3][2], size) THEN class
               ELSE [ok |-> FALSE, word |-> {}]
      [] m = "and_sh" -> logical_shreg(SF[w], 0, a[4], 0, a[3], a[5], a[2], a[1])
      [] m = "ands_sh" -> logical_shreg(SF[w], 3, a[4], 0, a[3], a[5], a[2], a[1])
      [] OTHER -> AsrvToCas(m, w, a)

\* The three addressing forms of a single register; opc is 1 for a load.
Transfer(form, w, opc, a) ==
    CASE form = "imm" -> ldst_regimm(SIZE[w], Vector(w), opc, a[3], a[2], a[1])
      [] form = "ind" -> ldst_regoffset(SIZE[w], Vector(w), opc, a[3], a[4], a[5], a[2], a[1])
      [] form = "unscaled" -> ldst_reg_unscaledimm(SIZE[w], Vector(w), opc, a[3], a[2], a[1])

\* ldr_imm to ldr_unscaled_w: a load has no zero register.
ldr(form, w, a) ==
    [Transfer(form, w, 1, a) EXCEPT !.ok = @ /\ (Vector(w) = 0 => IsGpr(a[1]))]

\* str_imm to str_unscaled_w.
str(form, w, a) ==
    [Transfer(form, w, 0, a) EXCEPT !.ok = @ /\ (Vector(w) = 0 => IsGprOrZero(a[1]))]

Loads == [ldr_imm |-> "imm", ldr_ind |-> "ind", ldr_unscaled |-> "unscaled"]
Stores == [str_imm |-> "imm", str_ind |-> "ind", str_unscaled |-> "unscaled"]

\* The word a method emits, and whether its assertions hold.
Encode(m, w, a) ==
    CASE m \in DOMAIN Loads -> ldr(Loads[m], w, a)
      [] m \in DOMAIN Stores -> str(Stores[m], w, a)
      [] OTHER -> AddToAnds(m, w, a)

-----------------------------------------------------------------------------
(* Jumps: <<"b">>, <<"bc", condition>>, <<"cbz", register, width>> and     *)
(* <<"cbnz", register, width>>, by a distance in words.                    *)

branch(kind, distance) ==
    CASE kind[1] = "b" -> uncond_branch_imm(0, distance)
      [] kind[1] = "bc" -> cond_branch_imm(kind[2], distance)
      [] kind[1] = "cbz" -> cmp_branch_imm(SF[kind[3]], 0, kind[2], distance)
      [] kind[1] = "cbnz" -> cmp_branch_imm(SF[kind[3]], 1, kind[2], distance)
=============================================================================
