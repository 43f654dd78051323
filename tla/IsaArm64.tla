------------------------------ MODULE IsaArm64 ------------------------------
(***************************************************************************)
(* How an AArch64 processor reads the instruction words dora-asm emits,    *)
(* after the encoding tables of the architecture.  It shares no definition *)
(* with the encoder.                                                       *)
(*                                                                         *)
(* A word is the set of its one bits.  A decoded instruction is <<name,    *)
(* width, operands>>, with the name the architecture prefers when it has   *)
(* an alias; operands are tagged as in AsmArm64.                           *)
(***************************************************************************)
EXTENDS Integers, FiniteSets, FiniteSetsExt, Sequences

ZR == <<"r", 100>>
SP == <<"r", 101>>

\* Bits hi..lo of a word as a number, unsigned and signed.
Field(word, hi, lo) ==
    LET from[b \in lo..(hi + 1)] ==
            IF b > hi THEN 0 ELSE 2 * from[b + 1] + (IF b \in word THEN 1 ELSE 0)
    IN from[lo]
SignedField(word, hi, lo) ==
    Field(word, hi, lo) - (IF hi \in word THEN 2^(hi - lo + 1) ELSE 0)
Is(word, hi, lo, v) == Field(word, hi, lo) = v

\* Register fields: number 31 is the zero register or the stack pointer.
ZReg(word, lo) == LET n == Field(word, lo + 4, lo) IN IF n = 31 THEN ZR ELSE <<"r", n>>
SReg(word, lo) == LET n == Field(word, lo + 4, lo) IN IF n = 31 THEN SP ELSE <<"r", n>>
VReg(word, lo) == <<"v", Field(word, lo + 4, lo)>>
Imm(word, hi, lo) == <<"i", Field(word, hi, lo)>>
SImm(word, hi, lo) == <<"i", SignedField(word, hi, lo)>>

X(word) == IF 31 \in word THEN "x" ELSE "w"

ConditionName == <<"EQ", "NE", "CS", "CC", "MI", "PL", "VS", "VC",
                   "HI", "LS", "GE", "LT", "GT", "LE", "AL", "NV">>
CondOf(word, lo) == <<"c", ConditionName[Field(word, lo + 3, lo) + 1]>>
ExtendName == <<"UXTB", "UXTH", "UXTW", "UXTX", "SXTB", "SXTH", "SXTW", "SXTX">>
OffsetExtendName == <<"?", "?", "UXTW", "LSL", "?", "?", "SXTW", "SXTX">>
ShiftName == <<"LSL", "LSR", "ASR", "ROR">>
ShiftOf(word) == <<"s", ShiftName[Field(word, 23, 22) + 1]>>
Precision == <<"s", "d", "?", "h">>
PrecisionOf(word) == Precision[Field(word, 23, 22) + 1]

Unallocated == <<"unallocated", "x", <<>>>>

-----------------------------------------------------------------------------
(* Data processing, immediate.                                             *)

\* The bits a logical immediate stands for: a run of imms + 1 ones in an
\* element of 2 to 64 bits, rotated right by immr and repeated.
BitMask(word) ==
    LET len == IF 22 \in word THEN 6
               ELSE Max({k \in 0..5 : (10 + k) \notin word})
        esize == 2^len
        ones == Field(word, 15, 10) % esize
        rot == Field(word, 21, 16) % esize
    IN {j \in 0..(IF 31 \in word THEN 63 ELSE 31) : ((j % esize) + rot) % esize <= ones}

AddSubName(word) == CASE Field(word, 30, 29) = 0 -> "add" [] Field(word, 30, 29) = 1 -> "adds"
                      [] Field(word, 30, 29) = 2 -> "sub" [] Field(word, 30, 29) = 3 -> "subs"

DataImmediate(word) ==
    CASE Is(word, 28, 24, 16) ->
            <<IF 31 \in word THEN "adrp_imm" ELSE "adr_imm", "x",
              <<ZReg(word, 0), <<"i", SignedField(word, 23, 5) * 4 + Field(word, 30, 29)>>>>>>
      [] Is(word, 28, 23, 34) ->
            <<CASE AddSubName(word) = "add" -> "add_imm" [] AddSubName(word) = "adds" -> "adds_imm"
                [] AddSubName(word) = "sub" -> "sub_imm" [] AddSubName(word) = "subs" -> "subs_imm",
              X(word), <<IF 29 \in word THEN ZReg(word, 0) ELSE SReg(word, 0), SReg(word, 5),
                         Imm(word, 21, 10), Imm(word, 22, 22)>>>>
      [] Is(word, 28, 23, 36) /\ Is(word, 30, 29, 0) /\ (22 \in word => 31 \in word) ->
            <<"and_imm", X(word), <<SReg(word, 0), ZReg(word, 5), <<"b", BitMask(word)>>>>>>
      [] Is(word, 28, 23, 37) /\ ~ Is(word, 30, 29, 1) /\ (22 \in word => 31 \in word) ->
            <<CASE Is(word, 30, 29, 0) -> "movn" [] Is(word, 30, 29, 2) -> "movz"
                [] Is(word, 30, 29, 3) -> "movk",
              X(word), <<ZReg(word, 0), Imm(word, 20, 5), Imm(word, 22, 21)>>>>
      [] Is(word, 28, 23, 38) /\ ~ Is(word, 30, 29, 3) /\ (22 \in word <=> 31 \in word)
            /\ (31 \notin word => 21 \notin word /\ 15 \notin word) ->
            <<CASE Is(word, 30, 29, 0) -> "sbfm" [] Is(word, 30, 29, 1) -> "bfm"
                [] Is(word, 30, 29, 2) -> "ubfm",
              X(word), <<ZReg(word, 0), ZReg(word, 5), Imm(word, 21, 16), Imm(word, 15, 10)>>>>
      [] OTHER -> Unallocated

-----------------------------------------------------------------------------
(* Branches, exceptions and hints.                                         *)

Branch(word) ==
    CASE Is(word, 30, 26, 5) -> <<IF 31 \in word THEN "bl_imm" ELSE "b_imm", "x",
                                  <<SImm(word, 25, 0)>>>>
      [] Is(word, 30, 25, 26) -> <<IF 24 \in word THEN "cbnz" ELSE "cbz", X(word),
                                   <<ZReg(word, 0), SImm(word, 23, 5)>>>>
      [] Is(word, 31, 24, 84) /\ 4 \notin word ->
            <<"bc_imm", "x", <<CondOf(word, 0), SImm(word, 23, 5)>>>>
      [] Is(word, 31, 25, 107) /\ Is(word, 20, 16, 31) /\ Is(word, 15, 10, 0) /\ Is(word, 4, 0, 0)
            /\ Field(word, 24, 21) \in 0..2 ->
            <<CASE Is(word, 24, 21, 0) -> "b_r" [] Is(word, 24, 21, 1) -> "bl_r"
                [] Is(word, 24, 21, 2) -> "ret", "x", <<ZReg(word, 5)>>>>
      [] Is(word, 31, 21, 1697) /\ Is(word, 4, 0, 0) -> <<"brk", "x", <<Imm(word, 20, 5)>>>>
      [] Is(word, 31, 12, 872498) /\ Is(word, 11, 0, 31) -> <<"nop", "x", <<>>>>
      [] OTHER -> Unallocated

-----------------------------------------------------------------------------
(* Loads and stores.                                                       *)

OrderName(acquire, release) ==
    CASE acquire /\ ~release -> "a" [] acquire /\ release -> "al"
      [] ~acquire /\ release -> "l" [] ~acquire /\ ~release -> ""

\* Exclusive, ordered and compare-and-swap accesses: o2, L, o1, o0.
Exclusive(word) ==
    LET w == IF 30 \in word THEN "x" ELSE "w"
        rs == ZReg(word, 16)  rn == SReg(word, 5)  rt == ZReg(word, 0)
        o2 == 23 \in word  l == 22 \in word  o1 == 21 \in word  o0 == 15 \in word
    IN CASE o2 /\ o1 -> <<"cas", w, <<rs, rt, rn, <<"o", OrderName(l, o0)>>>>>>
         [] o2 /\ ~o1 /\ o0 -> <<IF l THEN "ldar" ELSE "stlr", w, <<rt, rn>>>>
         [] ~o2 /\ ~o1 /\ l -> <<IF o0 THEN "ldaxr" ELSE "ldxr", w, <<rt, rn>>>>
         [] ~o2 /\ ~o1 /\ ~l -> <<IF o0 THEN "stlxr" ELSE "stxr", w, <<rs, rt, rn>>>>
         [] OTHER -> Unallocated

\* Pairs: the signed offset, the post-indexed and the pre-indexed forms.
Pair(word) ==
    LET args == <<ZReg(word, 0), ZReg(word, 10), SReg(word, 5), SImm(word, 21, 15)>>
        load == IF 22 \in word THEN "ldp" ELSE "stp"
        mode == Field(word, 25, 23)
    IN IF 26 \in word \/ 30 \in word THEN Unallocated
       ELSE <<CASE mode = 2 -> load
                [] mode = 1 -> IF load = "ldp" THEN "ldp_post" ELSE "stp_post"
                [] mode = 3 -> IF load = "ldp" THEN "ldp_pre" ELSE "stp_pre"
                [] OTHER -> "?", X(word), args>>

\* The width of a register access: the size field and the register file.
AccessWidth(word) ==
    LET size == Field(word, 31, 30) IN
    IF 26 \in word THEN (CASE size = 3 -> "d" [] size = 2 -> "s" [] OTHER -> "?")
    ELSE (CASE size = 3 -> "x" [] size = 2 -> "w" [] size = 1 -> "h" [] size = 0 -> "b")

\* A single register: scaled offset, unscaled offset, register offset, or an
\* atomic operation on memory.
Single(word) ==
    LET w == AccessWidth(word)
        rt == IF 26 \in word THEN VReg(word, 0) ELSE ZReg(word, 0)
        load == 22 \in word
    IN CASE Is(word, 25, 24, 1) /\ 23 \notin word ->
              <<IF load THEN "ldr_imm" ELSE "str_imm", w, <<rt, SReg(word, 5), Imm(word, 21, 10)>>>>
         [] Is(word, 25, 24, 0) /\ 23 \notin word /\ 21 \notin word /\ Is(word, 11, 10, 0) ->
              <<IF load THEN "ldr_unscaled" ELSE "str_unscaled", w,
                <<rt, SReg(word, 5), SImm(word, 20, 12)>>>>
         [] Is(word, 25, 24, 0) /\ 23 \notin word /\ 21 \in word /\ Is(word, 11, 10, 2) ->
              <<IF load THEN "ldr_ind" ELSE "str_ind", w,
                <<rt, SReg(word, 5), ZReg(word, 16),
                  <<"e", OffsetExtendName[Field(word, 15, 13) + 1]>>, Imm(word, 12, 12)>>>>
         [] Is(word, 26, 24, 0) /\ 31 \in word /\ 21 \in word /\ Is(word, 14, 10, 0) ->
              <<IF 15 \in word THEN "swp" ELSE "ldadd", w,
                <<ZReg(word, 16), rt, SReg(word, 5),
                  <<"o", OrderName(23 \in word, 22 \in word)>>>>>>
         [] OTHER -> Unallocated

LoadStore(word) ==
    CASE Is(word, 29, 24, 8) /\ 31 \in word -> Exclusive(word)
      [] Is(word, 29, 27, 5) -> Pair(word)
      [] Is(word, 29, 27, 7) -> Single(word)
      [] OTHER -> Unallocated

-----------------------------------------------------------------------------
(* Data processing, register.                                              *)

\* Row opc, column N.
LogicalName == <<<<"and_sh", "bic_sh">>, <<"orr_sh", "orn_sh">>,
                 <<"eor_sh", "eon_sh">>, <<"ands_sh", "bics_sh">>>>

OneSource == [n \in {0, 1, 2, 4, 5} |->
    CASE n = 0 -> "rbit" [] n = 1 -> "rev16" [] n = 2 -> "rev" [] n = 4 -> "clz" [] n = 5 -> "cls"]
TwoSource == [n \in {2, 3, 8, 9, 10, 11} |->
    CASE n = 2 -> "udiv" [] n = 3 -> "sdiv" [] n = 8 -> "lslv" [] n = 9 -> "lsrv"
      [] n = 10 -> "asrv" [] n = 11 -> "rorv"]

DataRegister(word) ==
    LET rd == ZReg(word, 0)  rn == ZReg(word, 5)  rm == ZReg(word, 16) IN
    CASE Is(word, 28, 24, 10) /\ (15 \in word => 31 \in word) ->
            <<LogicalName[Field(word, 30, 29) + 1][Field(word, 21, 21) + 1], X(word),
              <<rd, rn, rm, ShiftOf(word), Imm(word, 15, 10)>>>>
      [] Is(word, 28, 24, 11) /\ 21 \notin word /\ ~ Is(word, 23, 22, 3)
            /\ (15 \in word => 31 \in word) ->
            <<CASE AddSubName(word) = "add" -> "add_sh" [] AddSubName(word) = "adds" -> "adds_sh"
                [] AddSubName(word) = "sub" -> "sub_sh" [] AddSubName(word) = "subs" -> "subs_sh",
              X(word), <<rd, rn, rm, ShiftOf(word), Imm(word, 15, 10)>>>>
      [] Is(word, 28, 24, 11) /\ 21 \in word /\ Is(word, 23, 22, 0) /\ Field(word, 12, 10) <= 4 ->
            <<CASE AddSubName(word) = "add" -> "add_ext" [] AddSubName(word) = "adds" -> "adds_ext"
                [] AddSubName(word) = "sub" -> "sub_ext" [] AddSubName(word) = "subs" -> "subs_ext",
              X(word), <<IF 29 \in word THEN rd ELSE SReg(word, 0), SReg(word, 5), rm,
                         <<"e", ExtendName[Field(word, 15, 13) + 1]>>, Imm(word, 12, 10)>>>>
      [] Is(word, 28, 21, 212) /\ 29 \notin word /\ 11 \notin word ->
            <<CASE 30 \notin word /\ 10 \notin word -> "csel" [] 30 \notin word /\ 10 \in word -> "csinc"
                [] 30 \in word /\ 10 \notin word -> "csinv" [] 30 \in word /\ 10 \in word -> "csneg",
              X(word), <<rd, rn, rm, CondOf(word, 12)>>>>
      [] Is(word, 30, 21, 726) /\ Is(word, 20, 16, 0) /\ Field(word, 15, 10) \in DOMAIN OneSource ->
            <<OneSource[Field(word, 15, 10)], X(word), <<rd, rn>>>>
      [] Is(word, 30, 21, 214) /\ Field(word, 15, 10) \in DOMAIN TwoSource ->
            <<TwoSource[Field(word, 15, 10)], X(word), <<rd, rn, rm>>>>
      [] Is(word, 30, 24, 27) /\ Is(word, 23, 21, 0) ->
            <<IF 15 \in word THEN "msub" ELSE "madd", X(word), <<rd, rn, rm, ZReg(word, 10)>>>>
      [] Is(word, 31, 21, 1241) /\ 15 \notin word -> <<"smaddl", "x", <<rd, rn, rm, ZReg(word, 10)>>>>
      [] Is(word, 31, 21, 1242) /\ 15 \notin word -> <<"smulh", "x", <<rd, rn, rm>>>>
      [] OTHER -> Unallocated

-----------------------------------------------------------------------------
(* Floating point and SIMD.                                                *)

Float1 == [n \in (0..5) \cup (8..12) |->
    CASE n = 0 -> "fmov" [] n = 1 -> "fabs" [] n = 2 -> "fneg" [] n = 3 -> "fsqrt" [] n = 4 -> "fcvt"
      [] n = 5 -> "fcvt" [] n = 8 -> "frintn" [] n = 9 -> "frintp" [] n = 10 -> "frintm"
      [] n = 11 -> "frintz" [] n = 12 -> "frinta"]
Float2 == [n \in 0..3 |-> CASE n = 0 -> "fmul" [] n = 1 -> "fdiv" [] n = 2 -> "fadd" [] n = 3 -> "fsub"]

\* The width of an instruction that works on both register files.
MixedWidth(word) ==
    LET p == PrecisionOf(word) IN
    IF 31 \in word THEN (CASE p = "d" -> "xd" [] p = "s" -> "xs" [] p = "h" -> "xh" [] OTHER -> "?")
                   ELSE (CASE p = "d" -> "wd" [] p = "s" -> "ws" [] p = "h" -> "wh" [] OTHER -> "?")

Float(word) ==
    CASE Is(word, 31, 24, 30) /\ 21 \in word /\ Is(word, 11, 10, 2) /\ Field(word, 15, 12) \in DOMAIN Float2 ->
            <<Float2[Field(word, 15, 12)], PrecisionOf(word), <<VReg(word, 0), VReg(word, 5), VReg(word, 16)>>>>
      [] Is(word, 31, 24, 30) /\ 21 \in word /\ Is(word, 14, 10, 16) /\ Field(word, 20, 15) \in DOMAIN Float1 ->
            <<Float1[Field(word, 20, 15)], PrecisionOf(word), <<VReg(word, 0), VReg(word, 5)>>>>
      [] Is(word, 31, 24, 30) /\ 21 \in word /\ Is(word, 15, 10, 8) /\ Field(word, 4, 0) \in {0, 16} ->
            <<IF 4 \in word THEN "fcmpe" ELSE "fcmp", PrecisionOf(word), <<VReg(word, 5), VReg(word, 16)>>>>
      [] Is(word, 30, 24, 30) /\ 21 \in word /\ Is(word, 15, 10, 0) /\ Field(word, 20, 16) \in {2, 24} ->
            <<IF Is(word, 20, 16, 2) THEN "scvtf" ELSE "fcvtzs", MixedWidth(word),
              IF Is(word, 20, 16, 2) THEN <<VReg(word, 0), ZReg(word, 5)>>
                                     ELSE <<ZReg(word, 0), VReg(word, 5)>>>>
      [] Is(word, 30, 24, 30) /\ 21 \in word /\ Is(word, 15, 10, 0) /\ Field(word, 20, 16) \in {6, 7}
            /\ MixedWidth(word) \in {"ws", "xd", "wh", "xh"} ->
            <<IF Is(word, 20, 16, 7) THEN "fmov_fs" ELSE "fmov_sf", MixedWidth(word),
              IF Is(word, 20, 16, 7) THEN <<VReg(word, 0), ZReg(word, 5)>>
                                     ELSE <<ZReg(word, 0), VReg(word, 5)>>>>
      [] Is(word, 29, 24, 14) /\ 31 \notin word /\ Is(word, 21, 17, 16) /\ Is(word, 16, 10, 22) ->
            <<"cnt", "x", <<Imm(word, 30, 30), Imm(word, 23, 22), VReg(word, 0), VReg(word, 5)>>>>
      [] Is(word, 29, 24, 14) /\ 31 \notin word /\ Is(word, 21, 17, 24) /\ Is(word, 16, 10, 110) ->
            <<"addv", "x", <<Imm(word, 30, 30), Imm(word, 23, 22), VReg(word, 0), VReg(word, 5)>>>>
      [] OTHER -> Unallocated

-----------------------------------------------------------------------------
(* The preferred name of an instruction.                                   *)

NoShift(a) == a[4] = <<"s", "LSL">> /\ a[5] = <<"i", 0>>

ConditionInverse == [c \in {"EQ", "NE", "CS", "CC", "MI", "PL", "VS", "VC", "HI", "LS", "GE", "LT", "GT", "LE"} |->
    LET k == CHOOSE k \in 1..14 : ConditionName[k] = c
    IN ConditionName[IF k % 2 = 1 THEN k + 1 ELSE k - 1]]

Preferred(i) ==
    LET m == i[1]  w == i[2]  a == i[3]
        last == IF w = "x" THEN 63 ELSE 31
    IN CASE m \in {"add_sh", "sub_sh", "adds_sh"} /\ NoShift(a) ->
              <<CASE m = "add_sh" -> "add" [] m = "sub_sh" -> "sub" [] m = "adds_sh" -> "adds", w, SubSeq(a, 1, 3)>>
         [] m = "subs_sh" /\ a[1] # ZR /\ NoShift(a) -> <<"subs", w, SubSeq(a, 1, 3)>>
         [] m = "subs_sh" /\ a[1] = ZR /\ NoShift(a) -> <<"cmp", w, <<a[2], a[3]>>>>
         [] m = "subs_sh" /\ a[1] = ZR /\ ~NoShift(a) -> <<"cmp_sh", w, SubSeq(a, 2, 5)>>
         [] m = "cmp_sh" /\ a[3] = <<"s", "LSL">> /\ a[4] = <<"i", 0>> -> <<"cmp", w, SubSeq(a, 1, 2)>>
         [] m \in {"subs_imm", "adds_imm"} /\ a[1] = ZR ->
              <<IF m = "subs_imm" THEN "cmp_imm" ELSE "cmn_imm", w, SubSeq(a, 2, 4)>>
         [] m = "subs" /\ a[1] = ZR -> <<"cmp", w, <<a[2], a[3]>>>>
         [] m = "subs_ext" /\ a[1] = ZR -> <<"cmp_ext", w, SubSeq(a, 2, 5)>>
         [] m \in {"add_ext", "sub_ext"} /\ SP \in {a[1], a[2]}
               /\ a[4] = <<"e", "UXTX">> /\ a[5] = <<"i", 0>> ->
              <<IF m = "add_ext" THEN "add" ELSE "sub", w, SubSeq(a, 1, 3)>>
         [] m = "orr_sh" /\ a[2] = ZR /\ NoShift(a) -> <<"mov", w, <<a[1], a[3]>>>>
         [] m = "add_imm" /\ SP \in {a[1], a[2]} /\ a[3] = <<"i", 0>> /\ a[4] = <<"i", 0>> ->
              <<"mov", w, SubSeq(a, 1, 2)>>
         [] m = "madd" /\ a[4] = ZR -> <<"mul", w, SubSeq(a, 1, 3)>>
         [] m = "smaddl" /\ a[4] = ZR -> <<"smull", w, SubSeq(a, 1, 3)>>
         [] m = "csinc" /\ a[2] = ZR /\ a[3] = ZR ->
              <<"cset", w, <<a[1], <<"c", ConditionInverse[a[4][2]]>>>>>>
         [] m = "ubfm" /\ a[4][2] = last -> <<"lsr_imm", w, SubSeq(a, 1, 3)>>
         [] m = "ubfm" /\ a[4][2] + 1 = a[3][2] ->
              <<"lsl_imm", w, <<a[1], a[2], <<"i", last - a[4][2]>>>>>>
         [] m = "ubfm" /\ w = "w" /\ a[3][2] = 0 /\ a[4][2] = 7 -> <<"uxtb", "x", SubSeq(a, 1, 2)>>
         [] m = "ubfm" /\ w = "x" /\ a[3][2] = 0 /\ a[4][2] = 31 -> <<"uxtw", "x", SubSeq(a, 1, 2)>>
         [] m = "sbfm" /\ w = "x" /\ a[3][2] = 0 /\ a[4][2] = 31 -> <<"sxtw", "x", SubSeq(a, 1, 2)>>
         [] m = "lsl_imm" /\ a[3] = <<"i", 0>> -> <<"lsr_imm", w, a>>
         [] OTHER -> i

\* The instruction a word stands for.
Decode(word) ==
    LET op0 == Field(word, 28, 25) IN
    Preferred(CASE op0 \in {8, 9} -> DataImmediate(word)
                [] op0 \in {10, 11} -> Branch(word)
                [] op0 \in {4, 6, 12, 14} -> LoadStore(word)
                [] op0 \in {5, 13} -> DataRegister(word)
                [] op0 \in {7, 15} -> Float(word)
                [] OTHER -> Unallocated)
=============================================================================
