---------------------------- MODULE MCAssembler ----------------------------
(***************************************************************************)
(* Every method of both assemblers with operands at the edges of their     *)
(* ranges, one per program, and programs of jumps around a run of nops     *)
(* that is just within or just out of the reach of a short jump.           *)
(***************************************************************************)
EXTENDS Assembler

-----------------------------------------------------------------------------
(* x64.  R12 to R14 are not among the registers: the code generator leaves *)
(* them out, and Address has no encoding for R12 or R13 as a base.         *)

XRegs == {0, 2, 4, 5, 7, 8, 10, 15}
Indices == {1, 5, 9, 15}
Immediates == {
    <<0, 0, 0, 0, 0, 0, 0, 0>>, <<127, 0, 0, 0, 0, 0, 0, 0>>, <<128, 0, 0, 0, 0, 0, 0, 0>>,
    <<128, 255, 255, 255, 255, 255, 255, 255>>, <<127, 255, 255, 255, 255, 255, 255, 255>>,
    <<1, 2, 3, 127, 0, 0, 0, 0>>, <<1, 2, 3, 128, 0, 0, 0, 0>>,
    <<1, 2, 3, 128, 255, 255, 255, 255>>, <<1, 2, 3, 4, 5, 6, 7, 8>> }

Addresses ==
    {<<"offset", b, d>> : b \in XRegs, d \in {0, -128, 127, 128, -129}}
    \cup {<<"array", b, i, s, d>> : b \in XRegs, i \in Indices, s \in {0, 3}, d \in {0, 8}}
    \cup {<<"index", i, s, d>> : i \in Indices, s \in {1, 2}, d \in {0, 8}}
    \cup {<<"rip", d>> : d \in {-8, 4096}}
FewAddresses == {<<"offset", 5, 0>>, <<"offset", 4, 8>>, <<"array", 9, 10, 2, 0>>}

Gp == {<<"r", n>> : n \in XRegs}
Xmm == {<<"x", n>> : n \in {0, 7, 8, 15}}
Imms == {<<"i", b>> : b \in Immediates}
Ccs == {<<"c", c>> : c \in X!Conditions}

\* A register or an immediate beside an address.
Beside(S, s) == (S \X FewAddresses) \cup ({s} \X Addresses)
Swap(S) == {<<p[2], p[1]>> : p \in S}

Arguments(m) ==
    CASE m = <<"set", "", "r">> -> Gp \X Ccs
      [] m[1] = "cmov" -> Gp \X Gp \X {<<"c", 0>>, <<"c", 15>>}
      [] m[3] = "" -> {<<>>}
      [] m[3] = "r" -> {<<r>> : r \in Gp}
      [] m[3] = "rr" /\ m[1] # "cmov" -> Gp \X Gp
      [] m[3] = "xx" -> Xmm \X Xmm
      [] m[3] = "rx" -> Gp \X Xmm
      [] m[3] = "xr" -> Xmm \X Gp
      [] m[3] = "ri" -> Gp \X Imms
      [] m[3] = "xi" -> Xmm \X {<<"i", <<9, 0, 0, 0, 0, 0, 0, 0>>>>}
      [] m[3] = "ra" -> Beside(Gp, <<"r", 7>>)
      [] m[3] = "xa" -> Beside(Xmm, <<"x", 8>>)
      [] m[3] = "ar" -> Swap(Beside(Gp, <<"r", 7>>))
      [] m[3] = "ax" -> Swap(Beside(Xmm, <<"x", 8>>))
      [] m[3] = "ai" -> Swap(Beside(Imms, <<"i", <<127, 0, 0, 0, 0, 0, 0, 0>>>>))

XMethods == DOMAIN X!Row
    \cup {<<row[1], row[2], "ri">> : row \in X!AluMethods}
    \cup {<<"mov", "q", "ri">>, <<"cmp", "l", "ai">>, <<"cmp", "q", "ai">>, <<"set", "", "r">>,
          <<"cmov", "l", "rr">>, <<"cmov", "q", "rr">>}

XInstructions == UNION {{[m |-> m, a |-> a] : a \in Arguments(m)} : m \in XMethods}
    \cup {[m |-> <<"test", "l", "ri">>, a |-> <<r, i>>] :
             r \in {<<"r", n>> : n \in {0, 2, 4, 7}}, i \in Imms}

-----------------------------------------------------------------------------
(* arm64.                                                                  *)

R == {<<"r", n>> : n \in {0, 9, 30}} \cup {A!REG_ZERO, A!REG_SP}
V == {<<"v", n>> : n \in {0, 9, 31}}
N(S) == {<<"i", n>> : n \in S}
Bit == N({0, 1})
Sh == {<<"s", s>> : s \in {"LSL", "LSR", "ASR", "ROR"}}
\* LSL is left out of the extensions: 64-bit add_ext encodes it as UXTW.
Ex == {<<"e", e>> : e \in {"UXTB", "UXTW", "UXTX", "SXTW", "SXTX"}}
Lx == {<<"e", e>> : e \in {"UXTW", "LSL", "SXTW", "SXTX"}}
Cc == {<<"c", c>> : c \in {"EQ", "CS", "LT", "HI", "LE"}}
Orders == {<<"o", o>> : o \in {"", "a", "al", "l"}}
\* The shifts and bit numbers of a width.
Amount(w) == N(IF w = "x" THEN {0, 1, 31, 63} ELSE {0, 1, 31})
Masks(w) == {<<"b", b>> : b \in
    {{0}, 0..7, 4..11, {0, 31}, {31}, 1..30, {2 * k : k \in 0..15}, (0..3) \cup (28..31)}
    \cup (IF w = "x" THEN {{63}, {0, 63}, {2 * k : k \in 0..31}, 0..31, (0..3) \cup (60..63),
                           (0..1) \cup (32..33), {0, 5}} ELSE {})}

OneReg == {"b_r", "bl_r", "ret"}
TwoRegs == {"cls", "clz", "rbit", "mov", "cmp"}
ThreeRegs == {"add", "sub", "adds", "subs", "mul", "muls", "lslv", "lsrv", "asrv", "rorv", "sdiv", "udiv"}
FourRegs == {"madd", "msub"}
Shifted == {"add_sh", "sub_sh", "adds_sh", "subs_sh", "and_sh", "ands_sh", "bic_sh", "bics_sh",
            "eor_sh", "eon_sh", "orr_sh", "orn_sh"}
Extended == {"add_ext", "sub_ext", "subs_ext"}
Immediate12 == {"add_imm", "sub_imm", "adds_imm", "subs_imm"}
Selects == {"csel", "csinc", "csinv"}
Fields == {"ubfm", "sbfm", "bfm"}
Float1 == {"fmov", "fabs", "fneg", "fsqrt", "frintn", "frintp", "frintm", "frintz", "frinta"}
Float2 == {"fadd", "fsub", "fmul", "fdiv"}

Of(ms, ws, as) == {[m |-> m, w |-> w, a |-> a] : m \in ms, w \in ws, a \in as}

General(w) ==
    Of(TwoRegs, {w}, R \X R) \cup Of(ThreeRegs, {w}, R \X R \X R)
    \cup Of(FourRegs, {w}, {<<"r", 9>>} \X R \X R \X R)
    \cup Of(Shifted, {w}, R \X R \X {<<"r", 9>>} \X Sh \X Amount(w))
    \cup Of({"cmp_sh"}, {w}, R \X {<<"r", 9>>} \X Sh \X Amount(w))
    \cup Of(Extended, {w}, R \X R \X {<<"r", 9>>} \X Ex \X N({0, 3}))
    \cup Of(Immediate12, {w}, R \X R \X N({0, 1, 4095}) \X Bit)
    \cup Of({"cmp_imm", "cmn_imm"}, {w}, R \X N({0, 4095}) \X Bit)
    \cup Of({"and_imm"}, {w}, {<<"r", 0>>} \X R \X Masks(w))
    \cup Of({"movz", "movn", "movk"}, {w}, R \X N({0, 4660, 65535}) \X N({0, 1, 3}))
    \cup Of(Fields, {w}, {<<"r", 0>>} \X R \X Amount(w) \X Amount(w))
    \cup Of({"lsl_imm", "lsr_imm"}, {w}, {<<"r", 0>>} \X R \X Amount(w))
    \cup Of(Selects, {w}, {<<"r", 0>>} \X R \X R \X Cc) \cup Of({"cset"}, {w}, R \X Cc)
    \cup Of({"ldxr", "ldaxr", "ldar", "stlr"}, {w}, R \X R)
    \cup Of({"stxr", "stlxr"}, {w}, R \X R \X R)
    \cup Of({"cas", "swp", "ldadd"}, {w}, R \X {<<"r", 9>>} \X R \X Orders)
    \cup Of({"ldp", "ldp_post", "stp", "stp_pre"}, {w}, R \X {<<"r", 9>>} \X R \X N({-64, -1, 0, 63}))

Single ==
    Of({"ldr_imm", "str_imm"}, {"x", "w", "h", "b"}, R \X R \X N({0, 1, 4095}))
    \cup Of({"ldr_unscaled", "str_unscaled"}, {"x", "w", "h", "b"}, R \X R \X N({-256, -1, 255}))
    \cup Of({"ldr_ind", "str_ind"}, {"x", "w", "h", "b"}, {<<"r", 0>>} \X R \X R \X Lx \X Bit)
    \cup Of({"ldr_imm", "str_imm"}, {"d", "s"}, V \X R \X N({0, 4095}))
    \cup Of({"ldr_unscaled", "str_unscaled"}, {"d", "s"}, V \X R \X N({-256, 255}))
    \cup Of({"ldr_ind", "str_ind"}, {"d", "s"}, {<<"v", 9>>} \X R \X R \X Lx \X Bit)

\* fmov between the register files has an encoding for equal sizes and for
\* half precision; the others are never called.
FloatsAndOthers ==
    Of(Float1, {"d", "s", "h"}, V \X V) \cup Of(Float2, {"d", "s"}, V \X V \X V)
    \cup Of({"fcmp", "fcmpe"}, {"d", "s"}, V \X V) \cup Of({"fcvt"}, {"d", "s"}, V \X V)
    \cup Of({"scvtf"}, {"xd", "xs", "wd", "ws", "xh", "wh"}, V \X R)
    \cup Of({"fcvtzs"}, {"xd", "xs", "wd", "ws", "xh", "wh"}, R \X V)
    \cup Of({"fmov_fs"}, {"xd", "ws", "xh", "wh"}, V \X R)
    \cup Of({"fmov_sf"}, {"xd", "ws", "xh", "wh"}, R \X V)
    \cup Of({"cnt", "addv"}, {"x"}, Bit \X N({0}) \X V \X V)
    \cup Of(OneReg, {"x"}, {<<r>> : r \in R})
    \cup Of({"sxtw", "uxtb", "uxtw"}, {"x"}, R \X R)
    \cup Of({"smull", "smulh"}, {"x"}, R \X R \X R)
    \cup Of({"smaddl"}, {"x"}, {<<"r", 9>>} \X R \X R \X R)
    \cup Of({"cmp_ext"}, {"x"}, R \X {<<"r", 9>>} \X Ex \X N({0, 3}))
    \cup Of({"adr_imm", "adrp_imm"}, {"x"}, R \X N({-1048576, -3, 0, 5, 1048575}))
    \cup Of({"bl_imm"}, {"x"}, {<<i>> : i \in N({-33554432, -1, 0, 33554431})})
    \cup Of({"brk"}, {"x"}, {<<i>> : i \in N({0, 1, 65535})}) \cup Of({"nop"}, {"x"}, {<<>>})

AInstructions ==
    {i \in General("x") \cup General("w") \cup Single \cup FloatsAndOthers :
        A!Encode(i.m, i.w, i.a).ok}

-----------------------------------------------------------------------------
All == [x64 |-> XInstructions, arm64 |-> AInstructions]
One == [x64 |-> {[m |-> <<"mov", "q", "ri">>, a |-> <<<<"r", 8>>, <<"i", <<1, 2, 3, 4, 5, 6, 7, 8>>>>>>]},
        arm64 |-> {[m |-> "movz", w |-> "x", a |-> <<<<"r", 9>>, <<"i", 7>>, <<"i", 0>>>>]}]

\* One client emits any one instruction, the other jumps around a filler.
MCInstructions(a, c, n) ==
    CASE c = "one" /\ n = 1 -> All[a] [] c = "jumps" /\ n = 3 -> One[a] [] OTHER -> {}
MCFillers(c, n) == IF c = "jumps" /\ n <= 2 THEN {126, 127} ELSE {}
MCMaxLabels(c) == IF c = "jumps" THEN 2 ELSE 0

MCJumpKinds(a) ==
    IF a = "x64" THEN {<<"j", -1, FALSE>>, <<"j", 5, FALSE>>, <<"j", -1, TRUE>>, <<"j", 12, TRUE>>}
    ELSE {<<"b">>, <<"bc", <<"c", "LT">>>>, <<"cbz", <<"r", 9>>, "x">>, <<"cbnz", <<"r", 0>>, "w">>}

MCAlignments(a) == IF a = "x64" THEN {1, 16} ELSE {4}
=============================================================================
