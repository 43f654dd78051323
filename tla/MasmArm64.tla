------------------------------ MODULE MasmArm64 ------------------------------
(***************************************************************************)
(* The macro assembler of masm/arm64.rs: the calls of the assembler each   *)
(* of its operations makes, in their order.                                *)
(*                                                                         *)
(* Operands are those of MasmX64, with <<"v", n>> for the floating point   *)
(* registers.  busy counts the scratch registers in use.  The widths are   *)
(* scaled as there: 64 bits are 16, 32 bits are 8, and a half word, the    *)
(* unit of movz, movn and movk, is 4.                                      *)
(***************************************************************************)
EXTENDS Integers, Sequences, FiniteSets

HalfWord == 16                       \* 2^16 in the source
Width(mode) == IF mode = "Int32" THEN 8 ELSE 16
CARD_SIZE_BITS == 2

\* cpu/arm64.rs
REG_ZERO == <<"r", 100>>
REG_SP == <<"r", 101>>
REG_RESULT == <<"r", 0>>
REG_TMP1 == <<"r", 10>>
REG_TMP2 == <<"r", 11>>
REG_THREAD == <<"r", 28>>
REG_FP == <<"r", 29>>
REG_LR == <<"r", 30>>
FREG_TMP1 == <<"v", 16>>
REG_PARAMS == [k \in 1..8 |-> <<"r", k - 1>>]
SCRATCH == <<<<"r", 9>>, <<"r", 12>>, <<"r", 13>>, <<"r", 14>>, <<"r", 15>>>>

\* From<CondCode> for Cond; HS is another name of CS, and LO of CC.
CondOf == [Zero |-> "EQ", NonZero |-> "NE", Equal |-> "EQ", NotEqual |-> "NE", Greater |-> "GT",
           GreaterEq |-> "GE", Less |-> "LT", LessEq |-> "LE", UnsignedGreater |-> "HI",
           UnsignedGreaterEq |-> "CS", UnsignedLess |-> "CC", UnsignedLessEq |-> "LS"]

HeaderSize == 16
OffsetOfArrayLength == HeaderSize
OffsetOfArrayData == HeaderSize + 8
OffsetOfMethodTable == 32
StackLimitOffset == 24
SafepointOffset == 20

ModeSize == [Int8 |-> 1, Int32 |-> 4, Int64 |-> 8, IntPtr |-> 8, Ptr |-> 8,
             Float32 |-> 4, Float64 |-> 8]

W(mode) == IF mode \in {"Int8", "Int32"} THEN "w" ELSE "x"        \* size_flag
F(mode) == IF mode = "Float64" THEN "d" ELSE "s"
Mixed(int, float) == IF W(int) = "w" THEN (IF float = "Float64" THEN "wd" ELSE "ws")
                                     ELSE (IF float = "Float64" THEN "xd" ELSE "xs")
\* The width of an access to memory.
M(mode) == CASE mode = "Int8" -> "b" [] mode = "Int32" -> "w" [] mode = "Float32" -> "s"
             [] mode = "Float64" -> "d" [] OTHER -> "x"

-----------------------------------------------------------------------------
(* Calls of the assembler, the constant pool and the tables.               *)

I(n) == <<"i", n>>
LSL == <<"s", "LSL">>
Asm(m, w, a) == <<[k |-> "asm", i |-> [m |-> m, w |-> w, a |-> a]]>>

\* adr_imm with the distance to the entry added last to the constant pool.
Adr(reg) == <<[k |-> "adr", reg |-> reg]>>
Const(size, value) == <<[k |-> "const", size |-> size, value |-> value]>>

create_label(name) == <<[k |-> "label", name |-> name]>>
create_and_bind_label(name) == create_label(name) \o <<[k |-> "bind", name |-> name]>>
bind_label(name) == <<[k |-> "bind", name |-> name]>>
Jump(kind, name) == <<[k |-> "jump", kind |-> kind, name |-> name]>>
bc_l(cond, name) == Jump(<<"bc", <<"c", cond>>>>, name)
cbz(reg, w, name) == Jump(<<"cbz", reg, w>>, name)
cbnz(reg, w, name) == Jump(<<"cbnz", reg, w>>, name)
emit_bailout(name, trap) == <<[k |-> "bailout", name |-> name, trap |-> trap]>>
emit_position == <<[k |-> "position"]>>
emit_lazy_compilation_site(direct) == <<[k |-> "lazy", direct |-> direct]>>

-----------------------------------------------------------------------------
(* dora-asm: what fits an instruction.                                     *)

HalfWordOf(imm, k) == (imm \div HalfWord^k) % HalfWord
Inverted(imm) == (-1 - imm) % HalfWord^4

count_empty_half_words(imm, n) == Cardinality({k \in 0..(n - 1) : HalfWordOf(imm, k) = 0})
fits_movz(imm, n) == count_empty_half_words(imm, n) >= n - 1
fits_movn(imm, n) == fits_movz(Inverted(imm), n)
shift_movz(imm) ==
    IF \E k \in 0..3 : HalfWordOf(imm, k) # 0
    THEN CHOOSE k \in 0..3 : HalfWordOf(imm, k) # 0 /\ \A j \in 0..(k - 1) : HalfWordOf(imm, j) = 0
    ELSE 0
shift_movn(imm) == shift_movz(Inverted(imm))

fits_addsub_imm(value) == value \in 0..4095
fits_ldst_unscaled(value) == value \in -256..255

-----------------------------------------------------------------------------
(* Operations other operations are made of.                                *)

Wide(m, w, dest, imm, k) == Asm(m, w, <<dest, I(imm), I(k)>>)

\* The general case: the half words that differ from the background, the first
\* moved with movz or movn and the others inserted.
LoadHalfWords(w, dest, imm, n) ==
    LET invert == count_empty_half_words(Inverted(imm), n) > count_empty_half_words(imm, n)
        background == IF invert THEN HalfWord - 1 ELSE 0
        upto[k \in 0..n] ==        \* the instructions for the half words below the k-th
            IF k = 0 THEN <<>>
            ELSE LET steps == upto[k - 1]  h == HalfWordOf(imm, k - 1) IN
                 IF h = background THEN steps
                 ELSE steps \o (IF steps # <<>> THEN Wide("movk", w, dest, h, k - 1)
                                ELSE IF invert THEN Wide("movn", w, dest, HalfWord - 1 - h, k - 1)
                                               ELSE Wide("movz", w, dest, h, k - 1))
    IN upto[n]

load_int_const(mode, dest, value) ==
    LET w == W(mode)
        n == IF w = "w" THEN 2 ELSE 4
        imm == value % HalfWord^4
    IN CASE fits_movz(imm, n) ->
              Wide("movz", w, dest, HalfWordOf(imm, shift_movz(imm)), shift_movz(imm))
         [] ~ fits_movz(imm, n) /\ fits_movn(imm, n) ->
              Wide("movn", w, dest, HalfWordOf(Inverted(imm), shift_movn(imm)), shift_movn(imm))
         [] OTHER -> LoadHalfWords(w, dest, imm, n)

\* common_load_base_with_offset and common_store_base_with_offset: op is "ldr"
\* or "str".
Form == [ldr |-> [imm |-> "ldr_imm", unscaled |-> "ldr_unscaled", ind |-> "ldr_ind"],
         str |-> [imm |-> "str_imm", unscaled |-> "str_unscaled", ind |-> "str_ind"]]
BaseWithOffset(op, mode, reg, base, disp, busy) ==
    LET size == ModeSize[mode]
        scaled == disp >= 0 /\ disp % size = 0 /\ fits_addsub_imm(disp \div size)
        scratch == SCRATCH[busy + 1]
    IN CASE scaled -> Asm(Form[op].imm, M(mode), <<reg, base, I(disp \div size)>>)
         [] ~scaled /\ fits_ldst_unscaled(disp) ->
              Asm(Form[op].unscaled, M(mode), <<reg, base, I(disp)>>)
         [] OTHER -> load_int_const("Ptr", scratch, disp)
                     \o Asm(Form[op].ind, M(mode), <<reg, base, scratch, <<"e", "LSL">>, I(0)>>)

\* load_mem and store_mem.  With an index the access is scaled by its size.
Access(op, mode, reg, mem, busy) ==
    LET scratch == SCRATCH[busy + 1] IN
    CASE mem[1] = "Local" -> BaseWithOffset(op, mode, reg, REG_FP, mem[2], busy)
      [] mem[1] = "Base" -> BaseWithOffset(op, mode, reg, mem[2], mem[3], busy)
      [] mem[1] = "Index" ->
            load_int_const("Ptr", scratch, mem[5]) \o Asm("add", "x", <<scratch, scratch, mem[2]>>)
            \o Asm(Form[op].ind, M(mode), <<reg, scratch, mem[3], <<"e", "LSL">>,
                                            I(IF mode = "Int8" THEN 0 ELSE 1)>>)

load_mem(mode, dest, mem, busy) == Access("ldr", mode, dest, mem, busy)
store_mem(mode, mem, src, busy) == Access("str", mode, src, mem, busy)

load_constpool(dest, busy) == Adr(dest) \o load_mem("Ptr", dest, <<"Base", dest, 0>>, busy)

raw_call(ptr, busy) ==
    Const(8, ptr) \o load_constpool(SCRATCH[busy + 1], busy + 1) \o Asm("bl_r", "x", <<SCRATCH[busy + 1]>>)

cmp_reg(mode, lhs, rhs) == Asm("cmp", W(mode), <<lhs, rhs>>)
jump_if(cond, name) == bc_l(CondOf[cond], name)

TrapNumber == [DIV0 |-> 1, ASSERT |-> 2, INDEX_OUT_OF_BOUNDS |-> 3, NIL |-> 4, CAST |-> 5,
               OOM |-> 6, STACK_OVERFLOW |-> 7, ILLEGAL |-> 8, OVERFLOW |-> 9]
trap(t, stub) ==
    load_int_const("Int32", REG_PARAMS[1], TrapNumber[t]) \o raw_call(stub, 0) \o emit_position

nop == Asm("nop", "x", <<>>)

cmp_zero(mode, lhs) == Asm("cmp_imm", W(mode), <<lhs, I(0), I(0)>>)

\* MacroAssembler::test_if_nil and test_if_nil_bailout, of masm.rs.
test_if_nil(reg, name) ==
    cmp_zero("Ptr", reg) \o create_label(name) \o jump_if("Equal", name)
test_if_nil_bailout(reg, t) == test_if_nil(reg, "nil") \o emit_bailout("nil", t)

-----------------------------------------------------------------------------
(* The operations, in the order of the source.                             *)

\* prolog to decrease_stack_frame.
MoveSp(op, size) ==
    IF size > 0 THEN load_int_const("Ptr", REG_TMP1, size) \o Asm(op, "x", <<REG_SP, REG_SP, REG_TMP1>>)
    ELSE <<>>
\* Mutant: only one of the two registers is taken off the stack.
EpilogPopsOne ==
    Asm("add", "x", <<REG_SP, REG_FP, REG_ZERO>>)
    \o Asm("ldp_post", "x", <<REG_FP, REG_LR, REG_SP, I(1)>>)

epilog_without_return ==
    Asm("add", "x", <<REG_SP, REG_FP, REG_ZERO>>)
    \o Asm("ldp_post", "x", <<REG_FP, REG_LR, REG_SP, I(2)>>)
Frames(op, mode, a) ==
    CASE op = "prolog" ->
            Asm("stp_pre", "x", <<REG_FP, REG_LR, REG_SP, I(-2)>>)
            \o Asm("add", "x", <<REG_FP, REG_SP, REG_ZERO>>) \o MoveSp("sub", a[1][2])
      [] op = "check_stack_pointer" ->
            Asm("ldr_imm", "x", <<REG_TMP1, REG_THREAD, I(StackLimitOffset \div 8)>>)
            \o Asm("add", "x", <<REG_TMP2, REG_SP, REG_ZERO>>)
            \o cmp_reg("Ptr", REG_TMP1, REG_TMP2) \o jump_if("UnsignedGreater", a[1][2])
      [] op = "safepoint" ->
            Asm("ldr_imm", "b", <<REG_TMP1, REG_THREAD, I(SafepointOffset)>>)
            \o cbnz(REG_TMP1, "x", a[1][2])
      [] op = "fix_result" -> <<>>
      [] op = "epilog" -> epilog_without_return \o Asm("ret", "x", <<REG_LR>>)
      [] op = "epilog_without_return" -> epilog_without_return
      [] op = "increase_stack_frame" -> MoveSp("sub", a[1][2])
      [] op = "decrease_stack_frame" -> MoveSp("add", a[1][2])

\* direct_call to load_array_elem.
CallsAndElements(op, mode, a, busy) ==
    LET scratch == SCRATCH[busy + 1] IN
    CASE op = "direct_call" -> raw_call(a[1][2], busy) \o emit_lazy_compilation_site(TRUE)
      [] op = "raw_call" -> raw_call(a[1][2], busy)
      [] op = "virtual_call" ->
            LET obj == REG_PARAMS[a[2][2] + 1] IN
            test_if_nil_bailout(obj, "NIL")
            \o load_mem("Ptr", scratch, <<"Base", obj, 0>>, busy + 1)
            \o load_mem("Ptr", scratch, <<"Base", scratch, OffsetOfMethodTable + a[1][2] * 8>>, busy + 1)
            \o Asm("bl_r", "x", <<scratch>>) \o emit_lazy_compilation_site(FALSE)
      [] op = "load_array_elem" ->
            load_mem(mode, a[1], <<"Index", a[2], a[3], ModeSize[mode], OffsetOfArrayData>>, busy)

\* set to jump_reg
Comparisons(op, mode, a, busy) ==
    LET scratch == SCRATCH[busy + 1]  scratch2 == SCRATCH[busy + 2] IN
    CASE op = "set" -> Asm("cset", "w", <<a[1], <<"c", CondOf[a[2][2]]>>>>)
      [] op = "cmp_mem" ->
            load_mem(mode, scratch, a[1], busy + 1) \o cmp_reg(mode, scratch, a[2])
      [] op = "cmp_mem_imm" ->
            load_mem(mode, scratch, a[1], busy + 1) \o load_int_const(mode, scratch2, a[2][2])
            \o cmp_reg(mode, scratch, scratch2)
      [] op = "cmp_reg" -> cmp_reg(mode, a[1], a[2])
      [] op = "cmp_reg_imm" -> load_int_const(mode, scratch, a[2][2]) \o cmp_reg(mode, a[1], scratch)
      [] op = "cmp_zero" -> cmp_zero(mode, a[1])
      [] op = "test_and_jump_if" ->
            Asm("cmp_imm", "x", <<a[2], I(0), I(0)>>) \o jump_if(a[1][2], a[3][2])
      [] op = "jump_if" -> jump_if(a[1][2], a[2][2])
      [] op = "jump" -> Jump(<<"b">>, a[1][2])
      [] op = "jump_reg" -> Asm("b_r", "x", <<a[1]>>)

\* The other width, which the zero test and msub are given.
Other(mode) == IF mode = "Int32" THEN "x" ELSE "w"
TopHalfWord(mode) == IF mode = "Int32" THEN 1 ELSE 3

\* The checks before the division, up to bind_label(lbl_div).
DivChecks(mode, lhs, rhs, scratch) ==
    create_label("zero") \o create_label("div")
    \o cbz(rhs, Other(mode), "zero") \o emit_bailout("zero", "DIV0")
    \o create_label("overflow")
    \o Wide("movz", W(mode), scratch, HalfWord \div 2, TopHalfWord(mode))
    \o Asm("cmp", W(mode), <<lhs, scratch>>) \o bc_l("NE", "div")
    \o Asm("cmn_imm", W(mode), <<rhs, I(1), I(0)>>) \o bc_l("EQ", "overflow")
    \o emit_bailout("overflow", "OVERFLOW") \o bind_label("div")

\* int_div and int_mod.
divmod_common(mode, dest, lhs, rhs, is_div, busy) ==
    LET scratch == SCRATCH[busy + 2] IN
    DivChecks(mode, lhs, rhs, SCRATCH[busy + 1])
    \o IF is_div THEN Asm("sdiv", W(mode), <<dest, lhs, rhs>>)
       ELSE Asm("sdiv", W(mode), <<scratch, lhs, rhs>>)
            \o Asm("msub", Other(mode), <<dest, scratch, rhs, lhs>>)

OverflowIf(cond) == create_label("overflow") \o bc_l(cond, "overflow") \o emit_bailout("overflow", "OVERFLOW")

\* The high half of the product has to be the sign of the low one; an operand
\* the product overwrites is copied first.
int_mul_checked(mode, dest, lhs, rhs, tmp) ==
    IF mode = "Int32"
    THEN Asm("smull", "x", <<dest, lhs, rhs>>)
         \o Asm("cmp_ext", "x", <<dest, dest, <<"e", "SXTW">>, I(0)>>) \o OverflowIf("NE")
    ELSE (CASE lhs = dest -> Asm("mov", "x", <<tmp, lhs>>)
            [] lhs # dest /\ rhs = dest -> Asm("mov", "x", <<tmp, rhs>>)
            [] OTHER -> <<>>)
         \o Asm("mul", "x", <<dest, lhs, rhs>>)
         \o (CASE lhs = dest -> Asm("smulh", "x", <<tmp, tmp, rhs>>)
               [] lhs # dest /\ rhs = dest -> Asm("smulh", "x", <<tmp, lhs, tmp>>)
               [] OTHER -> Asm("smulh", "x", <<tmp, lhs, rhs>>))
         \o Asm("cmp_sh", "x", <<tmp, dest, <<"s", "ASR">>, I(Width(mode) - 1)>>)
         \o OverflowIf("NE")

int_add_imm(mode, dest, lhs, value, busy) ==
    LET scratch == SCRATCH[busy + 1] IN
    IF fits_addsub_imm(value) THEN Asm("add_imm", W(mode), <<dest, lhs, I(value), I(0)>>)
    ELSE load_int_const(mode, scratch, value) \o Asm("add", W(mode), <<dest, lhs, scratch>>)

\* int_div to int_sub_checked
Arithmetic(op, mode, a, busy) ==
    CASE op = "int_div" -> divmod_common(mode, a[1], a[2], a[3], TRUE, busy)
      [] op = "int_mod" -> divmod_common(mode, a[1], a[2], a[3], FALSE, busy)
      [] op = "int_mul" -> Asm("mul", W(mode), a)
      [] op = "int_mul_checked" -> int_mul_checked(mode, a[1], a[2], a[3], SCRATCH[busy + 1])
      [] op = "int_add" -> Asm("add", W(mode), a)
      [] op = "int_add_checked" -> Asm("adds", W(mode), a) \o OverflowIf("VS")
      [] op = "int_add_imm" -> int_add_imm(mode, a[1], a[2], a[3][2], busy)
      [] op = "int_sub" -> Asm("sub", W(mode), a)
      [] op = "int_sub_checked" -> Asm("subs", W(mode), a) \o OverflowIf("VS")

\* int_shl to int_xor
ShiftsAndLogic(op, mode, a, busy) ==
    LET scratch == SCRATCH[busy + 1]  logic == a \o <<LSL, I(0)>> IN
    CASE op = "int_shl" -> Asm("lslv", W(mode), a)
      [] op = "int_shr" -> Asm("lsrv", W(mode), a)
      [] op = "int_sar" -> Asm("asrv", W(mode), a)
      [] op = "int_rol" ->
            load_int_const(mode, scratch, Width(mode))
            \o Asm("sub", W(mode), <<scratch, scratch, a[3]>>)
            \o Asm("rorv", W(mode), <<a[1], a[2], scratch>>)
      [] op = "int_ror" -> Asm("rorv", W(mode), a)
      [] op = "int_or" -> Asm("orr_sh", W(mode), logic)
      [] op = "int_and" -> Asm("and_sh", W(mode), logic)
      [] op = "int_xor" -> Asm("eor_sh", W(mode), logic)

int_not(mode, dest, src) == Asm("orn_sh", W(mode), <<dest, REG_ZERO, src, LSL, I(0)>>)

\* count_bits, count_bits_leading and count_bits_trailing
Counts(op, mode, a, busy) ==
    LET dest == a[1]  src == a[2]  ones == a[3][2]
        counted == IF ones THEN src ELSE SCRATCH[busy + 1]
        Lanes(m) == Asm(m, "x", <<I(0), I(0), FREG_TMP1, FREG_TMP1>>)
        fmov == IF mode = "Int32" THEN "ws" ELSE "xd"
    IN CASE op = "count_bits" ->
              (IF ones THEN <<>> ELSE int_not(mode, counted, src))
              \o Asm("fmov_fs", fmov, <<FREG_TMP1, counted>>) \o Lanes("cnt") \o Lanes("addv")
              \o Asm("fmov_sf", fmov, <<dest, FREG_TMP1>>)
         [] op = "count_bits_leading" ->
              IF ones THEN int_not(mode, dest, src) \o Asm("clz", W(mode), <<dest, dest>>)
              ELSE Asm("clz", W(mode), <<dest, src>>)
         [] op = "count_bits_trailing" ->
              Asm("rbit", W(mode), <<dest, src>>) \o (IF ones THEN int_not(mode, dest, dest) ELSE <<>>)
              \o Asm("clz", W(mode), <<dest, dest>>)

\* int_to_float to float_as_int.  Both integer modes are converted from their
\* 32 low bits.
Conversions(op, mode, a) ==
    CASE op = "int_to_float" -> Asm("scvtf", Mixed("Int32", mode), <<a[1], a[2]>>)
      [] op = "float_to_int" -> Asm("fcvtzs", Mixed(a[3][2], mode), <<a[1], a[2]>>)
      [] op = "float32_to_float64" -> Asm("fcvt", "s", <<a[1], a[2]>>)
      [] op = "float64_to_float32" -> Asm("fcvt", "d", <<a[1], a[2]>>)
      [] op = "int_as_float" -> Asm("fmov_fs", IF mode = "Float32" THEN "ws" ELSE "xd", <<a[1], a[2]>>)
      [] op = "float_as_int" -> Asm("fmov_sf", IF mode = "Float32" THEN "ws" ELSE "xd", <<a[1], a[2]>>)

\* float_add to float_sqrt
FloatMethod == [float_add |-> "fadd", float_sub |-> "fsub", float_mul |-> "fmul", float_div |-> "fdiv",
                float_abs |-> "fabs", float_neg |-> "fneg", float_round_tozero |-> "frintz",
                float_round_up |-> "frintp", float_round_down |-> "frintm",
                float_round_halfeven |-> "frintn", float_sqrt |-> "fsqrt"]

cmp_int(mode, dest, lhs, rhs) ==
    cmp_reg(mode, lhs, rhs) \o Asm("cset", "w", <<dest, <<"c", "NE">>>>)
    \o Asm("csinv", "w", <<dest, dest, REG_ZERO, <<"c", "GE">>>>)

float_cmp_int(mode, dest, lhs, rhs, scratch) ==
    Asm("fcmp", F(mode), <<lhs, rhs>>) \o Asm("cset", "w", <<dest, <<"c", "GT">>>>)
    \o Wide("movn", "w", scratch, 0, 0)
    \o Asm("csel", "w", <<dest, scratch, dest, <<"c", "MI">>>>)

\* Conditions that an unordered result does not meet, NotEqual aside.
FloatCond == [Equal |-> "EQ", NotEqual |-> "NE", Greater |-> "GT", GreaterEq |-> "GE",
              Less |-> "MI", LessEq |-> "LS"]
float_cmp(mode, dest, lhs, rhs, cond) ==
    Asm("fcmp", F(mode), <<lhs, rhs>>) \o Asm("cset", "w", <<dest, <<"c", FloatCond[cond]>>>>)

float_cmp_nan(mode, dest, src) ==
    Asm("fcmp", F(mode), <<src, src>>) \o Asm("cset", "w", <<dest, <<"c", "VS">>>>)

load_float_const(mode, dest, bits, busy) ==
    Const(ModeSize[mode], bits) \o Adr(SCRATCH[busy + 1])
    \o load_mem(mode, dest, <<"Base", SCRATCH[busy + 1], 0>>, busy + 1)

Shift == [n \in {2, 4, 8} |-> CASE n = 2 -> 1 [] n = 4 -> 2 [] n = 8 -> 3]

determine_array_size(dest, length, element_size, with_header, scratch) ==
    LET size == (IF with_header THEN HeaderSize + 8 ELSE 0) + (IF element_size # 8 THEN 7 ELSE 0)
        add(from) == Asm("add_imm", "x", <<dest, from, I(size), I(0)>>)
    IN (CASE element_size = 1 -> add(length)
          [] element_size \in {2, 4, 8} ->
                Asm("lsl_imm", "x", <<dest, length, I(Shift[element_size])>>) \o add(dest)
          [] OTHER -> load_int_const("Ptr", scratch, element_size)
                      \o Asm("mul", "x", <<dest, length, scratch>>) \o add(dest))
       \o (IF element_size # 8 THEN Asm("and_imm", "x", <<dest, dest, <<"b", 3..63>>>>) ELSE <<>>)

array_address(dest, obj, index, element_size, scratch) ==
    load_int_const("Ptr", scratch, element_size) \o Asm("mul", "x", <<scratch, index, scratch>>)
    \o Asm("add_imm", "x", <<scratch, scratch, I(HeaderSize + 8), I(0)>>)
    \o Asm("add", "x", <<dest, obj, scratch>>)

check_index_out_of_bounds(array, index, busy) ==
    LET scratch == SCRATCH[busy + 1] IN
    load_mem("Int64", scratch, <<"Base", array, OffsetOfArrayLength>>, busy + 1)
    \o cmp_reg("Int64", index, scratch)
    \o create_label("bounds") \o jump_if("UnsignedGreaterEq", "bounds")
    \o emit_bailout("bounds", "INDEX_OUT_OF_BOUNDS")

\* determine_array_size to load_nil
Arrays(op, mode, a, busy) ==
    CASE op = "determine_array_size" ->
            determine_array_size(a[1], a[2], a[3][2], a[4][2], SCRATCH[busy + 1])
      [] op = "array_address" -> array_address(a[1], a[2], a[3], a[4][2], SCRATCH[busy + 1])
      [] op = "check_index_out_of_bounds" -> check_index_out_of_bounds(a[1], a[2], busy)
      [] op = "load_nil" -> Wide("movz", "x", a[1], 0, 0)

\* The loop of a load and a conditional store, until the store goes through.
\* body is what comes between the two, value the register stored.
Exclusively(mode, w, old, value, address, state, body) ==
    create_and_bind_label("again") \o Asm("ldaxr", W(mode), <<old, address>>) \o body
    \o Asm("stlxr", W(mode), <<state, value, address>>) \o cbnz(state, w, "again")

\* load_int32_synchronized to fetch_add_int64_synchronized; a[4] tells whether
\* the processor has_lse_atomics().
Atomics(op, mode, a, busy) ==
    LET s1 == SCRATCH[busy + 1]  s2 == SCRATCH[busy + 2]  al == <<"o", "al">> IN
    CASE op = "load_synchronized" -> Asm("ldar", W(mode), <<a[1], a[2]>>)
      [] op = "store_synchronized" -> Asm("stlr", W(mode), <<a[1], a[2]>>)
      [] op = "exchange_synchronized" ->
            IF a[4][2] THEN Asm("swp", W(mode), <<a[2], a[1], a[3], al>>)
            ELSE Exclusively(mode, "w", a[1], a[2], a[3], s1, <<>>)
      [] op = "compare_exchange_synchronized" ->
            IF a[4][2] THEN Asm("cas", W(mode), <<a[1], a[2], a[3], al>>)
            ELSE create_label("end")
                 \o Exclusively(mode, W(mode), s1, a[2], a[3], s2,
                                Asm("cmp", W(mode), <<s1, a[1]>>) \o bc_l("NE", "end"))
                 \o bind_label("end")
      [] op = "fetch_add_synchronized" ->
            IF a[4][2] THEN Asm("ldadd", W(mode), <<a[2], a[1], a[3], al>>)
            ELSE Exclusively(mode, "w", a[1], s1, a[3], s2, Asm("add", W(mode), <<s1, a[1], a[2]>>))

\* The register that holds the old value: the methods return it.
Returned(op, a, busy) ==
    CASE op = "compare_exchange_synchronized" -> IF a[4][2] THEN a[1] ELSE SCRATCH[busy + 1]
      [] OTHER -> a[1]

\* Base plus displacement in a register.
AddDisp(dest, base, disp, scratch) ==
    IF fits_addsub_imm(disp) THEN Asm("add_imm", "x", <<dest, base, I(disp), I(0)>>)
    ELSE load_int_const("Ptr", scratch, disp) \o Asm("add", "x", <<dest, base, scratch>>)
lea(dest, mem, scratch) ==
    CASE mem[1] = "Local" -> AddDisp(dest, REG_FP, mem[2], scratch)
      [] mem[1] = "Base" -> AddDisp(dest, mem[2], mem[3], scratch)
      [] mem[1] = "Index" ->
            AddDisp(scratch, mem[2], mem[5], scratch)
            \o Asm("add_sh", "x", <<dest, scratch, mem[3], LSL,
                                    I(IF mem[4] = 1 THEN 0 ELSE Shift[mem[4]])>>)

emit_barrier(src, card_table_offset, s1, s2) ==
    Asm("lsr_imm", "x", <<s1, src, I(CARD_SIZE_BITS)>>) \o load_int_const("Ptr", s2, card_table_offset)
    \o Asm("str_ind", "b", <<REG_ZERO, s1, s2, <<"e", "LSL">>, I(0)>>)

\* load_mem to debug.
MemoryAndMoves(op, mode, a, busy) ==
    CASE op = "load_mem" -> load_mem(mode, a[1], a[2], busy)
      [] op = "lea" -> lea(a[1], a[2], SCRATCH[busy + 1])
      [] op = "emit_barrier" -> emit_barrier(a[1], a[2][2], SCRATCH[busy + 1], SCRATCH[busy + 2])
      [] op = "store_mem" -> store_mem(mode, a[1], a[2], busy)
      [] op = "store_zero" -> store_mem(mode, a[1], REG_ZERO, busy)
      [] op = "copy_reg" -> Asm("mov", W(mode), <<a[1], a[2]>>)
      [] op = "copy_sp" -> Asm("add_imm", "x", <<a[1], REG_SP, I(0), I(0)>>)
      [] op = "set_sp" -> Asm("add_imm", "x", <<REG_SP, a[1], I(0), I(0)>>)
      [] op = "copy_pc" -> Asm("adr_imm", "x", <<a[1], I(0)>>)
      [] op = "copy_ra" -> Asm("mov", "x", <<a[1], REG_LR>>)
      [] op = "copy_freg" -> Asm("fmov", F(mode), <<a[1], a[2]>>)
      [] op = "extend_int_long" -> Asm("sxtw", "x", <<a[1], a[2]>>)
      [] op = "extend_byte" -> IF mode = "Int32" THEN <<>> ELSE Asm("uxtw", "x", <<a[1], a[2]>>)
      [] op = "debug" -> Asm("brk", "x", <<I(0)>>)

\* load_int_const to bool_not
Constants(op, mode, a, busy) ==
    CASE op = "load_int_const" -> load_int_const(mode, a[1], a[2][2])
      [] op = "load_true" -> Wide("movz", "w", a[1], 1, 0)
      [] op = "load_false" -> Wide("movz", "w", a[1], 0, 0)
      [] op = "int_neg" -> Asm("sub", W(mode), <<a[1], REG_ZERO, a[2]>>)
      [] op = "int_not" -> int_not(mode, a[1], a[2])
      [] op = "bool_not" ->
            Wide("movz", "w", SCRATCH[busy + 1], 1, 0)
            \o Asm("eor_sh", "w", <<a[1], a[2], SCRATCH[busy + 1], LSL, I(0)>>)
            \o Asm("uxtb", "x", <<a[1], a[1]>>)

\* An operation: the group its name belongs to.
Operation(op, mode, a, busy) ==
    CASE op \in {"prolog", "check_stack_pointer", "safepoint", "fix_result", "epilog",
                 "epilog_without_return", "increase_stack_frame", "decrease_stack_frame"} ->
            Frames(op, mode, a)
      [] op \in {"direct_call", "raw_call", "virtual_call", "load_array_elem"} ->
            CallsAndElements(op, mode, a, busy)
      [] op \in {"set", "cmp_mem", "cmp_mem_imm", "cmp_reg", "cmp_reg_imm", "cmp_zero",
                 "test_and_jump_if", "jump_if", "jump", "jump_reg"} -> Comparisons(op, mode, a, busy)
      [] op = "cmp_int" -> cmp_int(mode, a[1], a[2], a[3])
      [] op = "float_cmp_int" -> float_cmp_int(mode, a[1], a[2], a[3], SCRATCH[busy + 1])
      [] op = "float_cmp" -> float_cmp(mode, a[1], a[2], a[3], a[4][2])
      [] op = "float_cmp_nan" -> float_cmp_nan(mode, a[1], a[2])
      [] op = "load_float_const" -> load_float_const(mode, a[1], a[2][2], busy)
      [] op \in {"int_div", "int_mod", "int_mul", "int_mul_checked", "int_add",
                 "int_add_checked", "int_add_imm", "int_sub", "int_sub_checked"} ->
            Arithmetic(op, mode, a, busy)
      [] op \in {"int_shl", "int_shr", "int_sar", "int_rol", "int_ror", "int_or",
                 "int_and", "int_xor"} -> ShiftsAndLogic(op, mode, a, busy)
      [] op \in {"count_bits", "count_bits_leading", "count_bits_trailing"} -> Counts(op, mode, a, busy)
      [] op \in {"int_to_float", "float_to_int", "float32_to_float64", "float64_to_float32",
                 "int_as_float", "float_as_int"} -> Conversions(op, mode, a)
      [] op \in {"determine_array_size", "array_address", "check_index_out_of_bounds",
                 "load_nil"} -> Arrays(op, mode, a, busy)
      [] op \in {"load_synchronized", "store_synchronized", "exchange_synchronized",
                 "compare_exchange_synchronized", "fetch_add_synchronized"} -> Atomics(op, mode, a, busy)
      [] op \in {"load_mem", "lea", "emit_barrier", "store_mem", "store_zero", "copy_reg",
                 "copy_pc", "copy_ra", "copy_sp", "set_sp", "copy_freg", "extend_int_long",
                 "extend_byte", "debug"} -> MemoryAndMoves(op, mode, a, busy)
      [] op \in {"load_int_const", "load_true", "load_false", "int_neg", "int_not", "bool_not"} ->
            Constants(op, mode, a, busy)
      [] OTHER -> Asm(FloatMethod[op], F(mode), a)
=============================================================================
