------------------------------- MODULE MasmX64 -------------------------------
(***************************************************************************)
(* The macro assembler of masm/x64.rs: the calls of the assembler each of  *)
(* its operations makes, in their order.                                   *)
(*                                                                         *)
(* A mode is the name of a MachineMode.  A register is <<"r", n>> or <<"x", *)
(* n>>, a number <<"n", v>>, a condition <<"cond", CondCode>>, a label     *)
(* <<"label", name>>, and a memory operand one of <<"Local", offset>>,     *)
(* <<"Base", reg, disp>>, <<"Index", base, index, scale, disp>>, <<"Offset", *)
(* index, scale, disp>>.  busy counts the scratch registers in use.        *)
(*                                                                         *)
(* The widths are scaled: 64 bits are 16 here, 32 bits are 8 and a byte is *)
(* 2, so that the constants of the code that depend on a width are named.  *)
(***************************************************************************)
EXTENDS Integers, Sequences, SequencesExt

MinInt(mode) == IF mode = "Int64" THEN -(2^15) ELSE -(2^7)
FitsI32(v) == v \in -(2^7)..(2^7 - 1)
ByteMask == 3
CARD_SIZE_BITS == 2
MAX_DISP == 2^12                 \* 0x7FFF_FFFF in emit_barrier

\* cpu/x64.rs
RAX == <<"r", 0>>
RCX == <<"r", 1>>
RDX == <<"r", 2>>
RSP == <<"r", 4>>
RBP == <<"r", 5>>
REG_RESULT == RAX
REG_THREAD == <<"r", 15>>
REG_PARAMS == <<<<"r", 7>>, <<"r", 6>>, RDX, RCX, <<"r", 8>>, <<"r", 9>>>>
SCRATCH == <<<<"r", 7>>, <<"r", 6>>, RDX, RCX>>

\* Layout of objects and of the thread's data.
HeaderSize == 16
OffsetOfArrayLength == HeaderSize
OffsetOfArrayData == HeaderSize + 8
OffsetOfMethodTable == 32
StackLimitOffset == 24
SafepointOffset == 20

ModeSize == [Int8 |-> 1, Int32 |-> 4, Int64 |-> 8, IntPtr |-> 8, Ptr |-> 8,
             Float32 |-> 4, Float64 |-> 8]

is64(mode) == mode \in {"Int64", "Ptr"}
W(mode) == IF is64(mode) THEN "q" ELSE "l"
F(mode) == IF mode = "Float64" THEN "sd" ELSE "ss"

-----------------------------------------------------------------------------
(* Calls of the assembler, the constant pool and the tables.               *)

Im(n) == LET sign == IF n < 0 THEN 255 ELSE 0 IN
    <<"i", [k \in 1..8 |-> IF k <= 4 THEN (n \div 256^(k - 1)) % 256 ELSE sign]>>

Asm(mn, w, kinds, args) == <<[k |-> "asm", i |-> [m |-> <<mn, w, kinds>>, a |-> args]]>>
rr(mn, w, d, s) == Asm(mn, w, "rr", <<d, s>>)
ri(mn, w, d, n) == Asm(mn, w, "ri", <<d, Im(n)>>)
xx(mn, w, d, s) == Asm(mn, w, "xx", <<d, s>>)
r1(mn, w, r) == Asm(mn, w, "r", <<r>>)

\* An instruction with an address relative to the next instruction, size bytes
\* after its start, for the entry added last to the constant pool.
Rip(mn, w, kinds, reg, size) ==
    <<[k |-> "rip", m |-> <<mn, w, kinds>>, reg |-> reg, size |-> size]>>
Const(size, value) == <<[k |-> "const", size |-> size, value |-> value]>>
Align(size) == <<[k |-> "align", size |-> size]>>

create_label(name) == <<[k |-> "label", name |-> name]>>
bind_label(name) == <<[k |-> "bind", name |-> name]>>
jcc(cc, name) == <<[k |-> "jump", kind |-> <<"j", cc, FALSE>>, name |-> name]>>
emit_bailout(name, trap) == <<[k |-> "bailout", name |-> name, trap |-> trap]>>
emit_position == <<[k |-> "position"]>>
emit_lazy_compilation_site(direct) == <<[k |-> "lazy", direct |-> direct]>>

\* Condition
Overflow == 0
Below == 2
AboveOrEqual == 3
Equal == 4
NotEqual == 5
Above == 7
Parity == 10
NoParity == 11

convert_into_condition ==
    [Zero |-> 4, NonZero |-> 5, Equal |-> 4, NotEqual |-> 5, Less |-> 12, LessEq |-> 14,
     Greater |-> 15, GreaterEq |-> 13, UnsignedGreater |-> 7, UnsignedGreaterEq |-> 3,
     UnsignedLess |-> 2, UnsignedLessEq |-> 6]

Scale == [n \in {1, 2, 4, 8} |-> CASE n = 1 -> 0 [] n = 2 -> 1 [] n = 4 -> 2 [] n = 8 -> 3]

address_from_mem(mem) ==
    CASE mem[1] = "Local" -> <<"offset", RBP[2], mem[2]>>
      [] mem[1] = "Base" -> <<"offset", mem[2][2], mem[3]>>
      [] mem[1] = "Index" -> <<"array", mem[2][2], mem[3][2], Scale[mem[4]], mem[5]>>
      [] mem[1] = "Offset" -> <<"index", mem[2][2], Scale[mem[3]], mem[4]>>

-----------------------------------------------------------------------------
(* Operations other operations are made of.                                *)

mov_rr(mode, d, s) == rr("mov", W(mode), d, s)

\* if dest != lhs { mov_rr(..) }
IntoReg(mode, d, s) == IF d = s THEN <<>> ELSE mov_rr(mode, d, s)

copy_freg(mode, d, s) == xx("mov", F(mode), d, s)
IntoFReg(mode, d, s) == IF d = s THEN <<>> ELSE copy_freg(mode, d, s)

load_int_const(mode, dest, imm) ==
    IF imm = 0 THEN rr("xor", "l", dest, dest)
    ELSE ri("mov", IF mode \in {"Int8", "Int32"} THEN "l" ELSE "q", dest, imm)

\* next instruction has 7 bytes
load_constpool(dest) == Rip("mov", "q", "ra", dest, 7)

call_reg(r) == r1("call", "", r)

raw_call(ptr) == Const(8, ptr) \o load_constpool(REG_RESULT) \o call_reg(REG_RESULT)

jump_if(cond, name) == jcc(convert_into_condition[cond], name)

\* Trap::int, as the number of the trap.
TrapNumber == [DIV0 |-> 1, ASSERT |-> 2, INDEX_OUT_OF_BOUNDS |-> 3, NIL |-> 4, CAST |-> 5,
               OOM |-> 6, STACK_OVERFLOW |-> 7, ILLEGAL |-> 8, OVERFLOW |-> 9]
trap(t, stub) ==
    load_int_const("Int32", REG_PARAMS[1], TrapNumber[t]) \o raw_call(stub) \o emit_position

nop == Asm("nop", "", "", <<>>)

load_mem(mode, dest, mem) ==
    LET a == address_from_mem(mem) IN
    CASE mode = "Int8" -> Asm("movzxb", "l", "ra", <<dest, a>>)
      [] mode = "Int32" -> Asm("mov", "l", "ra", <<dest, a>>)
      [] mode \in {"Int64", "Ptr", "IntPtr"} -> Asm("mov", "q", "ra", <<dest, a>>)
      [] mode \in {"Float32", "Float64"} -> Asm("mov", F(mode), "xa", <<dest, a>>)

cmp_zero(mode, lhs) == rr("test", W(mode), lhs, lhs)

\* MacroAssembler::test_if_nil and test_if_nil_bailout, of masm.rs.
test_if_nil(reg, name) ==
    cmp_zero("Ptr", reg) \o create_label(name) \o jump_if("Equal", name)
test_if_nil_bailout(reg, t) == test_if_nil(reg, "nil") \o emit_bailout("nil", t)

-----------------------------------------------------------------------------
(* The operations, in the order of the source: op is the name, a the       *)
(* arguments.                                                              *)

\* prolog to decrease_stack_frame.
Frames(op, mode, a) ==
    CASE op = "prolog" ->
            r1("push", "q", RBP) \o rr("mov", "q", RBP, RSP)
            \o (IF a[1][2] > 0 THEN ri("sub", "q", RSP, a[1][2]) ELSE <<>>)
      [] op = "check_stack_pointer" ->
            Asm("cmp", "q", "ar", <<<<"offset", REG_THREAD[2], StackLimitOffset>>, RSP>>)
            \o jcc(Above, a[1][2])
      [] op = "safepoint" ->
            Asm("cmp", "b", "ai", <<<<"offset", REG_THREAD[2], SafepointOffset>>, Im(0)>>)
            \o jcc(NotEqual, a[1][2])
      [] op = "fix_result" -> IF mode = "Int8" THEN ri("and", "q", a[1], ByteMask) ELSE <<>>
      [] op = "epilog" ->
            rr("mov", "q", RSP, RBP) \o r1("pop", "q", RBP) \o Asm("ret", "q", "", <<>>)
      [] op = "epilog_without_return" -> rr("mov", "q", RSP, RBP) \o r1("pop", "q", RBP)
      [] op = "increase_stack_frame" -> IF a[1][2] > 0 THEN ri("sub", "q", RSP, a[1][2]) ELSE <<>>
      [] op = "decrease_stack_frame" -> IF a[1][2] > 0 THEN ri("add", "q", RSP, a[1][2]) ELSE <<>>

\* direct_call to load_array_elem.
CallsAndElements(op, mode, a) ==
    CASE op = "direct_call" -> raw_call(a[1][2]) \o emit_lazy_compilation_site(TRUE)
      [] op = "raw_call" -> raw_call(a[1][2])
      [] op = "virtual_call" ->
            LET obj == REG_PARAMS[a[2][2] + 1] IN
            test_if_nil_bailout(obj, "NIL")
            \o load_mem("Ptr", REG_RESULT, <<"Base", obj, 0>>)
            \o load_mem("Ptr", REG_RESULT,
                        <<"Base", REG_RESULT, OffsetOfMethodTable + a[1][2] * 8>>)
            \o call_reg(REG_RESULT) \o emit_lazy_compilation_site(FALSE)
      [] op = "load_array_elem" ->
            load_mem(mode, a[1], <<"Index", a[2], a[3], ModeSize[mode], OffsetOfArrayData>>)

\* set to cmp_reg_imm
Comparisons(op, mode, a) ==
    CASE op = "set" -> Asm("set", "", "r", <<a[1], <<"c", convert_into_condition[a[2][2]]>>>>)
                       \o rr("movzxb", "l", a[1], a[1])
      [] op = "cmp_mem" ->
            Asm("cmp", IF mode = "Int8" THEN "b" ELSE W(mode), "ar", <<address_from_mem(a[1]), a[2]>>)
      [] op = "cmp_mem_imm" ->
            Asm("cmp", IF mode = "Int8" THEN "b" ELSE W(mode), "ai",
                <<address_from_mem(a[1]), Im(a[2][2])>>)
      [] op = "cmp_reg" -> rr("cmp", W(mode), a[1], a[2])
      [] op = "cmp_reg_imm" -> ri("cmp", W(mode), a[1], a[2][2])

\* dest is 1 if the flags say above, -1 if they say below, 0 otherwise.
ThreeWay(dest, scratch) ==
    Asm("set", "", "r", <<dest, <<"c", Above>>>>) \o ri("mov", "l", scratch, -1)
    \o Asm("cmov", "l", "rr", <<dest, scratch, <<"c", Below>>>>)

cmp_int(mode, dest, lhs, rhs, scratch) ==
    rr("xor", "l", dest, dest) \o rr("cmp", W(mode), lhs, rhs) \o ThreeWay(dest, scratch)

float_cmp_int(mode, dest, lhs, rhs, scratch) ==
    rr("xor", "l", dest, dest) \o xx("ucomi", F(mode), lhs, rhs) \o ThreeWay(dest, scratch)

float_cmp(mode, dest, lhs, rhs, cond, scratch) ==
    CASE cond \in {"Equal", "NotEqual"} ->
            load_int_const("Int32", scratch, IF cond = "Equal" THEN 0 ELSE 1)
            \o rr("xor", "l", dest, dest) \o xx("ucomi", F(mode), lhs, rhs)
            \o Asm("set", "", "r", <<dest, <<"c", IF cond = "Equal" THEN NoParity ELSE Parity>>>>)
            \o Asm("cmov", "l", "rr", <<dest, scratch, <<"c", NotEqual>>>>)
      [] cond \in {"Greater", "GreaterEq"} ->
            load_int_const("Int32", dest, 0) \o xx("ucomi", F(mode), lhs, rhs)
            \o Asm("set", "", "r",
                   <<dest, <<"c", IF cond = "Greater" THEN Above ELSE AboveOrEqual>>>>)
      [] cond \in {"Less", "LessEq"} ->
            rr("xor", "l", dest, dest) \o xx("ucomi", F(mode), rhs, lhs)
            \o Asm("set", "", "r",
                   <<dest, <<"c", IF cond = "Less" THEN Above ELSE AboveOrEqual>>>>)

float_cmp_nan(mode, dest, src) ==
    rr("xor", "l", dest, dest) \o xx("ucomi", F(mode), src, src)
    \o Asm("set", "", "r", <<dest, <<"c", Parity>>>>)

\* cmp_zero to jump_reg
Branches(op, mode, a) ==
    CASE op = "cmp_zero" -> cmp_zero(mode, a[1])
      [] op = "test_and_jump_if" -> rr("test", "l", a[2], a[2]) \o jump_if(a[1][2], a[3][2])
      [] op = "jump_if" -> jump_if(a[1][2], a[2][2])
      [] op = "jump" -> jcc(-1, a[1][2])
      [] op = "jump_reg" -> r1("jmp", "", a[1])


\* int_div with result RAX, int_mod with RDX.
div_common(mode, dest, lhs, rhs, result, scratch) ==
    rr("test", W(mode), rhs, rhs)
    \o create_label("zero") \o create_label("done") \o create_label("div")
    \o jump_if("Zero", "zero") \o emit_bailout("zero", "DIV0")
    \o create_label("overflow")
    \o ri("mov", W(mode), scratch, MinInt(mode)) \o rr("cmp", W(mode), scratch, lhs)
    \o jcc(NotEqual, "div") \o ri("cmp", W(mode), rhs, -1)
    \o jcc(Equal, "overflow") \o emit_bailout("overflow", "OVERFLOW")
    \o bind_label("div") \o IntoReg(mode, RAX, lhs)
    \o Asm("cdq", W(mode), "", <<>>) \o r1("idiv", W(mode), rhs)
    \o IntoReg(mode, dest, result) \o bind_label("done")

\* A two-operand instruction, its result moved from lhs to dest.
TwoOperand(mn, mode, a) == rr(mn, W(mode), a[2], a[3]) \o IntoReg(mode, a[1], a[2])
Checked(mn, mode, a) ==
    rr(mn, W(mode), a[2], a[3]) \o create_label("overflow") \o jcc(Overflow, "overflow")
    \o emit_bailout("overflow", "OVERFLOW") \o IntoReg(mode, a[1], a[2])

int_add_imm(mode, dest, lhs, value, busy) ==
    IF FitsI32(value) THEN ri("add", W(mode), lhs, value) \o IntoReg(mode, dest, lhs)
    ELSE LET reg_size == SCRATCH[busy + 1] IN
         load_int_const("Ptr", reg_size, value) \o rr("add", W(mode), lhs, reg_size)
         \o IntoReg(mode, dest, lhs)

\* int_div to int_sub_checked
Arithmetic(op, mode, a, busy) ==
    CASE op = "int_div" -> div_common(mode, a[1], a[2], a[3], RAX, SCRATCH[busy + 1])
      [] op = "int_mod" -> div_common(mode, a[1], a[2], a[3], RDX, SCRATCH[busy + 1])
      [] op = "int_mul" -> TwoOperand("imul", mode, a)
      [] op = "int_mul_checked" -> Checked("imul", mode, a)
      [] op = "int_add" -> TwoOperand("add", mode, a)
      [] op = "int_add_checked" -> Checked("add", mode, a)
      [] op = "int_add_imm" -> int_add_imm(mode, a[1], a[2], a[3][2], busy)
      [] op = "int_sub" -> TwoOperand("sub", mode, a)
      [] op = "int_sub_checked" -> Checked("sub", mode, a)

\* The count of a shift is in RCX.
ShiftByCL(mn, mode, a) ==
    IntoReg(mode, RCX, a[3]) \o r1(mn, W(mode), a[2]) \o IntoReg(mode, a[1], a[2])

\* int_shl to int_xor
ShiftsAndLogic(op, mode, a) ==
    CASE op = "int_shl" -> ShiftByCL("shl", mode, a)
      [] op = "int_shr" -> ShiftByCL("shr", mode, a)
      [] op = "int_sar" -> ShiftByCL("sar", mode, a)
      [] op = "int_rol" -> ShiftByCL("rol", mode, a)
      [] op = "int_ror" -> ShiftByCL("ror", mode, a)
      [] op = "int_or" -> TwoOperand("or", mode, a)
      [] op = "int_and" -> TwoOperand("and", mode, a)
      [] op = "int_xor" -> TwoOperand("xor", mode, a)

\* Counting zero bits, or the leading or trailing one bits, inverts first.
Counted(mn, mode, a, invert) ==
    (IF invert THEN r1("not", W(mode), a[2]) ELSE <<>>) \o rr(mn, W(mode), a[1], a[2])

\* count_bits, count_bits_leading and count_bits_trailing
Counts(op, mode, a) ==
    CASE op = "count_bits" -> Counted("popcnt", mode, a, ~ a[3][2])
      [] op = "count_bits_leading" -> Counted("lzcnt", mode, a, a[3][2])
      [] op = "count_bits_trailing" -> Counted("tzcnt", mode, a, a[3][2])

\* int_to_float to float_as_int.  mode is that of the float, a[3] the other.
Conversions(op, mode, a) ==
    CASE op = "int_to_float" ->
            xx("pxor", "", a[1], a[1])
            \o Asm(IF mode = "Float32" THEN "cvtsi2ss" ELSE "cvtsi2sd", W(a[3][2]), "xr", <<a[1], a[2]>>)
      [] op = "float_to_int" ->
            Asm(IF mode = "Float32" THEN "cvttss2si" ELSE "cvttsd2si", W(a[3][2]), "rx", <<a[1], a[2]>>)
      [] op = "float32_to_float64" -> xx("cvtss2sd", "", a[1], a[2])
      [] op = "float64_to_float32" -> xx("cvtsd2ss", "", a[1], a[2])
      [] op = "int_as_float" -> Asm("mov", IF mode = "Float32" THEN "l" ELSE "q", "xr", <<a[1], a[2]>>)
      [] op = "float_as_int" -> Asm("mov", IF mode = "Float32" THEN "l" ELSE "q", "rx", <<a[1], a[2]>>)

determine_array_size(dest, length, element_size, with_header, scratch) ==
    LET header_size == IF with_header THEN HeaderSize + 8 ELSE 0
        size == header_size + (IF element_size # 8 THEN 7 ELSE 0)
    IN (IF element_size \in DOMAIN Scale
        THEN Asm("lea", "q", "ra", <<dest, <<"index", length[2], Scale[element_size], size>>>>)
        ELSE load_int_const("Ptr", scratch, element_size) \o rr("imul", "q", scratch, length)
             \o ri("add", "q", scratch, size) \o rr("mov", "q", dest, scratch))
       \o (IF element_size # 8 THEN ri("and", "q", dest, -8) ELSE <<>>)

array_address(dest, obj, index, element_size, scratch) ==
    load_int_const("Ptr", scratch, element_size) \o rr("imul", "q", scratch, index)
    \o ri("add", "q", scratch, HeaderSize + 8) \o rr("add", "q", scratch, obj)
    \o rr("mov", "q", dest, scratch)

check_index_out_of_bounds(array, index, scratch) ==
    load_mem("Int64", scratch, <<"Base", array, OffsetOfArrayLength>>)
    \o rr("cmp", "q", index, scratch)
    \o create_label("bounds") \o jump_if("UnsignedGreaterEq", "bounds")
    \o emit_bailout("bounds", "INDEX_OUT_OF_BOUNDS")

\* determine_array_size to load_nil
Arrays(op, mode, a, busy) ==
    CASE op = "determine_array_size" ->
            determine_array_size(a[1], a[2], a[3][2], a[4][2], SCRATCH[busy + 1])
      [] op = "array_address" -> array_address(a[1], a[2], a[3], a[4][2], SCRATCH[busy + 1])
      [] op = "check_index_out_of_bounds" ->
            check_index_out_of_bounds(a[1], a[2], SCRATCH[busy + 1])
      [] op = "load_nil" -> rr("xor", "l", a[1], a[1])

\* load_int32_synchronized to fetch_add_int64_synchronized; the exchanges with
\* a value leave what was there in a register of their own choice.
At(r) == <<"offset", r[2], 0>>
Atomics(op, mode, a) ==
    CASE op = "load_synchronized" -> Asm("mov", W(mode), "ra", <<a[1], At(a[2])>>)
      [] op = "store_synchronized" -> Asm("xchg", W(mode), "ar", <<At(a[2]), a[1]>>)
      [] op = "exchange_synchronized" ->
            Asm("xchg", W(mode), "ar", <<At(a[3]), a[2]>>) \o rr("mov", W(mode), a[1], a[2])
      [] op = "compare_exchange_synchronized" ->
            Asm("lock_cmpxchg", W(mode), "ar", <<At(a[3]), a[2]>>)
      [] op = "fetch_add_synchronized" ->
            Asm("lock_xadd", W(mode), "ar", <<At(a[3]), a[2]>>)

\* The register that holds the old value: the methods return it.
Returned(op, a) ==
    CASE op = "compare_exchange_synchronized" -> RAX
      [] op = "fetch_add_synchronized" -> a[2]
      [] OTHER -> a[1]

emit_barrier(src, card_table_offset, scratch) ==
    ri("shr", "q", src, CARD_SIZE_BITS)
    \o IF card_table_offset <= MAX_DISP
       THEN Asm("mov", "b", "ai", <<<<"offset", src[2], card_table_offset>>, Im(0)>>)
       ELSE load_int_const("Ptr", scratch, card_table_offset)
            \o Asm("mov", "b", "ai", <<<<"array", src[2], scratch[2], 0, 0>>, Im(0)>>)

store_mem(mode, mem, src) ==
    LET a == address_from_mem(mem) IN
    CASE mode = "Int8" -> Asm("mov", "b", "ar", <<a, src>>)
      [] mode = "Int32" -> Asm("mov", "l", "ar", <<a, src>>)
      [] mode \in {"Int64", "Ptr", "IntPtr"} -> Asm("mov", "q", "ar", <<a, src>>)
      [] mode \in {"Float32", "Float64"} -> Asm("mov", F(mode), "ax", <<a, src>>)

store_zero(mode, mem) ==
    LET a == address_from_mem(mem) IN
    CASE mode = "Int8" -> Asm("mov", "b", "ai", <<a, Im(0)>>)
      [] mode \in {"Int32", "Float32"} -> Asm("mov", "l", "ai", <<a, Im(0)>>)
      [] mode \in {"Int64", "Ptr", "IntPtr", "Float64"} -> Asm("mov", "q", "ai", <<a, Im(0)>>)

\* load_mem to call_reg and debug
MemoryAndMoves(op, mode, a, busy) ==
    CASE op = "load_mem" -> load_mem(mode, a[1], a[2])
      [] op = "lea" -> Asm("lea", "q", "ra", <<a[1], address_from_mem(a[2])>>)
      [] op = "emit_barrier" -> emit_barrier(a[1], a[2][2], SCRATCH[busy + 1])
      [] op = "store_mem" -> store_mem(mode, a[1], a[2])
      [] op = "store_zero" -> store_zero(mode, a[1])
      [] op = "copy_reg" -> mov_rr(mode, a[1], a[2])
      [] op = "copy_pc" -> Asm("lea", "q", "ra", <<a[1], <<"rip", 0>>>>)
      [] op = "copy_ra" -> load_mem("Ptr", a[1], <<"Base", RSP, 0>>)
      [] op = "copy_sp" -> mov_rr("Ptr", a[1], RSP)
      [] op = "set_sp" -> mov_rr("Ptr", RSP, a[1])
      [] op = "copy_freg" -> copy_freg(mode, a[1], a[2])
      [] op = "extend_int_long" -> rr("movsxl", "q", a[1], a[2])
      [] op = "extend_byte" -> rr("movzxb", "l", a[1], a[2])
      [] op = "debug" -> Asm("int3", "", "", <<>>)

\* The value is 0.0, or one of the constant pool's.
load_float_const(mode, dest, bits, zero) ==
    IF zero THEN xx("xor", "ps", dest, dest)
    ELSE Const(ModeSize[mode], bits)
         \o Rip("mov", F(mode), "xa", dest, 8 + (IF dest[2] > 7 THEN 1 ELSE 0))

\* load_int_const to bool_not
Constants(op, mode, a) ==
    CASE op = "load_int_const" -> load_int_const(mode, a[1], a[2][2])
      [] op = "load_float_const" -> load_float_const(mode, a[1], a[2][2], a[3][2])
      [] op = "load_true" -> ri("mov", "l", a[1], 1)
      [] op = "load_false" -> rr("xor", "l", a[1], a[1])
      [] op = "int_neg" -> r1("neg", W(mode), a[2]) \o IntoReg(mode, a[1], a[2])
      [] op = "int_not" -> r1("not", W(mode), a[2]) \o IntoReg(mode, a[1], a[2])
      [] op = "bool_not" -> ri("xor", "l", a[2], 1) \o IntoReg("Int32", a[1], a[2])

\* A mask in the constant pool, 16 bytes wide: two words of 32 bits and zeros.
Mask(fst, snd) ==
    Align(16) \o Const(4, 0) \o Const(4, 0) \o Const(4, snd) \o Const(4, fst)

\* All but the sign of a word, and the sign alone, at the scaled width.
NoSign == 2^7 - 1
OnlySign == 2^7

float_abs(mode, dest, src) ==
    (IF mode = "Float32" THEN Mask(NoSign, 0) ELSE Mask(2^8 - 1, NoSign))
    \o Rip("and", "ps", "xa", src, 7 + (IF src[2] > 7 THEN 1 ELSE 0))
    \o IntoFReg(mode, dest, src)

float_neg(mode, dest, src) ==
    (IF mode = "Float32" THEN Mask(OnlySign, 0) ELSE Mask(0, OnlySign))
    \o Rip("xor", IF mode = "Float32" THEN "ps" ELSE "pd", "xa", src,
           7 + (IF mode = "Float64" THEN 1 ELSE 0) + (IF src[2] > 7 THEN 1 ELSE 0))
    \o IntoFReg(mode, dest, src)

FloatTwoOperand(mn, mode, a) == xx(mn, F(mode), a[2], a[3]) \o IntoFReg(mode, a[1], a[2])
Round(imm, mode, a) ==
    Asm("round", F(mode), "xi", <<a[2], Im(imm)>>) \o IntoFReg(mode, a[1], a[2])

\* float_add to float_sqrt
Floats(op, mode, a) ==
    CASE op = "float_add" -> FloatTwoOperand("add", mode, a)
      [] op = "float_sub" -> FloatTwoOperand("sub", mode, a)
      [] op = "float_mul" -> FloatTwoOperand("mul", mode, a)
      [] op = "float_div" -> FloatTwoOperand("div", mode, a)
      [] op = "float_abs" -> float_abs(mode, a[1], a[2])
      [] op = "float_neg" -> float_neg(mode, a[1], a[2])
      [] op = "float_round_tozero" -> Round(11, mode, a)
      [] op = "float_round_up" -> Round(10, mode, a)
      [] op = "float_round_down" -> Round(9, mode, a)
      [] op = "float_round_halfeven" -> Round(8, mode, a)
      [] op = "float_sqrt" -> xx("sqrt", F(mode), a[1], a[2])

\* An operation: the group its name belongs to.
Operation(op, mode, a, busy) ==
    CASE op \in {"prolog", "check_stack_pointer", "safepoint", "fix_result", "epilog",
                 "epilog_without_return", "increase_stack_frame", "decrease_stack_frame"} ->
            Frames(op, mode, a)
      [] op \in {"direct_call", "raw_call", "virtual_call", "load_array_elem"} ->
            CallsAndElements(op, mode, a)
      [] op \in {"set", "cmp_mem", "cmp_mem_imm", "cmp_reg", "cmp_reg_imm"} ->
            Comparisons(op, mode, a)
      [] op = "cmp_int" -> cmp_int(mode, a[1], a[2], a[3], SCRATCH[busy + 1])
      [] op = "float_cmp_int" -> float_cmp_int(mode, a[1], a[2], a[3], SCRATCH[busy + 1])
      [] op = "float_cmp" -> float_cmp(mode, a[1], a[2], a[3], a[4][2], SCRATCH[busy + 1])
      [] op = "float_cmp_nan" -> float_cmp_nan(mode, a[1], a[2])
      [] op \in {"cmp_zero", "test_and_jump_if", "jump_if", "jump", "jump_reg"} ->
            Branches(op, mode, a)
      [] op \in {"int_div", "int_mod", "int_mul", "int_mul_checked", "int_add",
                 "int_add_checked", "int_add_imm", "int_sub", "int_sub_checked"} ->
            Arithmetic(op, mode, a, busy)
      [] op \in {"int_shl", "int_shr", "int_sar", "int_rol", "int_ror", "int_or",
                 "int_and", "int_xor"} -> ShiftsAndLogic(op, mode, a)
      [] op \in {"count_bits", "count_bits_leading", "count_bits_trailing"} -> Counts(op, mode, a)
      [] op \in {"int_to_float", "float_to_int", "float32_to_float64", "float64_to_float32",
                 "int_as_float", "float_as_int"} -> Conversions(op, mode, a)
      [] op \in {"determine_array_size", "array_address", "check_index_out_of_bounds",
                 "load_nil"} -> Arrays(op, mode, a, busy)
      [] op \in {"load_synchronized", "store_synchronized", "exchange_synchronized",
                 "compare_exchange_synchronized", "fetch_add_synchronized"} -> Atomics(op, mode, a)
      [] op \in {"load_mem", "lea", "emit_barrier", "store_mem", "store_zero", "copy_reg",
                 "copy_pc", "copy_ra", "copy_sp", "set_sp", "copy_freg", "extend_int_long",
                 "extend_byte", "debug"} -> MemoryAndMoves(op, mode, a, busy)
      [] op \in {"load_int_const", "load_float_const", "load_true", "load_false", "int_neg",
                 "int_not", "bool_not"} -> Constants(op, mode, a)
      [] OTHER -> Floats(op, mode, a)
=============================================================================
