--------------------------- MODULE MacroAssembler ---------------------------
(***************************************************************************)
(* MacroAssembler (masm.rs): one operation in a function of its own, from  *)
(* the calls of the assembler it makes to the execution of the bytes that  *)
(* come out.                                                               *)
(*                                                                         *)
(* The function is assembled with its bailouts, its constant pool and its  *)
(* tables, finished as code() does, and run by a processor that decodes it *)
(* (CpuX64, CpuArm64) on chosen inputs.  What the function leaves behind   *)
(* is compared with what the operation promises.                           *)
(***************************************************************************)
EXTENDS Assembler, Machine

CONSTANTS
    Operations(_),      \* arch: the operations, [op, mode, a, cond, pool]
    Inputs(_, _)        \* arch, operation: registers and memory words to start with

MX == INSTANCE MasmX64
MA == INSTANCE MasmArm64
CX == INSTANCE CpuX64
CA == INSTANCE CpuArm64

VARIABLES
    op,             \* the operation
    todo,           \* calls still to be made
    named,          \* [name, label]: the labels of the operation
    bailouts,       \* [label, trap]
    pool,           \* constpool: [size, entries], an entry is [disp, size, value]
    positions,      \* offsets in the position table
    sites,          \* lazy compilation: [pos, direct, disp]
    finished,       \* finish has run
    input, cpu,     \* what the function is run with; the processor, "off" before
    other           \* another thread has added one to the word under an atomic

masm == <<op, todo, named, bailouts, pool, positions, sites, finished>>
machine == <<input, cpu, other>>
asm == <<arch, client, code, labels, unresolved, program, done>>
allvars == <<asm, masm, machine>>

-----------------------------------------------------------------------------
(* The two back ends.                                                      *)

REG_RESULT == IF arch = "x64" THEN MX!REG_RESULT ELSE MA!REG_RESULT
SCRATCH == IF arch = "x64" THEN MX!SCRATCH ELSE MA!SCRATCH
SP == IF arch = "x64" THEN 4 ELSE 101
FP == IF arch = "x64" THEN 5 ELSE 29
THREAD == IF arch = "x64" THEN 15 ELSE 28

\* A call of an operation of the back end, with busy scratch registers in use.
Backend(name, mode, a, busy) ==
    <<[k |-> "operation", name |-> name, mode |-> mode, a |-> a, busy |-> busy]>>
trap(t) == <<[k |-> "trap", trap |-> t]>>
nop == <<[k |-> "nop"]>>

\* The calls of the assembler it makes.
Expansion(s) ==
    CASE s.k = "operation" ->
            IF arch = "x64" THEN MX!Operation(s.name, s.mode, s.a, s.busy)
                            ELSE MA!Operation(s.name, s.mode, s.a, s.busy)
      [] s.k = "trap" -> IF arch = "x64" THEN MX!trap(s.trap, op.stub) ELSE MA!trap(s.trap, op.stub)
      [] s.k = "nop" -> IF arch = "x64" THEN MX!nop ELSE MA!nop

\* Steps common to both.
Label(name) == <<[k |-> "label", name |-> name]>>
Bind(name) == <<[k |-> "bind", name |-> name]>>
Bailout(name, t) == <<[k |-> "bailout", name |-> name, trap |-> t]>>
Num(n) == <<"n", n>>
Lbl(name) == <<"label", name>>

bailout_if(cond, t) ==
    Label("bailout") \o Backend("jump_if", "", <<<<"cond", cond>>, Lbl("bailout")>>, 0)
    \o Bailout("bailout", t)

\* test_if_nil and test_if_not_nil, with the label they return.
test_if(cond, reg, name) ==
    Backend("cmp_zero", "Ptr", <<reg>>, 0) \o Label(name)
    \o Backend("jump_if", "", <<<<"cond", cond>>, Lbl(name)>>, 0)

copy(mode, dest, src) ==
    Backend(IF dest[1] = "r" THEN "copy_reg" ELSE "copy_freg", mode, <<dest, src>>, 0)

fill_zero_dynamic(obj, obj_end, busy) ==
    LET zero == SCRATCH[busy + 1]  curr == SCRATCH[busy + 2] IN
    Label("done") \o Label("start")
    \o Backend("load_int_const", "Ptr", <<zero, Num(0)>>, busy + 1)
    \o Backend("copy_reg", "Ptr", <<curr, obj>>, busy + 2)
    \o Bind("start") \o Backend("cmp_reg", "Ptr", <<curr, obj_end>>, busy + 2)
    \o Backend("jump_if", "", <<<<"cond", "Equal">>, Lbl("done")>>, busy + 2)
    \o Backend("store_mem", "Ptr", <<<<"Base", curr, 0>>, zero>>, busy + 2)
    \o Backend("int_add_imm", "Ptr", <<curr, curr, Num(8)>>, busy + 2)
    \o Backend("jump", "", <<Lbl("start")>>, busy + 2) \o Bind("done")

fill_zero(obj, array, size) ==
    LET header_size == 16 + (IF array THEN 8 ELSE 0)
        size_words == (size - header_size) \div 8
        s == SCRATCH[1]
    IN CASE size_words = 0 -> <<>>
         [] size_words \in 1..8 ->
              Backend("load_int_const", "Int32", <<s, Num(0)>>, 1)
              \o FlattenSeq([k \in 1..size_words |->
                    Backend("store_mem", "Ptr", <<<<"Base", obj, header_size + (k - 1) * 8>>, s>>, 1)])
         [] size_words > 8 ->
              Backend("copy_reg", "Ptr", <<s, obj>>, 1)
              \o Backend("int_add_imm", "Ptr", <<s, s, Num(header_size + size_words * 8)>>, 1)
              \o Backend("int_add_imm", "Ptr", <<obj, obj, Num(header_size)>>, 1)
              \o fill_zero_dynamic(obj, s, 1)

-----------------------------------------------------------------------------
(* The function around the operation.                                      *)

FrameSize == 16

\* One result if the branch is not taken, another if it is.
Branching(steps) ==
    Label("target") \o steps
    \o Backend("load_int_const", "Int32", <<REG_RESULT, Num(1)>>, 0)
    \o Label("join") \o Backend("jump", "", <<Lbl("join")>>, 0)
    \o Bind("target") \o Backend("load_int_const", "Int32", <<REG_RESULT, Num(2)>>, 0)
    \o Bind("join")

Flagging == {"cmp_mem", "cmp_mem_imm", "cmp_reg", "cmp_reg_imm", "cmp_zero"}
Body(o) ==
    CASE o.op \in Flagging ->
            Backend(o.op, o.mode, o.a, 0) \o Backend("set", "", <<REG_RESULT, <<"cond", o.cond>>>>, 0)
      [] o.op \in {"jump", "check_stack_pointer", "safepoint"} ->
            Branching(Backend(o.op, "", <<Lbl("target")>>, 0))
      [] o.op = "jump_if" ->
            Branching(Backend("cmp_reg", o.mode, o.a, 0)
                      \o Backend("jump_if", "", <<<<"cond", o.cond>>, Lbl("target")>>, 0))
      [] o.op = "test_and_jump_if" ->
            Branching(Backend(o.op, "", <<<<"cond", o.cond>>, o.a[1], Lbl("target")>>, 0))
      [] o.op \in {"test_if_nil", "test_if_not_nil"} ->
            Branching(test_if(IF o.op = "test_if_nil" THEN "Equal" ELSE "NotEqual", o.a[1], "target"))
      [] o.op = "test_if_nil_bailout" -> test_if("Equal", o.a[1], "nil") \o Bailout("nil", "NIL")
      [] o.op = "bailout_if" -> Backend("cmp_reg", o.mode, o.a, 0) \o bailout_if(o.cond, "ASSERT")
      [] o.op = "trap" -> trap("STACK_OVERFLOW")
      [] o.op = "copy" -> copy(o.mode, o.a[1], o.a[2])
      [] o.op = "fill_zero" -> fill_zero(o.a[1], o.a[2][2], o.a[3][2])
      [] o.op = "fill_zero_dynamic" -> fill_zero_dynamic(o.a[1], o.a[2], 0)
      [] o.op \in {"increase_stack_frame", "decrease_stack_frame"} ->
            Backend(o.op, "", o.a, 0) \o Backend("copy_sp", "", <<REG_RESULT>>, 0)
      [] o.op = "set_sp" -> Backend(o.op, "", o.a, 0) \o Backend("copy_sp", "", <<REG_RESULT>>, 0)
      [] o.op \in {"copy_ra", "jump_reg"} -> <<>>
      [] OTHER -> Backend(o.op, o.mode, o.a, 0)

\* An operation may find an entry of another size in the constant pool.
Earlier(o) ==
    IF o.pool THEN Backend("load_float_const", "Float32",
                           <<<<IF arch = "x64" THEN "x" ELSE "v", 15>>, Num(5), <<"zero", FALSE>>>>, 0)
    ELSE <<>>

Program(o) ==
    (IF o.op = "copy_ra" THEN Backend(o.op, "", o.a, 0) ELSE <<>>)
    \o Backend("prolog", "", <<Num(FrameSize)>>, 0) \o Earlier(o) \o Body(o)
    \o (IF o.op = "jump_reg" THEN Backend("epilog_without_return", "", <<>>, 0) \o Backend("jump_reg", "", o.a, 0)
        ELSE Backend("epilog", "", <<>>, 0))

-----------------------------------------------------------------------------
(* Assembling.                                                             *)

Off == [stop |-> "off"]

MasmInit ==
    /\ Init
    /\ IF client = "masm" THEN op \in Operations(arch) ELSE op = Off
    /\ todo = IF client = "masm" THEN Program(op) ELSE <<>>
    /\ named = <<>> /\ bailouts = <<>> /\ positions = {} /\ sites = {}
    /\ pool = [size |-> 0, entries |-> <<>>]
    /\ finished = FALSE /\ input = Off /\ cpu = Off /\ other = FALSE

pos == IF arch = "x64" THEN Len(code) ELSE 4 * Len(code)
align(n, size) == n + ((-n) % size)

\* ConstPool::add_value
add_value(size, value) ==
    LET disp == align(pool.size + size, size) IN
    pool' = [size |-> disp, entries |-> pool.entries \o <<[disp |-> disp, size |-> size, value |-> value]>>]

\* The displacement of the entry added last.
Disp == pool.entries[Len(pool.entries)].disp

LabelOf(name) ==
    LET k == CHOOSE k \in DOMAIN named :
                named[k].name = name /\ \A j \in (k + 1)..Len(named) : named[j].name # name
    IN named[k].label

\* The instruction of a step: one relative to its own position has the distance
\* to the entry added last to the constant pool.
InstructionOf(s) ==
    CASE s.k = "asm" -> s.i
      [] s.k = "rip" -> [m |-> s.m, a |-> <<s.reg, <<"rip", -(Disp + pos + s.size)>>>>]
      [] s.k = "adr" -> [m |-> "adr_imm", w |-> "x", a |-> <<s.reg, <<"i", -(Disp + pos)>>>>]

\* A call of the assembler ...
Assembling(s) ==
    /\ CASE s.k \in {"asm", "rip", "adr"} -> Emit(InstructionOf(s))
         [] s.k = "label" -> create_label
         [] s.k = "bind" -> bind_label(LabelOf(s.name))
         [] s.k = "binding" -> bind_label(s.label)
         [] s.k = "jump" -> JumpBack(s.kind, LabelOf(s.name)) \/ JumpAhead(s.kind, LabelOf(s.name))
    /\ named' = IF s.k = "label" THEN named \o <<[name |-> s.name, label |-> Len(labels) + 1]>> ELSE named
    /\ UNCHANGED <<bailouts, pool, positions, sites>>

\* ... or an entry in the constant pool or one of the tables.
Noting(s) ==
    /\ CASE s.k = "const" -> add_value(s.size, s.value) /\ UNCHANGED <<bailouts, positions, sites>>
         [] s.k = "align" ->
               pool' = [pool EXCEPT !.size = align(@, s.size)] /\ UNCHANGED <<bailouts, positions, sites>>
         [] s.k = "bailout" ->
               /\ bailouts' = bailouts \o <<[label |-> LabelOf(s.name), trap |-> s.trap]>>
               /\ UNCHANGED <<pool, positions, sites>>
         [] s.k = "position" -> positions' = positions \cup {pos} /\ UNCHANGED <<bailouts, pool, sites>>
         [] s.k = "lazy" ->
               /\ sites' = sites \cup {[pos |-> pos, direct |-> s.direct,
                                        disp |-> IF s.direct THEN Disp + pos ELSE 0]}
               /\ UNCHANGED <<bailouts, pool, positions>>
    /\ UNCHANGED <<asm, named>>

Assemble ==
    /\ todo # <<>>
    /\ LET s == Head(todo) IN
       CASE s.k \in {"operation", "trap", "nop"} ->
               /\ todo' = Expansion(s) \o Tail(todo)
               /\ UNCHANGED <<asm, named, bailouts, pool, positions, sites>>
         [] s.k \in {"asm", "rip", "adr", "label", "bind", "binding", "jump"} ->
               Assembling(s) /\ todo' = Tail(todo)
         [] s.k \in {"const", "align", "bailout", "position", "lazy"} -> Noting(s) /\ todo' = Tail(todo)
    /\ UNCHANGED <<op, finished, machine>>

\* Mutant: nothing follows the last trap.
FinishWithoutNop ==
    /\ todo = <<>> /\ ~finished /\ finished' = TRUE
    /\ todo' = FlattenSeq([k \in DOMAIN bailouts |->
                  <<[k |-> "binding", label |-> bailouts[k].label]>> \o trap(bailouts[k].trap)])
    /\ bailouts' = <<>>
    /\ UNCHANGED <<asm, op, named, pool, positions, sites, machine>>

\* finish: every bailout is bound and traps, and a nop follows the last.
finish ==
    /\ todo = <<>> /\ ~finished /\ finished' = TRUE
    /\ todo' = FlattenSeq([k \in DOMAIN bailouts |->
                  <<[k |-> "binding", label |-> bailouts[k].label]>> \o trap(bailouts[k].trap)])
               \o (IF bailouts # <<>> THEN nop ELSE <<>>)
    /\ bailouts' = <<>>
    /\ UNCHANGED <<asm, op, named, pool, positions, sites, machine>>

CODE_ALIGNMENT == IF arch = "x64" THEN 16 ELSE 4       \* 16 bytes

\* code
codes ==
    /\ todo = <<>> /\ finished /\ ~done
    /\ pool' = [pool EXCEPT !.size = align(@, 16)]
    /\ finalize(CODE_ALIGNMENT)
    /\ UNCHANGED <<op, todo, named, bailouts, positions, sites, finished, machine>>

\* ConstPool::install, in front of the code, which is at address 0.
install(mem) ==
    LET Put1(m, e) == LET at == Wrap(pool.size - e.disp - pool.size) IN
                      Store([a \in DOMAIN m \cup {Wrap(at + k) : k \in 0..(e.size - 1)} |->
                                IF a \in DOMAIN m THEN m[a] ELSE 0], at, e.size, e.value)
    IN FoldLeft(Put1, mem, pool.entries)

-----------------------------------------------------------------------------
(* Running the function.  Memory holds an object at 512, the thread's data *)
(* at 584 and the stack up to 672; the caller's return address is 4000.    *)

Object == 512
ThreadData == 584
StackTop == 656
ReturnAddress == 4000
Memory == [a \in 512..671 |-> 1 + (a % 3)]

\* Registers hold something else than the operation's inputs.
Junk(n) == (n * 1031 + 17) % 2^16

WithWords(mem, words) ==
    FoldFunction(LAMBDA w, m : Store(m, w[1], w[2], w[3]), mem, words)

InitialCpu(i) ==
    LET link == IF arch = "x64" THEN <<<<StackTop, 8, ReturnAddress>>>> ELSE <<>>
        numbers == (0..30) \cup {101}
        reg(n) == CASE n = SP -> StackTop [] n = THREAD -> ThreadData
                    [] arch = "arm64" /\ n = 30 -> ReturnAddress
                    [] OTHER -> Junk(n)
    IN [r |-> [n \in numbers |-> IF <<"r", n>> \in DOMAIN i.regs THEN i.regs[<<"r", n>>] ELSE reg(n)],
        x |-> [n \in 0..31 |-> IF <<"x", n>> \in DOMAIN i.regs THEN i.regs[<<"x", n>>]
                               ELSE IF <<"v", n>> \in DOMAIN i.regs THEN i.regs[<<"v", n>>]
                               ELSE Junk(n)],
        f |-> <<>>, mem |-> install(WithWords(Memory, i.words \o link)),
        pc |-> 0, stop |-> "", to |-> 0, ex |-> -1]

Start ==
    /\ done /\ cpu = Off
    /\ input' \in Inputs(arch, op) /\ cpu' = InitialCpu(input') /\ program' = <<>>
    /\ UNCHANGED <<arch, client, code, labels, unresolved, done, masm, other>>

Running == cpu # Off /\ cpu.stop = ""

\* The processor runs on to the next instruction.
Executed(i) == IF arch = "x64" THEN CX!Step(cpu, i.what, i.next) ELSE CA!Step(cpu, i.what, i.next)
Step ==
    /\ Running
    /\ cpu' = Executed(Read(cpu.pc))
    /\ UNCHANGED <<asm, masm, input, other>>

\* Another thread adds one to the word, which takes away exclusive access.
ModeSize(mode) == MX!ModeSize[mode]
Atomic == {"load_synchronized", "store_synchronized", "exchange_synchronized",
           "compare_exchange_synchronized", "fetch_add_synchronized"}
AtomicCell == Object + 16
Interfere ==
    /\ Running /\ op.op \in Atomic /\ ~other /\ other' = TRUE
    /\ LET size == ModeSize(op.mode) IN
       cpu' = [cpu EXCEPT !.mem = Store(@, AtomicCell, size, Load(@, AtomicCell, size) + 1), !.ex = -1]
    /\ UNCHANGED <<asm, masm, input>>

MasmNext ==
    \/ client # "masm" /\ Next /\ UNCHANGED <<masm, machine>>
    \/ client = "masm" /\ (Assemble \/ finish \/ codes \/ Start \/ Step \/ Interfere)
    \/ client = "masm" /\ cpu # Off /\ ~Running /\ UNCHANGED allvars

MasmSpec == MasmInit /\ [][MasmNext]_allvars

-----------------------------------------------------------------------------
(* What an operation promises, from the state it starts in.                *)

BitsOf(mode) == 2 * ModeSize(mode)
Register(c, reg, n) == Unsigned(IF reg[1] = "r" THEN c.r[reg[2]] ELSE c.x[reg[2]], n)

FrameAt == StackTop - (IF arch = "x64" THEN 8 ELSE 16)
StackAt == FrameAt - FrameSize
AddressOf(c, mem) ==
    LET at(reg) == Register(c, reg, 16) IN
    Wrap(CASE mem[1] = "Local" -> FrameAt + mem[2]
           [] mem[1] = "Base" -> at(mem[2]) + mem[3]
           [] mem[1] = "Index" -> at(mem[2]) + at(mem[3]) * mem[4] + mem[5]
           [] mem[1] = "Offset" -> at(mem[2]) * mem[3] + mem[4])

Related(cond, x, y, n) ==
    CASE cond \in {"Equal", "Zero"} -> x = y [] cond \in {"NotEqual", "NonZero"} -> x # y
      [] cond = "Less" -> Signed(x, n) < Signed(y, n) [] cond = "LessEq" -> Signed(x, n) <= Signed(y, n)
      [] cond = "Greater" -> Signed(x, n) > Signed(y, n) [] cond = "GreaterEq" -> Signed(x, n) >= Signed(y, n)
      [] cond = "UnsignedLess" -> x < y [] cond = "UnsignedLessEq" -> x <= y
      [] cond = "UnsignedGreater" -> x > y [] cond = "UnsignedGreaterEq" -> x >= y

FloatRelated(cond, order) ==
    order \in CASE cond = "Equal" -> {"equal"} [] cond = "NotEqual" -> {"less", "greater", "unordered"}
                [] cond = "Less" -> {"less"} [] cond = "LessEq" -> {"less", "equal"}
                [] cond = "Greater" -> {"greater"} [] cond = "GreaterEq" -> {"greater", "equal"}

If(b) == IF b THEN 1 ELSE 0
Sign(v) == If(v > 0) - If(v < 0)

\* The comparison an operation makes before it sets a register or branches.
Condition(o, c) ==
    LET n == BitsOf(o.mode)
        x(k) == Register(c, o.a[k], n)
        cell == Load(c.mem, AddressOf(c, o.a[1]), ModeSize(o.mode))
    IN CASE o.op \in {"cmp_reg", "jump_if", "bailout_if"} -> Related(o.cond, x(1), x(2), n)
         [] o.op = "cmp_reg_imm" -> Related(o.cond, x(1), Unsigned(o.a[2][2], n), n)
         [] o.op = "cmp_mem" -> Related(o.cond, cell, x(2), n)
         [] o.op = "cmp_mem_imm" -> Related(o.cond, cell, Unsigned(o.a[2][2], n), n)
         [] o.op = "cmp_zero" -> Related(o.cond, x(1), 0, n)
         [] o.op = "test_and_jump_if" -> Related(o.cond, Register(c, o.a[1], 8), 0, 8)
         [] o.op \in {"test_if_nil", "test_if_nil_bailout"} -> Register(c, o.a[1], 16) = 0
         [] o.op = "test_if_not_nil" -> Register(c, o.a[1], 16) # 0
         [] o.op = "jump" -> TRUE
         [] o.op = "check_stack_pointer" -> Load(c.mem, ThreadData + MX!StackLimitOffset, 8) > StackAt
         [] o.op = "safepoint" -> c.mem[ThreadData + MX!SafepointOffset] # 0

\* The trap an operation ends in, or none.
Trapped(o, c) ==
    LET n == BitsOf(o.mode)
        s(k) == Signed(Register(c, o.a[k], n), n)
        unless(v) == IF FitsSigned(v, n) THEN "" ELSE "OVERFLOW"
    IN CASE o.op \in {"int_div", "int_mod"} ->
              IF s(3) = 0 THEN "DIV0" ELSE unless(Quotient(s(2), s(3)))
         [] o.op = "int_add_checked" -> unless(s(2) + s(3))
         [] o.op = "int_sub_checked" -> unless(s(2) - s(3))
         [] o.op = "int_mul_checked" -> unless(s(2) * s(3))
         [] o.op = "check_index_out_of_bounds" ->
              IF Register(c, o.a[2], 16) < Load(c.mem, Register(c, o.a[1], 16) + 16, 8) THEN ""
              ELSE "INDEX_OUT_OF_BOUNDS"
         [] o.op = "virtual_call" ->
              IF Register(c, IF arch = "x64" THEN <<"r", 7>> ELSE <<"r", 0>>, 16) = 0 THEN "NIL" ELSE ""
         [] o.op = "test_if_nil_bailout" -> IF Condition(o, c) THEN "NIL" ELSE ""
         [] o.op = "bailout_if" -> IF Condition(o, c) THEN "ASSERT" ELSE ""
         [] o.op = "trap" -> "STACK_OVERFLOW"
         [] OTHER -> ""

\* Where a call goes.
Callee(o, c) ==
    IF o.op = "virtual_call"
    THEN LET obj == Register(c, IF arch = "x64" THEN <<"r", 7>> ELSE <<"r", 0>>, 16)
         IN Load(c.mem, Load(c.mem, obj, 8) + 32 + 8 * o.a[1][2], 8)
    ELSE o.a[1][2]

IntegerValue(o, c) ==
    LET n == BitsOf(o.mode)
        x(k) == Register(c, o.a[k], n)
        s(k) == Signed(x(k), n)
    IN CASE o.op \in {"int_add", "int_add_checked"} -> x(2) + x(3)
         [] o.op = "int_add_imm" -> x(2) + o.a[3][2]
         [] o.op \in {"int_sub", "int_sub_checked"} -> x(2) - x(3)
         [] o.op \in {"int_mul", "int_mul_checked"} -> s(2) * s(3)
         [] o.op = "int_div" -> Quotient(s(2), s(3)) [] o.op = "int_mod" -> Remainder(s(2), s(3))
         [] o.op = "int_shl" -> Shl(x(2), x(3), n) [] o.op = "int_shr" -> Shr(x(2), x(3), n)
         [] o.op = "int_sar" -> Sar(x(2), x(3), n) [] o.op = "int_ror" -> Ror(x(2), x(3), n)
         [] o.op = "int_rol" -> Ror(x(2), -x(3), n)
         [] o.op = "int_or" -> Or(x(2), x(3), n) [] o.op = "int_and" -> And(x(2), x(3), n)
         [] o.op = "int_xor" -> Xor(x(2), x(3), n)
         [] o.op = "int_neg" -> -x(2) [] o.op = "int_not" -> Not(x(2), n)
         [] o.op = "bool_not" -> 1 - x(2)
         [] o.op = "count_bits" -> Popcount(IF o.a[3][2] THEN x(2) ELSE Not(x(2), n), n)
         [] o.op = "count_bits_leading" -> LeadingZeros(IF o.a[3][2] THEN Not(x(2), n) ELSE x(2), n)
         [] o.op = "count_bits_trailing" -> TrailingZeros(IF o.a[3][2] THEN Not(x(2), n) ELSE x(2), n)
         [] o.op = "cmp_int" -> Sign(s(2) - s(3))

Rounding == [float_round_tozero |-> "tozero", float_round_up |-> "up", float_round_down |-> "down",
             float_round_halfeven |-> "halfeven"]
FloatValue(o, c) ==
    LET n == BitsOf(o.mode)
        x(k) == Register(c, o.a[k], n)
    IN CASE o.op = "float_add" -> FAdd(x(2), x(3), n) [] o.op = "float_sub" -> FSub(x(2), x(3), n)
         [] o.op = "float_mul" -> FMul(x(2), x(3), n) [] o.op = "float_div" -> FDiv(x(2), x(3), n)
         [] o.op = "float_abs" -> FAbs(x(2), n) [] o.op = "float_neg" -> FNeg(x(2), n)
         [] o.op = "float_sqrt" -> FSqrt(x(2), n)
         [] o.op \in DOMAIN Rounding -> FRound(x(2), Rounding[o.op], n)
         [] o.op = "float_cmp" -> If(FloatRelated(o.a[4][2], FOrder(x(2), x(3), n)))
         [] o.op = "float_cmp_int" -> Sign(Halves(x(2), n) - Halves(x(3), n))
         [] o.op = "float_cmp_nan" -> If(IsNaN(x(2), n))
         [] o.op = "int_to_float" ->
              LET m == BitsOf(o.a[3][2]) IN FromHalves(2 * Signed(Register(c, o.a[2], m), m), n)
         [] o.op = "float_to_int" -> FToInt(x(2), n)
         [] o.op = "float32_to_float64" -> FConvert(x(2), 8, 16)
         [] o.op = "float64_to_float32" -> FConvert(x(2), 16, 8)
         [] o.op \in {"int_as_float", "float_as_int"} -> x(2)

MovedValue(o, c) ==
    LET n == BitsOf(o.mode)
        x(k) == Register(c, o.a[k], n)
        at(k) == Register(c, o.a[k], 16)
    IN CASE o.op \in {"copy_reg", "copy_freg", "copy", "extend_byte"} -> x(2)
         [] o.op = "fix_result" -> x(1)
         [] o.op = "extend_int_long" -> Signed(Register(c, o.a[2], 8), 8)
         [] o.op \in {"load_int_const", "load_float_const"} -> o.a[2][2]
         [] o.op = "load_true" -> 1 [] o.op \in {"load_false", "load_nil"} -> 0
         [] o.op = "load_mem" -> Load(c.mem, AddressOf(c, o.a[2]), ModeSize(o.mode))
         [] o.op = "load_array_elem" ->
              Load(c.mem, at(2) + 24 + at(3) * ModeSize(o.mode), ModeSize(o.mode))
         [] o.op = "lea" -> AddressOf(c, o.a[2])
         [] o.op = "determine_array_size" ->
              align(at(2) * o.a[3][2] + (IF o.a[4][2] THEN 24 ELSE 0), 8)
         [] o.op = "array_address" -> at(2) + 24 + at(3) * o.a[4][2]
         [] o.op = "copy_sp" -> StackAt
         [] o.op = "set_sp" -> at(1)
         [] o.op = "increase_stack_frame" -> StackAt - o.a[1][2]
         [] o.op = "decrease_stack_frame" -> StackAt + o.a[1][2]
         [] o.op = "copy_ra" -> ReturnAddress

Branched == {"jump", "jump_if", "check_stack_pointer", "safepoint", "test_and_jump_if", "test_if_nil",
               "test_if_not_nil"}
Integer == {"int_add", "int_add_checked", "int_add_imm", "int_sub", "int_sub_checked", "int_mul",
            "int_mul_checked", "int_div", "int_mod", "int_shl", "int_shr", "int_sar", "int_ror", "int_rol",
            "int_or", "int_and", "int_xor", "int_neg", "int_not", "bool_not", "count_bits",
            "count_bits_leading", "count_bits_trailing", "cmp_int"}
FloatOps == {"float_add", "float_sub", "float_mul", "float_div", "float_abs", "float_neg", "float_sqrt",
             "float_cmp", "float_cmp_int", "float_cmp_nan", "int_to_float", "float_to_int",
             "float32_to_float64", "float64_to_float32", "int_as_float", "float_as_int"}
            \cup DOMAIN Rounding
Silent == {"store_mem", "store_zero", "emit_barrier", "fill_zero", "fill_zero_dynamic", "bailout_if",
           "test_if_nil_bailout", "check_index_out_of_bounds", "nothing"}

\* The register the result is in, and as how many bits.
ResultRegister(o) ==
    IF o.op \in Flagging \cup Branched \cup {"increase_stack_frame", "decrease_stack_frame", "set_sp"}
    THEN REG_RESULT ELSE o.a[1]
ResultBits(o) ==
    CASE o.op \in Flagging \cup Branched \cup {"float_cmp", "float_cmp_int", "float_cmp_nan", "cmp_int"} -> 8
      [] o.op = "float_to_int" -> BitsOf(o.a[3][2])
      [] o.op = "float32_to_float64" -> 16 [] o.op = "float64_to_float32" -> 8
      [] o.op \in {"extend_byte", "extend_int_long", "fix_result", "lea", "determine_array_size",
                   "array_address", "copy_sp", "set_sp", "increase_stack_frame", "decrease_stack_frame",
                   "copy_ra", "load_nil"} -> 16
      [] OTHER -> BitsOf(o.mode)

ResultValue(o, c) ==
    CASE o.op \in Flagging -> If(Condition(o, c))
      [] o.op \in Branched -> 1 + If(Condition(o, c))
      [] o.op \in Integer -> IntegerValue(o, c)
      [] o.op \in FloatOps -> FloatValue(o, c)
      [] OTHER -> MovedValue(o, c)

\* The words an operation writes: <<address, size, value>>.
Written(o, c) ==
    LET at == AddressOf(c, o.a[1])
        size == ModeSize(o.mode)
        start == Register(c, o.a[1], 16)
        Zeros(from, to) == {<<a, 8, 0>> : a \in {b \in from..(to - 8) : (b - from) % 8 = 0}}
    IN CASE o.op = "store_mem" -> {<<at, size, Register(c, o.a[2], 2 * size)>>}
         [] o.op = "store_zero" -> {<<at, size, 0>>}
         [] o.op = "emit_barrier" -> {<<Wrap(start \div 4 + o.a[2][2]), 1, 0>>}
         [] o.op = "fill_zero" -> Zeros(start + (IF o.a[2][2] THEN 24 ELSE 16), start + o.a[3][2])
         [] o.op = "fill_zero_dynamic" -> Zeros(start, Register(c, o.a[2], 16))
         [] OTHER -> {}

\* An atomic operation on a word that holds v: what it returns and leaves.
AtomicEffect(o, c, v) ==
    LET n == BitsOf(o.mode)
        x(k) == Register(c, o.a[k], n)
    IN CASE o.op = "load_synchronized" -> [old |-> v, new |-> v]
         [] o.op = "store_synchronized" -> [old |-> x(1), new |-> x(1)]
         [] o.op = "exchange_synchronized" -> [old |-> v, new |-> x(2)]
         [] o.op = "compare_exchange_synchronized" -> [old |-> v, new |-> IF v = x(1) THEN x(2) ELSE v]
         [] o.op = "fetch_add_synchronized" -> [old |-> v, new |-> Unsigned(v + x(2), n)]

\* It happens at once, before or after the other thread's addition.
AtomicOutcome(o, c, old, new) ==
    LET n == BitsOf(o.mode)
        v == Load(c.mem, AtomicCell, ModeSize(o.mode))
        before == AtomicEffect(o, c, v)
        after == AtomicEffect(o, c, Unsigned(v + 1, n))
    IN IF other THEN \/ old = before.old /\ new = Unsigned(before.new + 1, n)
                     \/ old = after.old /\ new = after.new
       ELSE old = before.old /\ new = before.new

Returned == IF arch = "x64" THEN MX!Returned(op.op, op.a) ELSE MA!Returned(op.op, op.a, 0)
FirstParam == IF arch = "x64" THEN <<"r", 7>> ELSE <<"r", 0>>

Stopped == cpu # Off /\ cpu.stop # ""


\* The registers an operation may change.
Operands == {op.a[k] : k \in {k \in DOMAIN op.a : op.a[k][1] \in {"r", "x", "v"}}}
Free == Operands \cup Range(SCRATCH) \cup {REG_RESULT}
        \cup IF arch = "x64" THEN {<<"x", 15>>}
             ELSE {MA!REG_TMP1, MA!REG_TMP2, MA!FREG_TMP1, <<"v", 15>>}

\* A function leaves its caller's frame as it found it: the stack and frame
\* pointers, the thread, the registers that are not the operation's and the
\* memory above the frame that it was not asked to write.
FrameKept ==
    Stopped /\ cpu.stop \in {"ret", "jump"} =>
        LET begun == InitialCpu(input)  written == Written(op, begun)  free == Free IN
        /\ cpu.r[SP] = StackTop
        /\ \A k \in DOMAIN cpu.r : <<"r", k>> \notin free => cpu.r[k] = begun.r[k]
        /\ \A k \in DOMAIN cpu.x : <<"x", k>> \notin free /\ <<"v", k>> \notin free => cpu.x[k] = begun.x[k]
        /\ \A a \in DOMAIN cpu.mem :
              \/ cpu.mem[a] = begun.mem[a]
              \/ a \in (StackAt - 16)..(StackTop - 1)
              \/ \E w \in written : a - w[1] \in 0..(w[2] - 1)
              \/ op.op \in Atomic /\ a - AtomicCell \in 0..(ModeSize(op.mode) - 1)

\* The return address of a call, as the stack walk and the patching of a lazily
\* compiled call see it: it lies inside the code, a trap's has its entry in the
\* position table, and the site of a direct call leads from it to the word of the
\* constant pool the call went through.
CallReturnAddress == IF arch = "x64" THEN Load(cpu.mem, cpu.r[4], 8) ELSE cpu.r[30]
SitesFound ==
    Stopped /\ cpu.stop = "call" =>
        LET trapped == Trapped(op, InitialCpu(input)) # "" IN
        /\ CallReturnAddress < pos
        /\ trapped => CallReturnAddress \in positions
        /\ ~trapped /\ op.op \in {"direct_call", "virtual_call"} =>
              \E s \in sites :
                 /\ s.pos = CallReturnAddress /\ s.direct = (op.op = "direct_call")
                 /\ s.direct => Load(cpu.mem, Wrap(CallReturnAddress - s.disp), 8) = cpu.to
=============================================================================
