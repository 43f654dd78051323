-------------------------- MODULE MCMacroAssembler --------------------------
(***************************************************************************)
(* The clients of MCAssembler, and every operation of the macro assembler  *)
(* with the registers the code generator gives it, on inputs at the edges  *)
(* of their ranges.                                                        *)
(***************************************************************************)
EXTENDS MCAssembler, MacroAssembler, TLC

\* Three integer and three floating point registers.
G(a, k) == IF a = "x64" THEN <<<<"r", 0>>, <<"r", 10>>, <<"r", 11>>>>[k]
                        ELSE <<<<"r", 0>>, <<"r", 1>>, <<"r", 11>>>>[k]
H(a, k) == IF a = "x64" THEN <<<<"x", 0>>, <<"x", 1>>, <<"x", 9>>>>[k]
                        ELSE <<<<"v", 0>>, <<"v", 1>>, <<"v", 9>>>>[k]
SelfReg(a) == IF a = "x64" THEN <<"r", 7>> ELSE <<"r", 0>>

Op(name, mode, a) ==
    [op |-> name, mode |-> mode, a |-> a, cond |-> "", pool |-> FALSE, stub |-> 3000]
Ops(names, modes, args) == {Op(name, mode, a) : name \in names, mode \in modes, a \in args}
WithCond(S, conds) == {[o EXCEPT !.cond = c] : o \in S, c \in conds}
WithPool(S) == S \cup {[o EXCEPT !.pool = TRUE] : o \in S}

Flag(b) == {<<"flag", b>>}
Flags == {<<"flag", b>> : b \in BOOLEAN}
Nums(S) == {<<"n", n>> : n \in S}
Ints == {"Int32", "Int64"}
Floats == {"Float32", "Float64"}
AllConds == DOMAIN MX!convert_into_condition
FloatConds == {"Equal", "NotEqual", "Less", "LessEq", "Greater", "GreaterEq"}

Triples(reg(_)) == {<<reg(1), reg(1), reg(2)>>, <<reg(3), reg(1), reg(2)>>, <<reg(2), reg(1), reg(2)>>}
Pairs(reg(_)) == {<<reg(1), reg(1)>>, <<reg(3), reg(1)>>, <<reg(1), reg(3)>>}

Memories(a, mode) ==
    {<<"Local", -8>>, <<"Index", G(a, 2), G(a, 3), MX!ModeSize[mode], 24>>}
    \cup {<<"Base", G(a, 2), d>> : d \in {0, 16, -8, 17, -300, 300, 5000}}
    \cup IF a = "x64" THEN {<<"Offset", G(a, 3), MX!ModeSize[mode], 500>>} ELSE {}
FewMemories(a, mode) == {<<"Local", -8>>, <<"Base", G(a, 2), 16>>}

IntOps(a) ==
    LET g(k) == G(a, k) IN
    Ops({"int_add", "int_add_checked", "int_sub", "int_sub_checked", "int_mul", "int_mul_checked",
         "int_shl", "int_shr", "int_sar", "int_rol", "int_ror", "int_or", "int_and", "int_xor"},
        Ints, Triples(g))
    \cup Ops({"cmp_int"}, Ints, {<<g(1), g(2), g(3)>>})
    \cup WithPool(Ops({"int_div", "int_mod"}, Ints, Triples(g)))
    \cup {Op("int_add_imm", m, <<d, g(1), <<"n", n>>>>) :
             m \in {"Int64", "Ptr"}, d \in {g(1), g(3)}, n \in {0, 1, 127, 128, -128, -129, 4095, 4096}}
    \cup Ops({"int_neg", "int_not"}, Ints, Pairs(g)) \cup Ops({"bool_not"}, {"Int8"}, Pairs(g))
    \cup {Op(name, m, p \o <<<<"flag", b>>>>) :
             name \in {"count_bits", "count_bits_leading", "count_bits_trailing"}, m \in Ints,
             p \in Pairs(g), b \in BOOLEAN}

FloatOperations(a) ==
    LET g(k) == G(a, k)  h(k) == H(a, k) IN
    Ops({"float_add", "float_sub", "float_mul", "float_div"}, Floats, Triples(h))
    \cup WithPool(Ops({"float_abs", "float_neg"}, Floats, Pairs(h)))
    \cup Ops({"float_sqrt"} \cup DOMAIN Rounding, Floats, Pairs(h))
    \cup {Op("float_cmp", m, <<g(1), h(1), h(2), <<"cond", c>>>>) : m \in Floats, c \in FloatConds}
    \cup Ops({"float_cmp_int"}, Floats, {<<g(1), h(1), h(2)>>})
    \cup Ops({"float_cmp_nan"}, Floats, {<<g(1), h(1)>>})
    \cup {Op("int_to_float", m, <<h(k), g(1), <<"mode", i>>>>) : m \in Floats, i \in Ints, k \in {1, 3}}
    \cup {Op("float_to_int", m, <<g(1), h(k), <<"mode", i>>>>) : m \in Floats, i \in Ints, k \in {1, 3}}
    \cup Ops({"float32_to_float64"}, {"Float32"}, Pairs(h)) \cup Ops({"float64_to_float32"}, {"Float64"}, Pairs(h))
    \cup Ops({"int_as_float"}, Floats, {<<h(3), g(1)>>}) \cup Ops({"float_as_int"}, Floats, {<<g(1), h(3)>>})
    \cup WithPool({Op("load_float_const", m, <<h(k), <<"n", n>>, <<"zero", n = 0>>>>) :
                       m \in Floats, k \in {1, 3}, n \in {0, 131}})

MemoryOps(a) ==
    LET g(k) == G(a, k)  h(k) == H(a, k)  modes == {"Int8", "Int32", "Int64", "Ptr"} IN
    UNION {{Op("load_mem", m, <<g(1), x>>) : x \in Memories(a, m)} : m \in modes}
    \cup UNION {{Op("load_mem", m, <<h(3), x>>) : x \in Memories(a, m)} : m \in Floats}
    \cup UNION {{Op("store_mem", m, <<x, g(1)>>) : x \in Memories(a, m)} : m \in modes}
    \cup UNION {{Op("store_mem", m, <<x, h(3)>>) : x \in Memories(a, m)} : m \in Floats}
    \cup UNION {{Op("store_zero", m, <<x>>) : x \in FewMemories(a, m)} :
                    m \in modes \cup (IF a = "x64" THEN Floats ELSE {})}
    \cup {Op("lea", "Ptr", <<d, x>>) : d \in {g(1)}, x \in Memories(a, "Int32")}
    \cup WithCond({Op("cmp_mem", m, <<x, g(1)>>) : m \in modes, x \in FewMemories(a, "Ptr")}, {"Equal", "UnsignedLess"})
    \cup WithCond({Op("cmp_mem_imm", m, <<x, <<"n", 1>>>>) : m \in modes, x \in FewMemories(a, "Ptr")},
                  {"Equal", "UnsignedGreater"})
    \cup Ops({"load_array_elem"}, modes, {<<g(1), g(2), g(3)>>})
    \cup Ops({"load_array_elem"}, Floats, {<<h(1), g(2), g(3)>>})
    \cup WithPool(Ops({"check_index_out_of_bounds"}, {"Ptr"}, {<<g(2), g(1)>>}))
    \cup {Op("determine_array_size", "Ptr", <<d, g(1), <<"n", n>>, <<"flag", b>>>>) :
             d \in {g(1), g(3)}, n \in {1, 2, 4, 8, 12, 24}, b \in BOOLEAN}
    \cup {Op("array_address", "Ptr", <<g(1), g(2), g(3), <<"n", n>>>>) : n \in {1, 8, 12}}
    \cup {Op("emit_barrier", "Ptr", <<g(1), <<"n", n>>>>) : n \in {400, 65000}}
    \cup {Op("fill_zero", "Ptr", <<g(1), <<"flag", FALSE>>, <<"n", n>>>>) : n \in {16, 24, 80, 88}}
    \cup {Op("fill_zero", "Ptr", <<g(1), <<"flag", TRUE>>, <<"n", n>>>>) : n \in {24, 40, 96}}
    \cup Ops({"fill_zero_dynamic"}, {"Ptr"}, {<<g(1), g(2)>>})

AtomicOps(a) ==
    LET g(k) == G(a, k)  lse == IF a = "x64" THEN {FALSE} ELSE BOOLEAN IN
    Ops({"load_synchronized", "store_synchronized"}, Ints, {<<g(1), g(3)>>})
    \cup {Op(name, m, <<g(1), g(2), g(3), <<"lse", b>>>>) :
             name \in {"exchange_synchronized", "compare_exchange_synchronized", "fetch_add_synchronized"},
             m \in Ints, b \in lse}

MoveOps(a) ==
    LET g(k) == G(a, k)  h(k) == H(a, k) IN
    Ops({"copy_reg"}, {"Int8", "Int32", "Int64", "Ptr"}, Pairs(g)) \cup Ops({"copy_freg"}, Floats, Pairs(h))
    \cup Ops({"copy"}, {"Int32", "Ptr"}, Pairs(g)) \cup Ops({"copy"}, Floats, Pairs(h))
    \cup Ops({"extend_int_long"}, {"Int64"}, Pairs(g)) \cup Ops({"extend_byte"}, Ints, {<<g(1), g(1)>>})
    \cup Ops({"fix_result"}, {"Int8", "Int32"}, {<<g(1)>>})
    \cup {Op("load_int_const", m, <<g(k), <<"n", n>>>>) :
             m \in {"Int8"}, k \in {1, 3}, n \in {0, 1}}
    \cup {Op("load_int_const", m, <<g(k), <<"n", n>>>>) :
             m \in Ints \cup {"Ptr"}, k \in {1, 3}, n \in {0, 1, 16, 127, -1, -17, -128, 0 - 100}}
    \cup {Op("load_int_const", "Int64", <<g(1), <<"n", n>>>>) :
             n \in {4096, 4097, 61440, 32767, -32768, -4097, -3841, 255, -256, 4660}}
    \cup Ops({"load_true", "load_false"}, {"Int8"}, {<<g(1)>>, <<g(3)>>})
    \cup Ops({"load_nil"}, {"Ptr"}, {<<g(1)>>, <<g(3)>>})
    \cup Ops({"copy_sp", "copy_ra", "copy_pc", "jump_reg"}, {"Ptr"}, {<<g(1)>>, <<g(3)>>})
    \cup Ops({"set_sp"}, {"Ptr"}, {<<g(3)>>})
    \cup Ops({"increase_stack_frame", "decrease_stack_frame"}, {"Ptr"}, {<<<<"n", 0>>>>, <<<<"n", 16>>>>})
    \cup Ops({"debug"}, {"Ptr"}, {<<>>})

ControlOps(a) ==
    LET g(k) == G(a, k) IN
    WithCond(Ops({"cmp_reg", "jump_if"}, Ints, {<<g(1), g(2)>>}), AllConds)
    \cup WithCond(Ops({"bailout_if"}, {"Int64"}, {<<g(1), g(2)>>}), {"Equal", "UnsignedGreater"})
    \cup WithCond(Ops({"cmp_reg_imm"}, Ints, {<<g(1), <<"n", n>>>> : n \in {0, 1, -1}}), {"Equal", "Less"})
    \cup WithCond(Ops({"cmp_zero"}, Ints \cup {"Ptr"}, {<<g(1)>>}), {"Zero", "NonZero"})
    \cup WithCond(Ops({"test_and_jump_if"}, {"Int8"}, {<<g(1)>>}), {"Zero", "NonZero"})
    \cup Ops({"test_if_nil", "test_if_not_nil"}, {"Ptr"}, {<<g(1)>>})
    \cup WithPool(Ops({"test_if_nil_bailout"}, {"Ptr"}, {<<g(1)>>}))
    \cup Ops({"jump", "check_stack_pointer", "safepoint"}, {"Ptr"}, {<<>>})
    \cup WithPool(Ops({"trap"}, {"Ptr"}, {<<>>}))
    \cup WithPool(Ops({"raw_call", "direct_call"}, {"Ptr"}, {<<<<"n", 2000>>>>}))
    \cup WithPool(Ops({"virtual_call"}, {"Ptr"}, {<<<<"n", k>>, <<"n", 0>>>> : k \in {0, 1}}))

MCOperations(a) ==
    IntOps(a) \cup FloatOperations(a) \cup MemoryOps(a) \cup AtomicOps(a) \cup MoveOps(a) \cup ControlOps(a)

-----------------------------------------------------------------------------
(* Inputs.                                                                 *)

Edges(mode) == CASE mode = "Int8" -> {0, 1} [] mode = "Int32" -> {0, 1, 7, 127, 128, 255}
                 [] mode \in {"Int64", "Ptr", "IntPtr"} -> {0, 1, 15, 300, 32767, 32768, 65535}
                 [] mode = "Float32" -> {0, 3, 5, 127, 128, 131}
                 [] mode = "Float64" -> {0, 3, 5, 300, 32767, 32768, 32771}

In(regs, words) == [regs |-> regs, words |-> words]
One1(reg, S) == {In(reg :> v, <<>>) : v \in S}
Two(reg, reg2, S) == {In(reg :> p[1] @@ reg2 :> p[2], <<>>) : p \in S \X S}

\* What the back ends leave out: a three-way comparison of integers is an
\* unsigned one on x64 and NaN has no place in that of floats; a division of
\* 64 bits on arm64 looks at the low half of the divisor and, for the remainder,
\* of the operands.
SameSign(S, n) == {p \in S \X S : (p[1] >= 2^(n - 1)) = (p[2] >= 2^(n - 1))}
Paired(reg, reg2, S) == {In(reg :> p[1] @@ reg2 :> p[2], <<>>) : p \in S}

MemInput(a, o, mem, extra) ==
    LET target == Object + 16 IN
    CASE mem[1] = "Local" -> In(extra, <<>>)
      [] mem[1] = "Base" -> In(G(a, 2) :> Wrap(target - mem[3]) @@ extra, <<>>)
      [] mem[1] = "Index" -> In(G(a, 2) :> Object @@ G(a, 3) :> 2 @@ extra, <<>>)
      [] mem[1] = "Offset" -> In(G(a, 3) :> 16 @@ extra, <<>>)

None == [x \in {} |-> 0]
MCInputs(a, o) ==
    LET g(k) == G(a, k)  n == 2 * MX!ModeSize[o.mode]
        edges == Edges(o.mode)
        first == IF Len(o.a) >= 2 THEN o.a[1] = o.a[2] ELSE FALSE
    IN CASE o.op \in {"int_div", "int_mod"} /\ a = "arm64" /\ o.mode = "Int64" ->
              Two(o.a[2], o.a[3], {1, 2, 15, 100, 127})
              \cup (IF o.op = "int_div" THEN Paired(o.a[2], o.a[3], {<<32768, 65535>>, <<32768, 1>>, <<300, 0>>}) ELSE {})
         [] o.op = "cmp_int" /\ a = "x64" -> Paired(o.a[2], o.a[3], SameSign(edges, n))
         [] o.op = "float_cmp_int" -> Two(o.a[2], o.a[3], edges \ {NaN(n)})
         [] o.op \in {"int_to_float"} ->
              One1(o.a[2], IF o.a[3][2] = "Int32" THEN {0, 1, 30, 226, 255}
                           ELSE IF a = "arm64" THEN {0, 1, 30, 100} ELSE {0, 1, 30, 300, 65506, 65535})
         [] o.op = "float_to_int" -> One1(o.a[2], edges \ {NaN(n), 300})
         [] o.op \in {"float64_to_float32"} -> One1(o.a[2], {0, 3, 5, 32767, 32768, 32771})
         [] Len(o.a) >= 3 /\ o.op \in (Integer \cup FloatOps) \ {"int_add_imm", "count_bits", "count_bits_leading",
                 "count_bits_trailing", "int_div", "int_mod", "cmp_int", "float_cmp_int", "int_to_float", "float_to_int"} ->
              IF first \/ o.op = "float_cmp" THEN Two(o.a[2], o.a[3], edges)
              ELSE Paired(o.a[2], o.a[3], {<<7, 15>>, <<1, 7>>, <<100, 5>>})
         [] o.op \in {"int_div", "int_mod"} /\ ~ (a = "arm64" /\ o.mode = "Int64") ->
              IF first THEN Two(o.a[2], o.a[3], edges) ELSE Paired(o.a[2], o.a[3], {<<100, 7>>, <<100, 0>>})
         [] o.op = "cmp_int" /\ a = "arm64" -> Two(o.a[2], o.a[3], edges)
         [] o.op \in {"count_bits", "count_bits_leading", "count_bits_trailing", "int_add_imm", "int_neg", "int_not",
                      "bool_not", "float_abs", "float_neg", "float_sqrt", "float_cmp_nan", "float32_to_float64",
                      "int_as_float", "float_as_int", "copy_reg", "copy_freg", "copy"} \cup DOMAIN Rounding ->
              One1(o.a[2], edges)
         [] o.op \in {"extend_int_long"} -> One1(o.a[2], {0, 1, 127, 128, 255})
         [] o.op = "extend_byte" -> One1(o.a[2], {0, 1, 3})
         [] o.op = "fix_result" -> One1(o.a[1], IF a = "x64" THEN {0, 3, 5, 21} ELSE {0, 1, 3})
         [] o.op = "load_mem" -> {MemInput(a, o, o.a[2], None)}
         [] o.op = "lea" -> {MemInput(a, o, o.a[2], None)}
         [] o.op = "store_mem" -> {MemInput(a, o, o.a[1], o.a[2] :> v) : v \in {54321}}
         [] o.op = "store_zero" -> {MemInput(a, o, o.a[1], None)}
         [] o.op = "cmp_mem" -> {MemInput(a, o, o.a[1], o.a[2] :> v) : v \in {0, 2}}
         [] o.op = "cmp_mem_imm" -> {MemInput(a, o, o.a[1], None)}
         [] o.op = "load_array_elem" -> {In(g(2) :> Object @@ g(3) :> k, <<>>) : k \in {0, 2}}
         [] o.op = "check_index_out_of_bounds" ->
              {In(g(2) :> Object @@ g(1) :> k, <<<<Object + 16, 8, 3>>>>) : k \in {0, 2, 3, 4, 65535}}
         [] o.op = "determine_array_size" -> One1(g(1), {0, 1, 3, 9})
         [] o.op = "array_address" -> {In(g(2) :> Object @@ g(3) :> k, <<>>) : k \in {0, 3}}
         [] o.op = "emit_barrier" -> One1(g(1), IF o.a[2][2] = 400 THEN {520, 523} ELSE {4192})
         [] o.op = "fill_zero" -> One1(g(1), {Object})
         [] o.op = "fill_zero_dynamic" ->
              {In(g(1) :> Object + 16 @@ g(2) :> Object + 16 + 8 * k, <<>>) : k \in 0..2}
         [] o.op \in Atomic ->
              {In(g(1) :> v @@ g(3) :> AtomicCell
                    @@ (IF Len(o.a) = 4 THEN g(2) :> 40 ELSE None), <<<<AtomicCell, 8, 5>>>>) : v \in {5, 6, 9}}
         [] o.op \in {"jump_reg", "set_sp"} -> One1(o.a[1], {620})
         [] o.op \in {"cmp_reg", "jump_if", "bailout_if"} ->
              Two(g(1), g(2), {0, 1} \cup {2^(n - 1), 2^n - 1})
         [] o.op \in {"cmp_reg_imm", "cmp_zero", "test_and_jump_if"} -> One1(g(1), edges)
         [] o.op \in {"test_if_nil", "test_if_not_nil", "test_if_nil_bailout"} -> One1(g(1), {0, Object, 256})
         [] o.op = "check_stack_pointer" ->
              {In(None, <<<<ThreadData + 24, 8, v>>>>) : v \in {600, 624, 625, 632, 633}}
         [] o.op = "safepoint" -> {In(None, <<<<ThreadData + 20, 1, v>>>>) : v \in {0, 1}}
         [] o.op = "virtual_call" ->
              {In(SelfReg(a) :> v, <<<<Object, 8, Object + 16>>, <<Object + 16 + 32 + 8 * o.a[1][2], 8, 2000>>>>) :
                    v \in {0, Object}}
         [] OTHER -> {In(None, <<>>)}
=============================================================================
