------------------------------- MODULE IsaX64 -------------------------------
(***************************************************************************)
(* How an x86-64 processor reads the instructions dora-asm emits: prefix,  *)
(* REX, opcode, ModRM, SIB, displacement and immediate, after the opcode   *)
(* map of the architecture.  It shares no definition with the encoder.     *)
(*                                                                         *)
(* A decoded instruction names its mnemonic and width, its operands in     *)
(* Intel order and its length.  A register operand is <<"r", n>>, <<"x",   *)
(* n>> or, for AH, CH, DH and BH, <<"h", n>>; a memory operand is <<"m",   *)
(* base, index, scale, disp>> with NoReg or Rip for a register it has not. *)
(***************************************************************************)
EXTENDS Integers, Sequences, SequencesExt

NoReg == -1
Rip == -2

\* A little-endian signed number.
Signed8(b) == IF b >= 128 THEN b - 256 ELSE b
Signed32(s) == s[1] + 256 * s[2] + 65536 * s[3] + 16777216 * Signed8(s[4])

\* The opcode map: mandatory prefix (0 for none), opcode bytes, extension in
\* ModRM.reg (-1 for none), mnemonic, width ("v" is "q" under REX.W and "l"
\* otherwise), operand order, kinds of reg and r/m, bytes of immediate.
Integer == {
    <<0, <<\h01>>, -1, "add", "v", "MR", "r", "r", 0>>,
    <<0, <<\h09>>, -1, "or", "v", "MR", "r", "r", 0>>,
    <<0, <<\h21>>, -1, "and", "v", "MR", "r", "r", 0>>,
    <<0, <<\h29>>, -1, "sub", "v", "MR", "r", "r", 0>>,
    <<0, <<\h31>>, -1, "xor", "v", "MR", "r", "r", 0>>,
    <<0, <<\h38>>, -1, "cmp", "b", "MR", "b", "b", 0>>,
    <<0, <<\h39>>, -1, "cmp", "v", "MR", "r", "r", 0>>,
    <<0, <<\h63>>, -1, "movsxl", "v", "RM", "r", "r", 0>>,
    <<0, <<\h80>>, 7, "cmp", "b", "M", "r", "b", 1>>,
    <<0, <<\h85>>, -1, "test", "v", "MR", "r", "r", 0>>,
    <<0, <<\h87>>, -1, "xchg", "v", "MR", "r", "r", 0>>,
    <<0, <<\h88>>, -1, "mov", "b", "MR", "b", "b", 0>>,
    <<0, <<\h89>>, -1, "mov", "v", "MR", "r", "r", 0>>,
    <<0, <<\h8B>>, -1, "mov", "v", "RM", "r", "r", 0>>,
    <<0, <<\h8D>>, -1, "lea", "v", "RM", "r", "r", 0>>,
    <<0, <<\hC6>>, 0, "mov", "b", "M", "r", "b", 1>>,
    <<0, <<\hC7>>, 0, "mov", "v", "M", "r", "r", 4>>,
    <<0, <<\hF6>>, 0, "test", "b", "M", "r", "b", 1>>,
    <<0, <<\hF7>>, 0, "test", "v", "M", "r", "r", 4>>,
    <<0, <<\hF7>>, 2, "not", "v", "M", "r", "r", 0>>,
    <<0, <<\hF7>>, 3, "neg", "v", "M", "r", "r", 0>>,
    <<0, <<\hF7>>, 7, "idiv", "v", "M", "r", "r", 0>>,
    <<0, <<\hFF>>, 2, "call", "", "M", "r", "r", 0>>,
    <<0, <<\hFF>>, 4, "jmp", "", "M", "r", "r", 0>>,
    <<0, <<\h0F, \hAF>>, -1, "imul", "v", "RM", "r", "r", 0>>,
    <<0, <<\h0F, \hB1>>, -1, "cmpxchg", "v", "MR", "r", "r", 0>>,
    <<\hF0, <<\h0F, \hB1>>, -1, "lock_cmpxchg", "v", "MR", "r", "r", 0>>,
    <<0, <<\h0F, \hB6>>, -1, "movzxb", "v", "RM", "r", "b", 0>>,
    <<0, <<\h0F, \hBE>>, -1, "movsxb", "v", "RM", "r", "b", 0>>,
    <<0, <<\h0F, \hC1>>, -1, "xadd", "v", "MR", "r", "r", 0>>,
    <<\hF0, <<\h0F, \hC1>>, -1, "lock_xadd", "v", "MR", "r", "r", 0>>,
    <<\hF3, <<\h0F, \hB8>>, -1, "popcnt", "v", "RM", "r", "r", 0>>,
    <<\hF3, <<\h0F, \hBC>>, -1, "tzcnt", "v", "RM", "r", "r", 0>>,
    <<\hF3, <<\h0F, \hBD>>, -1, "lzcnt", "v", "RM", "r", "r", 0>> }

\* The group-1 immediates and the group-2 shifts, by their extension.
Group1 == [n \in {0, 1, 4, 5, 6, 7} |->
    CASE n = 0 -> "add" [] n = 1 -> "or" [] n = 4 -> "and"
      [] n = 5 -> "sub" [] n = 6 -> "xor" [] n = 7 -> "cmp"]
Group2 == [n \in {0, 1, 4, 5, 7} |->
    CASE n = 0 -> "rol" [] n = 1 -> "ror" [] n = 4 -> "shl"
      [] n = 5 -> "shr" [] n = 7 -> "sar"]
Groups ==
    {<<0, <<\h81>>, n, Group1[n], "v", "M", "r", "r", 4>> : n \in DOMAIN Group1}
    \cup {<<0, <<\h83>>, n, Group1[n], "v", "M", "r", "r", 1>> : n \in DOMAIN Group1}
    \cup {<<0, <<\hC1>>, n, Group2[n], "v", "M", "r", "r", 1>> : n \in DOMAIN Group2}
    \cup {<<0, <<\hD3>>, n, Group2[n], "v", "M", "r", "r", 0>> : n \in DOMAIN Group2}

\* Scalar and packed floating point: the prefix selects ss, sd, ps or pd.
Scalar == [p \in {\hF3, \hF2, 0, \h66} |->
    CASE p = \hF3 -> "ss" [] p = \hF2 -> "sd" [] p = 0 -> "ps" [] p = \h66 -> "pd"]
FloatOps == [o \in {\h51, \h54, \h57, \h58, \h59, \h5C, \h5E} |->
    CASE o = \h51 -> "sqrt" [] o = \h54 -> "and" [] o = \h57 -> "xor" [] o = \h58 -> "add"
      [] o = \h59 -> "mul" [] o = \h5C -> "sub" [] o = \h5E -> "div"]
Floats ==
    {<<p, <<\h0F, o>>, -1, FloatOps[o], Scalar[p], "RM", "x", "x", 0>> :
        p \in DOMAIN Scalar, o \in DOMAIN FloatOps}
    \cup {<<p, <<\h0F, \h10>>, -1, "mov", Scalar[p], "RM", "x", "x", 0>> : p \in DOMAIN Scalar}
    \cup {<<p, <<\h0F, \h11>>, -1, "mov", Scalar[p], "MR", "x", "x", 0>> : p \in DOMAIN Scalar}
    \cup { <<0, <<\h0F, \h2E>>, -1, "ucomi", "ss", "RM", "x", "x", 0>>,
           <<\h66, <<\h0F, \h2E>>, -1, "ucomi", "sd", "RM", "x", "x", 0>>,
           <<\h66, <<\h0F, \hEF>>, -1, "pxor", "", "RM", "x", "x", 0>>,
           <<\h66, <<\h0F, \h3A, \h0A>>, -1, "round", "ss", "RM", "x", "x", 1>>,
           <<\h66, <<\h0F, \h3A, \h0B>>, -1, "round", "sd", "RM", "x", "x", 1>>,
           <<\hF2, <<\h0F, \h5A>>, -1, "cvtsd2ss", "", "RM", "x", "x", 0>>,
           <<\hF3, <<\h0F, \h5A>>, -1, "cvtss2sd", "", "RM", "x", "x", 0>>,
           <<\hF3, <<\h0F, \h2A>>, -1, "cvtsi2ss", "v", "RM", "x", "r", 0>>,
           <<\hF2, <<\h0F, \h2A>>, -1, "cvtsi2sd", "v", "RM", "x", "r", 0>>,
           <<\hF3, <<\h0F, \h2C>>, -1, "cvttss2si", "v", "RM", "r", "x", 0>>,
           <<\hF2, <<\h0F, \h2C>>, -1, "cvttsd2si", "v", "RM", "r", "x", 0>>,
           <<\h66, <<\h0F, \h7E>>, -1, "mov", "v", "MR", "x", "r", 0>>,
           <<\h66, <<\h0F, \h6E>>, -1, "mov", "v", "RM", "x", "r", 0>> }

OpcodeMap == Integer \cup Groups \cup Floats

-----------------------------------------------------------------------------
\* A register of a kind; a byte register 4..7 is AH..BH without REX.
RegisterOperand(kind, n, rex) ==
    CASE kind = "b" /\ rex = 0 /\ n \in 4..7 -> <<"h", n - 4>>
      [] kind = "b" /\ ~ (rex = 0 /\ n \in 4..7) -> <<"r", n>>
      [] OTHER -> <<kind, n>>

Displacement(code, at, mode) ==
    CASE mode = 0 -> 0
      [] mode = 1 -> Signed8(code[at])
      [] mode = 2 -> Signed32(SubSeq(code, at, at + 3))
DisplacementSize == [mode \in 0..2 |-> CASE mode = 0 -> 0 [] mode = 1 -> 1 [] mode = 2 -> 4]

\* The operand ModRM names, and the position after it.
RM(code, at, kind, rex) ==
    LET mode == code[at] \div 64
        rm == code[at] % 8
        b == (rex % 2) * 8
        x == ((rex \div 2) % 2) * 8
    IN CASE mode = 3 -> [arg |-> RegisterOperand(kind, rm + b, rex), next |-> at + 1]
         [] mode # 3 /\ rm = 4 ->
              LET sib == code[at + 1]
                  index == ((sib \div 8) % 8) + x
                  noBase == sib % 8 = 5 /\ mode = 0
                  dmode == IF noBase THEN 2 ELSE mode
              IN [arg |-> <<"m", IF noBase THEN NoReg ELSE (sib % 8) + b,
                            IF index = 4 THEN NoReg ELSE index,
                            IF index = 4 THEN 0 ELSE sib \div 64,
                            Displacement(code, at + 2, dmode)>>,
                  next |-> at + 2 + DisplacementSize[dmode]]
         [] mode = 0 /\ rm = 5 ->
              [arg |-> <<"m", Rip, NoReg, 0, Displacement(code, at + 1, 2)>>, next |-> at + 5]
         [] OTHER ->
              [arg |-> <<"m", rm + b, NoReg, 0, Displacement(code, at + 1, mode)>>,
               next |-> at + 1 + DisplacementSize[mode]]

\* An immediate of n bytes, sign-extended to the width it is used at.
Immediate(code, at, n, w) ==
    LET size == CASE w = "q" -> 8 [] w = "l" -> 4 [] OTHER -> n
        sign == IF code[at + n - 1] >= 128 THEN 255 ELSE 0
    IN <<"i", [k \in 1..size |-> IF k <= n THEN code[at + k - 1] ELSE sign]>>

W(rex) == IF (rex \div 8) % 2 = 1 THEN "q" ELSE "l"

Undefined(at) == [mn |-> "undefined", w |-> "", next |-> at, args |-> <<>>]

IsShift(mn) == \E n \in DOMAIN Group2 : Group2[n] = mn

\* An instruction of the opcode map: at is the first opcode byte.
Mapped(code, at, prefix, rex, size) ==
    LET reg == (code[at + size] \div 8) % 8
        rows == {row \in OpcodeMap : /\ row[1] = prefix
                                     /\ row[2] = SubSeq(code, at, at + size - 1)
                                     /\ row[3] \in {-1, reg}}
        row == CHOOSE r \in rows : TRUE
        w == IF row[5] = "v" THEN W(rex) ELSE row[5]
        rm == RM(code, at + size, row[8], rex)
        regArg == RegisterOperand(row[7], reg + ((rex \div 4) % 2) * 8, rex)
        imm == IF row[9] = 0 THEN <<>>
               ELSE <<Immediate(code, rm.next, row[9], IF IsShift(row[4]) THEN "b" ELSE w)>>
    IN IF rows = {} THEN Undefined(at)
       ELSE [mn |-> row[4], w |-> w, next |-> rm.next + row[9],
             args |-> (CASE row[6] = "MR" -> <<rm.arg, regArg>>
                         [] row[6] = "RM" -> <<regArg, rm.arg>>
                         [] row[6] = "M" -> <<rm.arg>>) \o imm]

\* The instructions with a register or a condition in the opcode, the short
\* forms for RAX, those without operands and the relative jumps.
Special(code, at, rex) ==
    LET op == code[at]
        low == <<"r", (op % 8) + (rex % 2) * 8>>
        accumulator(mn) == [mn |-> mn, w |-> W(rex), next |-> at + 5,
                            args |-> <<<<"r", 0>>, Immediate(code, at + 1, 4, W(rex))>>]
        plain(mn, w, args) == [mn |-> mn, w |-> w, next |-> at + 1, args |-> args]
    IN CASE op \in \h50..\h57 -> plain("push", "q", <<low>>)
         [] op \in \h58..\h5F -> plain("pop", "q", <<low>>)
         [] op = \hCC -> plain("int3", "", <<>>)
         [] op = \hC3 -> plain("ret", "q", <<>>)
         [] op = \h90 -> plain("nop", "", <<>>)
         [] op = \h99 -> plain("cdq", W(rex), <<>>)
         [] op = \h05 -> accumulator("add")
         [] op = \h25 -> accumulator("and")
         [] op = \h2D -> accumulator("sub")
         [] op = \h35 -> accumulator("xor")
         [] op = \h3D -> accumulator("cmp")
         [] op = \hA9 -> accumulator("test")
         [] op = \hA8 -> [mn |-> "test", w |-> "b", next |-> at + 2,
                          args |-> <<<<"r", 0>>, Immediate(code, at + 1, 1, "b")>>]
         [] op \in \hB8..\hBF ->
              LET n == IF W(rex) = "q" THEN 8 ELSE 4 IN
              [mn |-> "mov", w |-> W(rex), next |-> at + 1 + n,
               args |-> <<low, Immediate(code, at + 1, n, W(rex))>>]
         [] op \in \h70..\h7F -> [mn |-> "jcc", w |-> "", next |-> at + 2,
              args |-> <<<<"c", op - \h70>>, <<"to", at + 2 + Signed8(code[at + 1])>>>>]
         [] op = \hEB -> [mn |-> "jmp", w |-> "", next |-> at + 2,
              args |-> <<<<"to", at + 2 + Signed8(code[at + 1])>>>>]
         [] op = \hE9 -> [mn |-> "jmp", w |-> "", next |-> at + 5,
              args |-> <<<<"to", at + 5 + Signed32(SubSeq(code, at + 1, at + 4))>>>>]

Specials ==
    (\h50..\h5F) \cup (\h70..\h7F) \cup (\hB8..\hBF)
    \cup {\hCC, \hC3, \h90, \h99, \h05, \h25, \h2D, \h35, \h3D, \hA8, \hA9, \hEB, \hE9}

\* The two-byte opcodes that hold a condition.
Conditional(code, at, rex) ==
    LET op == code[at + 1] IN
    IF op \in \h80..\h8F
    THEN [mn |-> "jcc", w |-> "", next |-> at + 6,
          args |-> <<<<"c", op - \h80>>,
                     <<"to", at + 6 + Signed32(SubSeq(code, at + 2, at + 5))>>>>]
    ELSE LET rm == RM(code, at + 2, IF op \in \h90..\h9F THEN "b" ELSE "r", rex)
             reg == ((code[at + 2] \div 8) % 8) + ((rex \div 4) % 2) * 8
         IN IF op \in \h90..\h9F
            THEN [mn |-> "set", w |-> "", next |-> rm.next,
                  args |-> <<rm.arg, <<"c", op - \h90>>>>]
            ELSE [mn |-> "cmov", w |-> W(rex), next |-> rm.next,
                  args |-> <<<<"r", reg>>, rm.arg, <<"c", op - \h40>>>>]

\* The instruction at position at.
Decode(code, at) ==
    LET prefix == IF code[at] \in {\hF0, \hF2, \hF3, \h66} THEN code[at] ELSE 0
        r == IF prefix = 0 THEN at ELSE at + 1
        rex == IF code[r] \in \h40..\h4F THEN code[r] ELSE 0
        o == IF rex = 0 THEN r ELSE r + 1
    IN CASE code[o] \in Specials -> Special(code, o, rex)
         [] code[o] = \h0F /\ code[o + 1] \in (\h40..\h4F) \cup (\h80..\h9F) ->
              Conditional(code, o, rex)
         [] code[o] = \h0F /\ code[o + 1] = \h3A -> Mapped(code, o, prefix, rex, 3)
         [] code[o] = \h0F /\ code[o + 1] \notin (\h40..\h4F) \cup (\h80..\h9F) \cup {\h3A} ->
              Mapped(code, o, prefix, rex, 2)
         [] OTHER -> Mapped(code, o, prefix, rex, 1)
=============================================================================
