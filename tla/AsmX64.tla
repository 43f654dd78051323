------------------------------- MODULE AsmX64 -------------------------------
(***************************************************************************)
(* The x86-64 assembler of dora-asm/src/x64.rs.                            *)
(*                                                                         *)
(* A method of AssemblerX64 is named by the three parts of its Rust name:  *)
(* mnemonic, width suffix and operand kinds, so addq_rr is the method      *)
(* <<"add", "q", "rr">>.  A row of the table says which prefix, which REX  *)
(* helper, which opcode bytes and which operand form it emits.             *)
(*                                                                         *)
(* An operand is tagged with its kind: <<"r", n>> a Register, <<"x", n>> an *)
(* XmmRegister, <<"i", bytes>> an Immediate as its eight little-endian     *)
(* bytes, <<"c", n>> a Condition, and one tuple per constructor of Address. *)
(* A name without a width gets the one it works at: lea and movzxb, cdq    *)
(* (cqo is its "q"), the d of the conversions (here "l").                  *)
(***************************************************************************)
EXTENDS Integers, Sequences, SequencesExt

RAX == 0
RSP == 4
RBP == 5

LowBits(r) == r % 8
NeedsRex(r) == r \div 8        \* 1 for R8..R15

\* The low byte of an integer, and a 32-bit value in little-endian order.
Byte(n) == n % 256
Bytes32(n) ==
    <<Byte(n), Byte(n \div 256), Byte(n \div 65536), Byte(n \div 16777216)>>

-----------------------------------------------------------------------------
(* Immediate.                                                              *)

SignByte(b) == IF b >= 128 THEN 255 ELSE 0

is_int8(imm) == \A k \in 2..8 : imm[k] = SignByte(imm[1])
is_uint8(imm) == \A k \in 2..8 : imm[k] = 0
is_int32(imm) == \A k \in 5..8 : imm[k] = SignByte(imm[4])
is_uint32(imm) == \A k \in 5..8 : imm[k] = 0

Imm8(imm) == SubSeq(imm, 1, 1)
Imm32(imm) == SubSeq(imm, 1, 4)

-----------------------------------------------------------------------------
(* Address: the REX bits it asks for, and the bytes from ModRM on.         *)


\* How the displacement is stored: not at all, in a byte or in four.
Mode(base, disp) ==
    CASE disp = 0 /\ base # RBP -> 0
      [] ~ (disp = 0 /\ base # RBP) /\ disp \in -128..127 -> 1
      [] OTHER -> 2

Disp(mode, disp) ==
    CASE mode = 0 -> <<>> [] mode = 1 -> <<Byte(disp)>> [] mode = 2 -> Bytes32(disp)

ModRM(mode, reg, rm) == mode * 64 + reg * 8 + rm
Sib(scale, index, base) == scale * 64 + LowBits(index) * 8 + LowBits(base)

\* Address::offset, index, array and rip.
Address(a) ==
    CASE a[1] = "offset" ->
            LET base == a[2]  mode == Mode(base, a[3]) IN
            [x |-> 0, b |-> NeedsRex(base), mode |-> mode, rm |-> LowBits(base),
             rest |-> (IF base = RSP THEN <<Sib(0, RSP, base)>> ELSE <<>>)
                      \o Disp(mode, a[3])]
      [] a[1] = "index" ->
            [x |-> NeedsRex(a[2]), b |-> 0, mode |-> 0, rm |-> RSP,
             rest |-> <<Sib(a[3], a[2], RBP)>> \o Bytes32(a[4])]
      [] a[1] = "array" ->
            LET base == a[2]  mode == Mode(base, a[5]) IN
            [x |-> NeedsRex(a[3]), b |-> NeedsRex(base), mode |-> mode, rm |-> RSP,
             rest |-> <<Sib(a[4], a[3], base)>> \o Disp(mode, a[5])]
      [] a[1] = "rip" ->
            [x |-> 0, b |-> 0, mode |-> 0, rm |-> RBP, rest |-> Bytes32(a[2])]

\* assert_ne!(index, RSP)
AddressOK(a) ==
    /\ a[1] = "index" => a[2] # RSP
    /\ a[1] = "array" => a[3] # RSP

-----------------------------------------------------------------------------
(* The REX prefix and the operand bytes.                                   *)

emit_rex(w, r, x, b) == <<64 + 8 * w + 4 * r + 2 * x + b>>

\* emit_rex64*, emit_rex32_byte_optional and the helpers that emit no prefix
\* when no register needs one.
RexRegisters(kind, reg, rm) ==
    LET r == NeedsRex(reg)  b == NeedsRex(rm) IN
    CASE kind = "64" -> emit_rex(1, r, 0, b)
      [] kind = "32" -> IF r + b > 0 THEN emit_rex(0, r, 0, b) ELSE <<>>
      [] kind = "byte" -> IF r + b > 0 \/ rm > 3 THEN emit_rex(0, r, 0, b) ELSE <<>>

\* The same helpers for an address.
RexAddress(kind, reg, a) ==
    LET r == NeedsRex(reg) IN
    CASE kind = "64" -> emit_rex(1, r, a.x, a.b)
      [] kind = "32" -> IF r + a.x + a.b > 0 THEN emit_rex(0, r, a.x, a.b) ELSE <<>>
      [] kind = "byte" -> IF a.x + a.b > 0 \/ reg > 3 THEN emit_rex(0, r, a.x, a.b) ELSE <<>>

IsReg(arg) == arg[1] \in {"r", "x"}

\* Prefix, REX, opcode, and ModRM with what follows it: emit_modrm_registers,
\* emit_modrm_opcode, emit_address.
WithRM(prefix, rex, opcode, reg, rm) ==
    IF IsReg(rm)
    THEN prefix \o RexRegisters(rex, reg, rm[2]) \o opcode
         \o <<ModRM(3, LowBits(reg), LowBits(rm[2]))>>
    ELSE LET a == Address(rm) IN
         prefix \o RexAddress(rex, reg, a) \o opcode
         \o <<ModRM(a.mode, LowBits(reg), a.rm)>> \o a.rest

-----------------------------------------------------------------------------
(* The methods, in the order of the source.  A row holds the name (three   *)
(* columns), the mandatory prefix, the REX helper, the opcode, the operand *)
(* form, the opcode extension in ModRM and the size of the immediate.      *)
(*   MR: args are r/m, reg    RM: args are reg, r/m    M: one r/m, or an   *)
(*   r/m and an immediate     O: register in the opcode    Z: no operand   *)
(*   RR: the one register is both reg and r/m                              *)

\* pushq_r to movl_rr.
StackAndMoves == {
    <<"push", "q", "r", <<>>, "32", <<\h50>>, "O", 0, "">>,
    <<"pop", "q", "r", <<>>, "32", <<\h58>>, "O", 0, "">>,
    <<"int3", "", "", <<>>, "none", <<\hCC>>, "Z", 0, "">>,
    <<"ret", "q", "", <<>>, "none", <<\hC3>>, "Z", 0, "">>,
    <<"nop", "", "", <<>>, "none", <<\h90>>, "Z", 0, "">>,
    <<"lea", "q", "ra", <<>>, "64", <<\h8D>>, "RM", 0, "">>,
    <<"mov", "q", "rr", <<>>, "64", <<\h89>>, "MR", 0, "">>,
    <<"mov", "q", "ra", <<>>, "64", <<\h8B>>, "RM", 0, "">>,
    <<"mov", "b", "ar", <<>>, "byte", <<\h88>>, "MR", 0, "">>,
    <<"mov", "b", "ai", <<>>, "32", <<\hC6>>, "M", 0, "b">>,
    <<"mov", "q", "ar", <<>>, "64", <<\h89>>, "MR", 0, "">>,
    <<"mov", "q", "ai", <<>>, "64", <<\hC7>>, "M", 0, "l">>,
    <<"mov", "l", "ra", <<>>, "32", <<\h8B>>, "RM", 0, "">>,
    <<"mov", "l", "ar", <<>>, "32", <<\h89>>, "MR", 0, "">>,
    <<"mov", "l", "ai", <<>>, "32", <<\hC7>>, "M", 0, "ul">>,
    <<"mov", "l", "rr", <<>>, "32", <<\h89>>, "MR", 0, "">>,
    <<"mov", "l", "ri", <<>>, "32", <<\hB8>>, "O", 0, "l">> }

\* movzxb_rr to movsd_ar.
Extensions == {
    <<"movzxb", "l", "rr", <<>>, "byte", <<\h0F, \hB6>>, "RM", 0, "">>,
    <<"movzxb", "l", "ra", <<>>, "32", <<\h0F, \hB6>>, "RM", 0, "">>,
    <<"movsxb", "l", "rr", <<>>, "byte", <<\h0F, \hBE>>, "RM", 0, "">>,
    <<"movsxb", "l", "ra", <<>>, "32", <<\h0F, \hBE>>, "RM", 0, "">>,
    <<"movsxb", "q", "rr", <<>>, "64", <<\h0F, \hBE>>, "RM", 0, "">>,
    <<"movsxb", "q", "ra", <<>>, "64", <<\h0F, \hBE>>, "RM", 0, "">>,
    <<"movsxl", "q", "rr", <<>>, "64", <<\h63>>, "RM", 0, "">>,
    <<"mov", "ss", "xx", <<\hF3>>, "32", <<\h0F, \h10>>, "RM", 0, "">>,
    <<"mov", "ss", "xa", <<\hF3>>, "32", <<\h0F, \h10>>, "RM", 0, "">>,
    <<"mov", "ss", "ax", <<\hF3>>, "32", <<\h0F, \h11>>, "MR", 0, "">>,
    <<"mov", "sd", "xx", <<\hF2>>, "32", <<\h0F, \h10>>, "RM", 0, "">>,
    <<"mov", "sd", "xa", <<\hF2>>, "32", <<\h0F, \h10>>, "RM", 0, "">>,
    <<"mov", "sd", "ax", <<\hF2>>, "32", <<\h0F, \h11>>, "MR", 0, "">> }

\* addq_rr to cmpb_ai.
Arithmetic == {
    <<"add", "q", "rr", <<>>, "64", <<\h01>>, "MR", 0, "">>,
    <<"add", "l", "rr", <<>>, "32", <<\h01>>, "MR", 0, "">>,
    <<"add", "ss", "xx", <<\hF3>>, "32", <<\h0F, \h58>>, "RM", 0, "">>,
    <<"add", "sd", "xx", <<\hF2>>, "32", <<\h0F, \h58>>, "RM", 0, "">>,
    <<"sub", "q", "rr", <<>>, "64", <<\h29>>, "MR", 0, "">>,
    <<"sub", "l", "rr", <<>>, "32", <<\h29>>, "MR", 0, "">>,
    <<"sub", "ss", "xx", <<\hF3>>, "32", <<\h0F, \h5C>>, "RM", 0, "">>,
    <<"sub", "sd", "xx", <<\hF2>>, "32", <<\h0F, \h5C>>, "RM", 0, "">>,
    <<"and", "l", "rr", <<>>, "32", <<\h21>>, "MR", 0, "">>,
    <<"and", "q", "rr", <<>>, "64", <<\h21>>, "MR", 0, "">>,
    <<"cmp", "b", "ar", <<>>, "byte", <<\h38>>, "MR", 0, "">>,
    <<"cmp", "b", "ai", <<>>, "32", <<\h80>>, "M", 7, "b">> }

\* cmpl_rr to pxor_rr.
Compares == {
    <<"cmp", "l", "rr", <<>>, "32", <<\h39>>, "MR", 0, "">>,
    <<"cmp", "l", "ar", <<>>, "32", <<\h39>>, "MR", 0, "">>,
    <<"cmp", "q", "rr", <<>>, "64", <<\h39>>, "MR", 0, "">>,
    <<"cmp", "q", "ar", <<>>, "64", <<\h39>>, "MR", 0, "">>,
    <<"ucomi", "ss", "xx", <<>>, "32", <<\h0F, \h2E>>, "RM", 0, "">>,
    <<"ucomi", "sd", "xx", <<\h66>>, "32", <<\h0F, \h2E>>, "RM", 0, "">>,
    <<"round", "ss", "xi", <<\h66>>, "32", <<\h0F, \h3A, \h0A>>, "RR", 0, "any">>,
    <<"round", "sd", "xi", <<\h66>>, "32", <<\h0F, \h3A, \h0B>>, "RR", 0, "any">>,
    <<"sqrt", "ss", "xx", <<\hF3>>, "32", <<\h0F, \h51>>, "RM", 0, "">>,
    <<"sqrt", "sd", "xx", <<\hF2>>, "32", <<\h0F, \h51>>, "RM", 0, "">>,
    <<"pxor", "", "xx", <<\h66>>, "32", <<\h0F, \hEF>>, "RM", 0, "">> }

\* orl_rr to testl_rr.
Exchanges == {
    <<"or", "l", "rr", <<>>, "32", <<\h09>>, "MR", 0, "">>,
    <<"or", "q", "rr", <<>>, "64", <<\h09>>, "MR", 0, "">>,
    <<"xchg", "q", "ar", <<>>, "64", <<\h87>>, "MR", 0, "">>,
    <<"xchg", "l", "ar", <<>>, "32", <<\h87>>, "MR", 0, "">>,
    <<"cmpxchg", "q", "ar", <<>>, "64", <<\h0F, \hB1>>, "MR", 0, "">>,
    <<"cmpxchg", "l", "ar", <<>>, "32", <<\h0F, \hB1>>, "MR", 0, "">>,
    <<"lock_cmpxchg", "q", "ar", <<\hF0>>, "64", <<\h0F, \hB1>>, "MR", 0, "">>,
    <<"lock_cmpxchg", "l", "ar", <<\hF0>>, "32", <<\h0F, \hB1>>, "MR", 0, "">>,
    <<"and", "ps", "xa", <<>>, "32", <<\h0F, \h54>>, "RM", 0, "">>,
    <<"xor", "l", "rr", <<>>, "32", <<\h31>>, "MR", 0, "">>,
    <<"xor", "q", "rr", <<>>, "64", <<\h31>>, "MR", 0, "">>,
    <<"xor", "ps", "xa", <<>>, "32", <<\h0F, \h57>>, "RM", 0, "">>,
    <<"xor", "ps", "xx", <<>>, "32", <<\h0F, \h57>>, "RM", 0, "">>,
    <<"xor", "pd", "xa", <<\h66>>, "32", <<\h0F, \h57>>, "RM", 0, "">>,
    <<"test", "l", "rr", <<>>, "32", <<\h85>>, "MR", 0, "">> }

\* testl_ar to notq.
TestsAndProducts == {
    <<"test", "l", "ar", <<>>, "32", <<\h85>>, "MR", 0, "">>,
    <<"test", "l", "ai", <<>>, "32", <<\hF7>>, "M", 0, "l">>,
    <<"test", "q", "rr", <<>>, "64", <<\h85>>, "MR", 0, "">>,
    <<"test", "q", "ar", <<>>, "64", <<\h85>>, "MR", 0, "">>,
    <<"test", "q", "ai", <<>>, "64", <<\hF7>>, "M", 0, "l">>,
    <<"imul", "l", "rr", <<>>, "32", <<\h0F, \hAF>>, "RM", 0, "">>,
    <<"imul", "q", "rr", <<>>, "64", <<\h0F, \hAF>>, "RM", 0, "">>,
    <<"mul", "ss", "xx", <<\hF3>>, "32", <<\h0F, \h59>>, "RM", 0, "">>,
    <<"mul", "sd", "xx", <<\hF2>>, "32", <<\h0F, \h59>>, "RM", 0, "">>,
    <<"div", "ss", "xx", <<\hF3>>, "32", <<\h0F, \h5E>>, "RM", 0, "">>,
    <<"div", "sd", "xx", <<\hF2>>, "32", <<\h0F, \h5E>>, "RM", 0, "">>,
    <<"idiv", "l", "r", <<>>, "32", <<\hF7>>, "M", 7, "">>,
    <<"idiv", "q", "r", <<>>, "64", <<\hF7>>, "M", 7, "">>,
    <<"call", "", "r", <<>>, "32", <<\hFF>>, "M", 2, "">>,
    <<"cdq", "l", "", <<>>, "none", <<\h99>>, "Z", 0, "">>,
    <<"cdq", "q", "", <<>>, "none", <<\h48, \h99>>, "Z", 0, "">>,
    <<"neg", "l", "r", <<>>, "32", <<\hF7>>, "M", 3, "">>,
    <<"neg", "q", "r", <<>>, "64", <<\hF7>>, "M", 3, "">>,
    <<"not", "l", "r", <<>>, "32", <<\hF7>>, "M", 2, "">>,
    <<"not", "q", "r", <<>>, "64", <<\hF7>>, "M", 2, "">> }

\* jmp_r to cvttsd2siq_rr.
CountsAndConversions == {
    <<"jmp", "", "r", <<>>, "32", <<\hFF>>, "M", 4, "">>,
    <<"tzcnt", "l", "rr", <<\hF3>>, "32", <<\h0F, \hBC>>, "RM", 0, "">>,
    <<"tzcnt", "q", "rr", <<\hF3>>, "64", <<\h0F, \hBC>>, "RM", 0, "">>,
    <<"lzcnt", "l", "rr", <<\hF3>>, "32", <<\h0F, \hBD>>, "RM", 0, "">>,
    <<"lzcnt", "q", "rr", <<\hF3>>, "64", <<\h0F, \hBD>>, "RM", 0, "">>,
    <<"popcnt", "l", "rr", <<\hF3>>, "32", <<\h0F, \hB8>>, "RM", 0, "">>,
    <<"popcnt", "q", "rr", <<\hF3>>, "64", <<\h0F, \hB8>>, "RM", 0, "">>,
    <<"cvtsd2ss", "", "xx", <<\hF2>>, "32", <<\h0F, \h5A>>, "RM", 0, "">>,
    <<"cvtss2sd", "", "xx", <<\hF3>>, "32", <<\h0F, \h5A>>, "RM", 0, "">>,
    <<"cvtsi2ss", "l", "xr", <<\hF3>>, "32", <<\h0F, \h2A>>, "RM", 0, "">>,
    <<"cvtsi2ss", "q", "xr", <<\hF3>>, "64", <<\h0F, \h2A>>, "RM", 0, "">>,
    <<"cvtsi2sd", "l", "xr", <<\hF2>>, "32", <<\h0F, \h2A>>, "RM", 0, "">>,
    <<"cvtsi2sd", "q", "xr", <<\hF2>>, "64", <<\h0F, \h2A>>, "RM", 0, "">>,
    <<"cvttss2si", "l", "rx", <<\hF3>>, "32", <<\h0F, \h2C>>, "RM", 0, "">>,
    <<"cvttss2si", "q", "rx", <<\hF3>>, "64", <<\h0F, \h2C>>, "RM", 0, "">>,
    <<"cvttsd2si", "l", "rx", <<\hF2>>, "32", <<\h0F, \h2C>>, "RM", 0, "">>,
    <<"cvttsd2si", "q", "rx", <<\hF2>>, "64", <<\h0F, \h2C>>, "RM", 0, "">> }

\* movd_rx to lock_xaddl_ar.
Shifts == {
    <<"mov", "l", "rx", <<\h66>>, "32", <<\h0F, \h7E>>, "MR", 0, "">>,
    <<"mov", "l", "xr", <<\h66>>, "32", <<\h0F, \h6E>>, "RM", 0, "">>,
    <<"mov", "q", "rx", <<\h66>>, "64", <<\h0F, \h7E>>, "MR", 0, "">>,
    <<"mov", "q", "xr", <<\h66>>, "64", <<\h0F, \h6E>>, "RM", 0, "">>,
    <<"shr", "l", "ri", <<>>, "32", <<\hC1>>, "M", 5, "sb">>,
    <<"shr", "l", "r", <<>>, "32", <<\hD3>>, "M", 5, "">>,
    <<"shl", "l", "r", <<>>, "32", <<\hD3>>, "M", 4, "">>,
    <<"sar", "l", "r", <<>>, "32", <<\hD3>>, "M", 7, "">>,
    <<"shr", "q", "ri", <<>>, "64", <<\hC1>>, "M", 5, "sb">>,
    <<"shr", "q", "r", <<>>, "64", <<\hD3>>, "M", 5, "">>,
    <<"sar", "q", "r", <<>>, "64", <<\hD3>>, "M", 7, "">>,
    <<"sar", "l", "ri", <<>>, "32", <<\hC1>>, "M", 7, "sb">>,
    <<"sar", "q", "ri", <<>>, "64", <<\hC1>>, "M", 7, "sb">>,
    <<"shl", "l", "ri", <<>>, "32", <<\hC1>>, "M", 4, "sb">>,
    <<"shl", "q", "r", <<>>, "64", <<\hD3>>, "M", 4, "">>,
    <<"shl", "q", "ri", <<>>, "64", <<\hC1>>, "M", 4, "sb">>,
    <<"rol", "l", "r", <<>>, "32", <<\hD3>>, "M", 0, "">>,
    <<"rol", "q", "r", <<>>, "64", <<\hD3>>, "M", 0, "">>,
    <<"ror", "l", "r", <<>>, "32", <<\hD3>>, "M", 1, "">>,
    <<"ror", "q", "r", <<>>, "64", <<\hD3>>, "M", 1, "">>,
    <<"xadd", "q", "ar", <<>>, "64", <<\h0F, \hC1>>, "MR", 0, "">>,
    <<"xadd", "l", "ar", <<>>, "32", <<\h0F, \hC1>>, "MR", 0, "">>,
    <<"lock_xadd", "q", "ar", <<\hF0>>, "64", <<\h0F, \hC1>>, "MR", 0, "">>,
    <<"lock_xadd", "l", "ar", <<\hF0>>, "32", <<\h0F, \hC1>>, "MR", 0, "">> }

Methods ==
    StackAndMoves \cup Extensions \cup Arithmetic \cup Compares \cup Exchanges
        \cup TestsAndProducts \cup CountsAndConversions \cup Shifts

Row == [m \in {SubSeq(row, 1, 3) : row \in Methods} |->
            CHOOSE row \in Methods : SubSeq(row, 1, 3) = m]

\* The assertions on an immediate, and the bytes it is emitted as.
ImmediateOK(kind, imm) ==
    CASE kind = "b" -> is_int8(imm) \/ is_uint8(imm)
      [] kind = "sb" -> is_int8(imm)
      [] kind = "l" -> is_int32(imm)
      [] kind = "ul" -> is_int32(imm) \/ is_uint32(imm)
      [] OTHER -> TRUE

ImmediateBytes(kind, imm) ==
    CASE kind \in {"b", "sb", "any"} -> Imm8(imm)
      [] kind \in {"l", "ul"} -> Imm32(imm)
      [] OTHER -> <<>>

\* A method of the table applied to its arguments.
Plain(m, args) ==
    LET row == Row[m]
        prefix == row[4]  rex == row[5]  opcode == row[6]  form == row[7]
        imm == IF Len(args) = 2 /\ args[2][1] = "i"
               THEN ImmediateBytes(row[9], args[2][2]) ELSE <<>>
    IN CASE form = "MR" -> WithRM(prefix, rex, opcode, args[2][2], args[1])
         [] form = "RM" -> WithRM(prefix, rex, opcode, args[1][2], args[2])
         [] form = "M" -> WithRM(prefix, rex, opcode, row[8], args[1]) \o imm
         [] form = "RR" -> WithRM(prefix, rex, opcode, args[1][2], args[1]) \o imm
         [] form = "O" -> RexRegisters(rex, 0, args[1][2])
                          \o <<opcode[1] + LowBits(args[1][2])>> \o imm
         [] form = "Z" -> opcode

-----------------------------------------------------------------------------
(* The methods that choose between encodings.                              *)

\* movq_ri: a 32-bit immediate is sign-extended by the processor.
movq_ri(dest, imm) ==
    IF is_int32(imm)
    THEN WithRM(<<>>, "64", <<\hC7>>, 0, dest) \o Imm32(imm)
    ELSE RexRegisters("64", 0, dest[2]) \o <<\hB8 + LowBits(dest[2])>> \o imm

\* emit_alu64_imm and emit_alu32_imm
AluImm(rex, reg, imm, ext, rax_opcode) ==
    IF is_int8(imm)
    THEN WithRM(<<>>, rex, <<\h83>>, ext, reg) \o Imm8(imm)
    ELSE IF reg[2] = RAX
         THEN RexRegisters(rex, 0, RAX) \o <<rax_opcode>> \o Imm32(imm)
         ELSE WithRM(<<>>, rex, <<\h81>>, ext, reg) \o Imm32(imm)

\* The callers of emit_alu64_imm and emit_alu32_imm.
AluMethods == {
    <<"add", "l", "32", 0, \h05>>, <<"add", "q", "64", 0, \h05>>,
    <<"sub", "q", "64", 5, \h2D>>, <<"and", "q", "64", 4, \h25>>,
    <<"cmp", "q", "64", 7, \h3D>>, <<"cmp", "l", "32", 7, \h3D>>,
    <<"xor", "l", "32", 6, \h35>> }

\* cmpl_ai and cmpq_ai
cmp_ai(rex, lhs, imm) ==
    IF is_int8(imm) THEN WithRM(<<>>, rex, <<\h83>>, 7, lhs) \o Imm8(imm)
                    ELSE WithRM(<<>>, rex, <<\h81>>, 7, lhs) \o Imm32(imm)

\* testl_ri
testl_ri(lhs, imm) ==
    LET reg == lhs[2]  modrm == <<ModRM(3, 0, LowBits(reg))>> IN
    IF is_uint8(imm)
    THEN (CASE reg = RAX -> <<\hA8>>
            [] reg \in 1..3 -> <<\hF6>> \o modrm
            [] reg > 3 -> emit_rex(0, 0, 0, NeedsRex(reg)) \o <<\hF6>> \o modrm) \o Imm8(imm)
    ELSE (IF reg = RAX THEN <<\hA9>> ELSE <<\hF7>> \o modrm) \o Imm32(imm)

Conditions == 0..15

setcc_r(cc, dest) == WithRM(<<>>, "byte", <<\h0F, \h90 + cc>>, 0, dest)
cmov(rex, cc, dest, src) == WithRM(<<>>, rex, <<\h0F, \h40 + cc>>, dest[2], src)

\* The bytes a method emits.
Encode(m, args) ==
    CASE m \in DOMAIN Row -> Plain(m, args)
      [] m = <<"mov", "q", "ri">> -> movq_ri(args[1], args[2][2])
      [] \E row \in AluMethods : m = <<row[1], row[2], "ri">> ->
            LET row == CHOOSE r \in AluMethods : m = <<r[1], r[2], "ri">> IN
            AluImm(row[3], args[1], args[2][2], row[4], row[5])
      [] m = <<"cmp", "l", "ai">> -> cmp_ai("32", args[1], args[2][2])
      [] m = <<"cmp", "q", "ai">> -> cmp_ai("64", args[1], args[2][2])
      [] m = <<"test", "l", "ri">> -> testl_ri(args[1], args[2][2])
      [] m = <<"set", "", "r">> -> setcc_r(args[2][2], args[1])
      [] m = <<"cmov", "l", "rr">> -> cmov("32", args[3][2], args[1], args[2])
      [] m = <<"cmov", "q", "rr">> -> cmov("64", args[3][2], args[1], args[2])

\* The assertions of a method hold for its arguments.
Accepts(m, args) ==
    /\ \A k \in DOMAIN args : args[k][1] \in {"index", "array"} => AddressOK(args[k])
    /\ Len(args) = 2 /\ args[2][1] = "i" =>
          CASE m \in DOMAIN Row -> ImmediateOK(Row[m][9], args[2][2])
            [] m = <<"mov", "q", "ri">> -> TRUE
            [] m = <<"cmp", "l", "ai">> -> ImmediateOK("ul", args[2][2])
            [] OTHER -> is_int32(args[2][2])

-----------------------------------------------------------------------------
(* Jumps.  pos is the position of the instruction, target the offset of    *)
(* the bound label; cc is a condition or -1 for jmp.                       *)

\* Mutant: the distance is taken from the start of the instruction.
BackwardFromStart(cc, pos, target) ==
    LET short == target - pos IN
    IF short >= -128
    THEN <<IF cc = -1 THEN \hEB ELSE \h70 + cc, Byte(short)>>
    ELSE IF cc = -1 THEN <<\hE9>> \o Bytes32(target - (pos + 5))
                    ELSE <<\h0F, \h80 + cc>> \o Bytes32(target - (pos + 6))

\* jcc and jmp to a bound label.
Backward(cc, pos, target) ==
    LET short == target - (pos + 2) IN
    IF short >= -128
    THEN <<IF cc = -1 THEN \hEB ELSE \h70 + cc, Byte(short)>>
    ELSE IF cc = -1 THEN <<\hE9>> \o Bytes32(target - (pos + 5))
                    ELSE <<\h0F, \h80 + cc>> \o Bytes32(target - (pos + 6))

\* jcc_near and jmp_near to a bound label assert a distance of one byte.
NearOK(pos, target) == target - (pos + 2) >= -128

\* jcc, jmp and their near forms to an unbound label: the opcode, and the
\* bytes resolve_jumps overwrites.
Forward(cc, near) ==
    [opcode |-> CASE near /\ cc = -1 -> <<\hEB>>
                  [] near /\ cc # -1 -> <<\h70 + cc>>
                  [] ~near /\ cc = -1 -> <<\hE9>>
                  [] ~near /\ cc # -1 -> <<\h0F, \h80 + cc>>,
     hole |-> IF near THEN <<0>> ELSE <<0, 0, 0, 0>>]

\* What resolve_jumps writes at offset at for a label bound at target.
Patch(near, at, target) ==
    IF near THEN <<Byte(target - (at + 1))>> ELSE Bytes32(target - (at + 4))

PatchOK(near, at, target) == near => target - (at + 1) \in -128..127

\* align_to fills up with int3.
align_to(len, alignment) == [k \in 1..((-len) % alignment) |-> \hCC]
=============================================================================
