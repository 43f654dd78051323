----------------------------- MODULE Assembler -----------------------------
(***************************************************************************)
(* An assembler of dora-asm at work: instructions are appended to the      *)
(* buffer, labels are created and bound, jumps to unbound labels leave a   *)
(* hole, and finalize patches the holes and aligns the code.               *)
(*                                                                         *)
(* Positions count bytes on x64 and words on arm64.  program is a history  *)
(* of what was asked for; the code is compared with what the processor     *)
(* reads in it (IsaX64, IsaArm64).                                         *)
(***************************************************************************)
EXTENDS Integers, Sequences, SequencesExt

CONSTANTS
    Clients,                \* who uses the assembler
    Instructions(_, _, _),  \* arch, client, n: what it may emit as the n-th instruction
    JumpKinds(_),           \* arch: the jumps it may emit
    Fillers(_, _),          \* client, n: the runs of nops it may emit next
    Alignments(_),          \* arch: what finalize may be asked to align to
    MaxLabels(_),           \* client: how many labels it creates
    MaxJumps

X == INSTANCE AsmX64
XIsa == INSTANCE IsaX64
A == INSTANCE AsmArm64
AIsa == INSTANCE IsaArm64

VARIABLES
    arch, client,       \* the assembler in use, and its user
    code,               \* buffer: bytes, or words as sets of bits
    labels,             \* label -> position it is bound to, or Unbound
    unresolved,         \* unresolved_jumps: [at, label, kind]
    program,            \* [at, what, label]: label is that of a jump
    done                \* finalize has run

vars == <<arch, client, code, labels, unresolved, program, done>>

Unbound == -1

Jumps == SelectSeq(program, LAMBDA p : p.label > 0)

\* A label is bound to a position of the code, and an unresolved jump waits for
\* a label that exists (create_label, bind_label).
TypeOK ==
    /\ arch \in {"x64", "arm64"} /\ client \in Clients
    /\ labels \in Seq({Unbound} \cup 0..Len(code))
    /\ \A k \in DOMAIN unresolved : unresolved[k].label \in DOMAIN labels
    /\ done \in BOOLEAN

Init ==
    /\ arch \in {"x64", "arm64"} /\ client \in Clients
    /\ code = <<>> /\ labels = <<>> /\ unresolved = <<>> /\ program = <<>>
    /\ done = FALSE

\* emit_u8, emit_u32 and emit_u64 at the end of the buffer.
Put(bytes) == code' = code \o bytes
Record(what, label) ==
    program' = program \o <<[at |-> Len(code), what |-> what, label |-> label]>>

-----------------------------------------------------------------------------
(* Instructions and labels.                                                *)

\* The word of an arm64 instruction, unless an assertion fails.
PutWord(e) == e.ok /\ Put(<<e.word>>)

\* A method of the assembler whose assertions hold.
Emit(i) ==
    /\ IF arch = "x64"
       THEN X!Accepts(i.m, i.a) /\ Put(X!Encode(i.m, i.a))
       ELSE PutWord(A!Encode(i.m, i.w, i.a))
    /\ Record(i, 0)
    /\ UNCHANGED <<arch, client, labels, unresolved, done>>

\* A run of n nops, which the history records as one piece with label Filler.
Filler == -1
NopCode == IF arch = "x64" THEN 144 ELSE A!system(0).word
Fill(n) ==
    /\ Put([k \in 1..n |-> NopCode])
    /\ Record(<<>>, Filler)
    /\ UNCHANGED <<arch, client, labels, unresolved, done>>

create_label ==
    /\ labels' = labels \o <<Unbound>>
    /\ UNCHANGED <<arch, client, code, unresolved, program, done>>

create_and_bind_label ==
    /\ labels' = labels \o <<Len(code)>>
    /\ UNCHANGED <<arch, client, code, unresolved, program, done>>

bind_label(l) ==
    /\ labels[l] = Unbound
    /\ labels' = [labels EXCEPT ![l] = Len(code)]
    /\ UNCHANGED <<arch, client, code, unresolved, program, done>>

-----------------------------------------------------------------------------
(* Jumps.  A kind is <<"j", condition or -1, near>> on x64.                *)

\* jcc, jmp, jcc_near, jmp_near; b_l, bc_l, cbz, cbnz.
JumpBack(kind, l) ==
    /\ labels[l] # Unbound
    /\ IF arch = "x64"
       THEN /\ kind[3] => X!NearOK(Len(code), labels[l])
            /\ Put(X!Backward(kind[2], Len(code), labels[l]))
       ELSE PutWord(A!branch(kind, labels[l] - Len(code)))
    /\ Record(kind, l)
    /\ UNCHANGED <<arch, client, labels, unresolved, done>>

JumpAhead(kind, l) ==
    /\ labels[l] = Unbound
    /\ IF arch = "x64"
       THEN LET f == X!Forward(kind[2], kind[3]) IN
            /\ Put(f.opcode \o f.hole)
            /\ unresolved' = unresolved \o
                  <<[at |-> Len(code) + Len(f.opcode), label |-> l, kind |-> kind]>>
       ELSE /\ Put(<<{}>>)
            /\ unresolved' = unresolved \o <<[at |-> Len(code), label |-> l, kind |-> kind]>>
    /\ Record(kind, l)
    /\ UNCHANGED <<arch, client, labels, done>>

\* resolve_jumps: what is written over the hole of a jump, and whether the
\* assertions on the distance hold.
PatchOf(jump) ==
    LET target == labels[jump.label] IN
    IF arch = "x64"
    THEN [ok |-> X!PatchOK(jump.kind[3], jump.at, target),
          bytes |-> X!Patch(jump.kind[3], jump.at, target)]
    ELSE LET b == A!branch(jump.kind, target - jump.at) IN [ok |-> b.ok, bytes |-> <<b.word>>]

Overwrite(buffer, at, bytes) ==
    [k \in DOMAIN buffer |-> IF k - at \in DOMAIN bytes THEN bytes[k - at] ELSE buffer[k]]

resolve_jumps ==
    FoldLeft(LAMBDA buffer, jump : Overwrite(buffer, jump.at, PatchOf(jump).bytes),
             code, unresolved)

align_to(len, alignment) ==
    IF arch = "x64" THEN X!align_to(len, alignment)
    ELSE [k \in 1..((-len) % alignment) |-> A!exception(1, <<"i", 0>>).word]

\* finalize panics on an unbound label and on a near jump out of reach.
finalize(alignment) ==
    /\ \A k \in DOMAIN unresolved :
          labels[unresolved[k].label] # Unbound /\ PatchOf(unresolved[k]).ok
    /\ code' = resolve_jumps \o align_to(Len(code), alignment)
    /\ unresolved' = <<>>
    /\ done' = TRUE
    /\ UNCHANGED <<arch, client, labels, program>>

-----------------------------------------------------------------------------
Next ==
    \/ /\ ~done
       /\ \/ \E i \in Instructions(arch, client, Len(program) + 1) : Emit(i)
          \/ \E n \in Fillers(client, Len(program) + 1) : Fill(n)
          \/ Len(labels) < MaxLabels(client) /\ (create_label \/ create_and_bind_label)
          \/ \E l \in DOMAIN labels : bind_label(l)
          \/ \E l \in DOMAIN labels, kind \in JumpKinds(arch) :
                Len(Jumps) < MaxJumps /\ (JumpBack(kind, l) \/ JumpAhead(kind, l))
          \/ \E alignment \in Alignments(arch) : finalize(alignment)
    \/ done /\ UNCHANGED vars

Spec == Init /\ [][Next]_vars

-----------------------------------------------------------------------------
(* What the processor should find.                                         *)

\* An immediate as the instruction uses it, an address as its parts.
Operand(m, arg) ==
    LET size == CASE m[2] = "q" -> 8 [] m[2] = "l" -> 4 [] OTHER -> 1 IN
    CASE arg[1] = "i" -> <<"i", SubSeq(arg[2], 1, IF XIsa!IsShift(m[1]) THEN 1 ELSE size)>>
      [] arg[1] = "offset" -> <<"m", arg[2], XIsa!NoReg, 0, arg[3]>>
      [] arg[1] = "index" -> <<"m", XIsa!NoReg, arg[2], arg[3], arg[4]>>
      [] arg[1] = "array" -> <<"m", arg[2], arg[3], arg[4], arg[5]>>
      [] arg[1] = "rip" -> <<"m", XIsa!Rip, XIsa!NoReg, 0, arg[2]>>
      [] OTHER -> arg

\* What a method of AssemblerX64 says it emits.  round reads and writes its
\* one register; testl_ri of a small mask tests the low byte.
IntentX64(m, a) ==
    CASE m[1] = "round" -> <<m[1], m[2], <<a[1], a[1], Operand(m, a[2])>>>>
      [] m = <<"test", "l", "ri">> /\ X!is_uint8(a[2][2]) ->
            <<"test", "b", <<a[1], Operand(<<"test", "b">>, a[2])>>>>
      [] OTHER -> <<m[1], m[2], [k \in DOMAIN a |-> Operand(m, a[k])]>>

\* The jump the processor takes: where to, in positions of the code.
IntentJump(p) ==
    LET target == labels[p.label]  kind == p.what IN
    CASE arch = "x64" /\ kind[2] = -1 -> <<"jmp", "", <<<<"to", target + 1>>>>>>
      [] arch = "x64" /\ kind[2] # -1 -> <<"jcc", "", <<<<"c", kind[2]>>, <<"to", target + 1>>>>>>
      [] kind[1] = "b" -> <<"b_imm", "x", <<<<"i", target - p.at>>>>>>
      [] kind[1] = "bc" -> <<"bc_imm", "x", <<kind[2], <<"i", target - p.at>>>>>>
      [] OTHER -> <<kind[1], kind[3], <<kind[2], <<"i", target - p.at>>>>>>

\* On arm64 muls is another name of mul.
Intent(p) ==
    CASE p.label > 0 -> IntentJump(p)
      [] p.label = 0 /\ arch = "x64" -> IntentX64(p.what.m, p.what.a)
      [] OTHER -> AIsa!Preferred(<<IF p.what.m = "muls" THEN "mul" ELSE p.what.m,
                                   p.what.w, p.what.a>>)

\* What the processor reads at a position, and where the next instruction is.
Padded == code \o [k \in 1..16 |-> 0]
Piece(d) == [what |-> <<d.mn, d.w, d.args>>, next |-> d.next - 1]
Read(at) == IF arch = "x64" THEN Piece(XIsa!Decode(Padded, at + 1))
                            ELSE [what |-> AIsa!Decode(code[at + 1]), next |-> at + 1]

ReadAs(read, what, k) ==
    read.what = what /\ (k < Len(program) => read.next = program[k + 1].at)


\* Every jump, forward or backward, short or long, leads to the instruction
\* its label was bound before (resolve_jumps, jcc, jmp, b_l, bc_l, cbz).
JumpsLand ==
    done => \A k \in DOMAIN program :
        program[k].label > 0 => ReadAs(Read(program[k].at), IntentJump(program[k]), k)
=============================================================================
