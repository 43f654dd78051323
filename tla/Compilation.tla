---------------------------- MODULE Compilation ----------------------------
(***************************************************************************)
(* Lazy compilation: vm/compilation.rs, compiler/codegen.rs, the runtime   *)
(* side of compiler/lazy_compilation_stub.rs, boots.rs and VM::add_code.   *)
(*                                                                         *)
(* A thread is a stack of activations.  An activation [fct, at, callee]    *)
(* executes the code of fct (None: native code that starts a Dora          *)
(* function) and is at label `at`: running, or on its way to calling       *)
(* `callee`.  Only the topmost one moves.  The safepoint protocol enters   *)
(* by its contract: a thread stops only where compiled code polls, and an  *)
(* operation waits until all other threads have stopped or ended.          *)
(***************************************************************************)
EXTENDS Integers, Sequences, FiniteSets

CONSTANTS
    Thread, Main,
    Fct,            \* (FctDefinitionId, type_params)
    Optimized,      \* functions with is_optimize_immediately
    BootsCompile,   \* known.functions.compile(), the compiler written in Dora
    None,           \* no function; in a call site: the lazy compilation stub
    MaxDepth        \* bound: activations on a stack

ASSUME CompilationAssumption ==
    /\ None \notin Fct \union Thread /\ Main \in Thread
    /\ Optimized \subseteq Fct /\ BootsCompile \in Fct \ Optimized
    /\ MaxDepth \in Nat

VARIABLES
    stack,          \* the activations of each thread
    started,        \* threads created so far
    status,         \* CompilationDatabase.inner
    asleep,         \* threads in cv_notify.wait
    codeObjects,    \* VM.code_objects: the functions compiled, in order
    codeMap,        \* functions whose code VM.code_map finds
    slot,           \* function pointer of each call site <<caller, callee>>
    stopper,        \* the thread that stops the world, or None
    stopped         \* the threads that wait in their safepoint for it

db   == <<status, asleep>>
code == <<codeObjects, codeMap>>
stw  == <<stopper, stopped>>
vars == <<stack, started, db, code, slot, stw>>

Status == {"none", "InProgress", "Compiled"}
Label  == {"unpark", "run", "lookup", "request", "compile", "boots", "install", "add_code",
           "finish", "patch", "call"}

Top(t) == stack[t][Len(stack[t])]

\* Thread t is in an activation at label l and not stopped.
At(t, l) == stack[t] # <<>> /\ Top(t).at = l /\ t \notin stopped

Below(t) == SubSeq(stack[t], 1, Len(stack[t]) - 1)

\* The topmost activation becomes a.
Become(t, a) == stack' = [stack EXCEPT ![t] = Append(Below(t), a)]

Goto(t, l) == Become(t, [Top(t) EXCEPT !.at = l])

\* The topmost activation goes to l and a new one starts.
Activate(t, l, a) ==
    stack' = [stack EXCEPT ![t] = Below(t) \o <<[Top(t) EXCEPT !.at = l], a>>]

Start(f) == [fct |-> None, at |-> "request", callee |-> f]
Frame(f) == [fct |-> f, at |-> "run", callee |-> None]

\* Where a thread may start or meet a collection: in compiled code, and in
\* boots::compile, which allocates the description of the function.
Interruptible(t) ==
    \/ At(t, "run")
    \/ At(t, "patch") /\ Top(t).fct = None /\ Len(stack[t]) > 1

\* run_main: the main thread asks for the main function.
Init ==
    /\ \E f \in Fct : stack = [t \in Thread |-> IF t = Main THEN <<Start(f)>> ELSE <<>>]
    /\ started = {Main}
    /\ status = [f \in Fct |-> "none"]
    /\ asleep = {}
    /\ codeObjects = <<>> /\ codeMap = {}
    /\ slot = [c \in Fct \X Fct |-> None]
    /\ stopper = None /\ stopped = {}

-----------------------------------------------------------------------------
(* Compiled code.                                                          *)

\* Thread t runs the compiler written in Dora.
Compiling(t) == \E i \in 1 .. Len(stack[t]) : stack[t][i].at = "boots"

\* A call through a site that is patched, or still has the stub's address.
\* The compiler itself calls nothing marked optimizeImmediately.
Call(t, g) ==
    /\ At(t, "run") /\ Len(stack[t]) < MaxDepth
    /\ g \in Optimized => ~Compiling(t)
    /\ LET f == Top(t).fct IN
       IF slot[f, g] = None
       THEN Become(t, [Top(t) EXCEPT !.at = "lookup", !.callee = g])
       ELSE Activate(t, "call", Frame(slot[f, g]))
    /\ UNCHANGED <<started, db, code, slot, stw>>

\* The caller goes on; boots::compile takes the machine code it was given.
Return(t) ==
    /\ At(t, "run")
    /\ LET rest == Below(t)
           n == Len(rest) IN
       stack' = [stack EXCEPT ![t] =
           IF rest[n].fct # None THEN [rest EXCEPT ![n] = Frame(@.fct)]
           ELSE IF n = 1 THEN <<>>
           ELSE [SubSeq(rest, 1, n - 1) EXCEPT ![n - 1].at = "install"]]
    /\ UNCHANGED <<started, db, code, slot, stw>>

\* spawn_thread: the new thread is registered, parked, while no stop is going on.
Spawn(t, u, f) ==
    /\ At(t, "run") /\ ~Compiling(t) /\ stopper = None /\ u \notin started
    /\ started' = started \union {u}
    /\ stack' = [stack EXCEPT ![u] = <<[Start(f) EXCEPT !.at = "unpark"]>>]
    /\ UNCHANGED <<db, code, slot, stw>>

\* thread_main: unpark waits for a stop to end.
Unpark(t) ==
    /\ At(t, "unpark") /\ stopper = None
    /\ Goto(t, "request")
    /\ UNCHANGED <<started, db, code, slot, stw>>

-----------------------------------------------------------------------------
(* compile_request, generate_fct and the compilation database.             *)

\* The call site is found through the return address.
Lookup(t) ==
    /\ At(t, "lookup")
    /\ Goto(t, "request")
    /\ UNCHANGED <<started, db, code, slot, stw>>

\* Mutant: the request is not recorded.
RequestUnrecorded(t) ==
    /\ At(t, "request") /\ t \notin asleep
    /\ Goto(t, IF status[Top(t).callee] = "Compiled" THEN "patch" ELSE "compile")
    /\ UNCHANGED <<started, db, code, slot, stw>>

\* compilation_request, with the wait on its condition variable.
Request(t) ==
    LET g == Top(t).callee IN
    /\ At(t, "request") /\ t \notin asleep
    /\ CASE status[g] = "Compiled" ->
              Goto(t, "patch") /\ UNCHANGED db
         [] status[g] = "InProgress" ->
              asleep' = asleep \union {t} /\ UNCHANGED <<stack, status>>
         [] status[g] = "none" ->
              /\ status' = [status EXCEPT ![g] = "InProgress"]
              /\ Goto(t, "compile")
              /\ UNCHANGED asleep
    /\ UNCHANGED <<started, code, slot, stw>>

\* cannon::compile is native code; boots::compile first asks for the compiler
\* written in Dora and then runs it.
Compile(t) ==
    /\ At(t, "compile")
    /\ IF Top(t).callee \in Optimized
       THEN Activate(t, "boots", Start(BootsCompile))
       ELSE Goto(t, "install")
    /\ UNCHANGED <<started, db, code, slot, stw>>

\* install_code, and code_objects.add of VM::add_code
Install(t) ==
    /\ At(t, "install")
    /\ codeObjects' = Append(codeObjects, Top(t).callee)
    /\ Goto(t, "add_code")
    /\ UNCHANGED <<started, db, codeMap, slot, stw>>

\* code_map.insert of VM::add_code
AddCode(t) ==
    /\ At(t, "add_code")
    /\ codeMap' = codeMap \union {Top(t).callee}
    /\ Goto(t, "finish")
    /\ UNCHANGED <<started, db, codeObjects, slot, stw>>

\* Mutant: the waiting threads are not notified.
FinishSilently(t) ==
    /\ At(t, "finish")
    /\ status' = [status EXCEPT ![Top(t).callee] = "Compiled"]
    /\ Goto(t, "patch")
    /\ UNCHANGED <<started, asleep, code, slot, stw>>

\* finish_compilation
Finish(t) ==
    /\ At(t, "finish")
    /\ status' = [status EXCEPT ![Top(t).callee] = "Compiled"]
    /\ asleep' = {}
    /\ Goto(t, "patch")
    /\ UNCHANGED <<started, code, slot, stw>>


\* patch_direct_call, patch_virtual_call, patch_lambda_call, then the stub
\* jumps to the function.  Native callers have no site.
Patch(t) ==
    LET a == Top(t) IN
    /\ At(t, "patch")
    /\ slot' = IF a.fct = None THEN slot ELSE [slot EXCEPT ![a.fct, a.callee] = a.callee]
    /\ Activate(t, "call", Frame(a.callee))
    /\ UNCHANGED <<started, db, code, stw>>

-----------------------------------------------------------------------------
(* The safepoint protocol as compiled code meets it.                       *)

\* An allocation starts a collection.
StopWorld(t) ==
    /\ Interruptible(t) /\ stopper = None
    /\ stopper' = t
    /\ stopped' = {t}
    /\ UNCHANGED <<stack, started, db, code, slot>>

\* Compiled code polls, or runs into a collection of its own.
Poll(t) ==
    /\ Interruptible(t) /\ stopper # None
    /\ stopped' = stopped \union {t}
    /\ UNCHANGED <<stack, started, db, code, slot, stopper>>

\* The operation walks all stacks and lets everybody go.
Collect(t) ==
    /\ stopper = t
    /\ \A u \in Thread : u \in stopped \/ stack[u] = <<>> \/ At(u, "unpark")
    /\ stopper' = None /\ stopped' = {}
    /\ UNCHANGED <<stack, started, db, code, slot>>

-----------------------------------------------------------------------------
Step(t) ==
    \/ Unpark(t) \/ Lookup(t) \/ Request(t) \/ Compile(t) \/ Install(t) \/ AddCode(t)
    \/ Finish(t) \/ Patch(t) \/ Collect(t)

Program(t) ==
    \/ \E g \in Fct : Call(t, g) \/ \E u \in Thread : Spawn(t, u, g)
    \/ StopWorld(t)

\* The program ends when all its threads have returned.
Next == \E t \in Thread : Step(t) \/ Program(t) \/ Return(t) \/ Poll(t)

Spec == Init /\ [][Next]_vars

\* Native code makes progress; compiled code polls at every loop back-edge and
\* call, and the Dora code of a compiler ends.
FairSpec ==
    /\ Spec
    /\ \A t \in Thread : WF_vars(Step(t)) /\ SF_vars(Return(t)) /\ SF_vars(Poll(t))

-----------------------------------------------------------------------------
(* Properties.                                                             *)

\* Every variable has its type; only functions run as compiled code.
TypeOK ==
    /\ \A t \in Thread : \A i \in 1 .. Len(stack[t]) :
          /\ stack[t][i] \in [fct : Fct \union {None}, at : Label, callee : Fct \union {None}]
          /\ stack[t][i].at \in {"run", "lookup"} => stack[t][i].fct # None
    /\ started \subseteq Thread
    /\ status \in [Fct -> Status] /\ asleep \subseteq Thread
    /\ codeMap \subseteq Fct
    /\ slot \in [Fct \X Fct -> Fct \union {None}]
    /\ stopper \in Thread \union {None} /\ stopped \subseteq Thread

\* Whatever threads ask for a function at the same time, it is compiled once,
\* and assert_eq!(old_value, InProgress) in finish_compilation holds.
CompiledOnce ==
    /\ \A i, j \in 1 .. Len(codeObjects) : codeObjects[i] = codeObjects[j] => i = j
    /\ \A t \in Thread : At(t, "finish") => status[Top(t).callee] = "InProgress"


\* A thread that waits for a function of the compiler written in Rust is resumed
\* by finish_compilation, also while the compiler written in Dora is at work and
\* whatever stops of the world intervene.
BaselineWaiterResumes ==
    \A t \in Thread :
        (t \in asleep /\ Top(t).callee \notin Optimized) ~> t \notin asleep

\* A thread that waits for a compilation is resumed when it is finished.
WaiterResumes ==
    \A t \in Thread : t \in asleep ~> t \notin asleep
=============================================================================
