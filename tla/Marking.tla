------------------------------ MODULE Marking ------------------------------
(***************************************************************************)
(* Parallel marking: gc/pmarking.rs, with the mark bit of object.rs.       *)
(*                                                                         *)
(* Every worker has a private segment and a deque that others steal from;  *)
(* a global injector holds the roots and what is handed back.  A step is   *)
(* one access to shared memory: a mark bit, a deque, the injector or the   *)
(* Terminator's counter.  The test and the store of the mark bit are two   *)
(* steps (try_mark_non_atomic).  Fields that are null or in the permanent  *)
(* space are not followed by the code and left out of `fields`.            *)
(***************************************************************************)
EXTENDS Integers, Sequences, FiniteSets

CONSTANTS
    Object, Worker,
    None,            \* not an object
    SEGMENT_SIZE,    \* capacity of the private segment (64)
    MarkedLimit,     \* marks between two hand-backs (256)
    KeepLocal        \* segments up to this length hand nothing back (4)

ASSUME MarkingAssumption ==
    /\ IsFiniteSet(Worker) /\ Worker # {}
    /\ SEGMENT_SIZE \in Nat \ {0} /\ MarkedLimit \in Nat /\ KeepLocal \in Nat

VARIABLES
    fields, roots,   \* the heap graph: never changed by marking
    marked,          \* objects whose mark bit is set
    injector,        \* the shared queue
    deque,           \* MarkingTask.worker, the stealable end included
    local,           \* MarkingTask.local
    pc,              \* control location of each task
    visit,           \* the fields of the object that are yet to be traced
    slot,            \* the field being traced
    count,           \* MarkingTask.marked
    target,          \* local target_len of defensive_push
    nworkers,        \* Terminator.nworkers
    seen             \* local nworkers of zero_or_increase_workers

heap  == <<fields, roots>>
task  == <<visit, slot, count, target>>
term  == <<nworkers, seen>>
vars  == <<heap, marked, injector, deque, local, pc, task, term>>

Elems(s) == {s[i] : i \in 1 .. Len(s)}
Front(s) == SubSeq(s, 1, Len(s) - 1)

Goto(w, l) == pc' = [pc EXCEPT ![w] = l]

\* The state after start() has marked the roots, each of them once.
Init ==
    /\ fields \in [Object -> SUBSET Object]
    /\ roots \in SUBSET Object
    /\ marked = roots
    /\ injector \in [1 .. Cardinality(roots) -> roots] /\ Elems(injector) = roots
    /\ deque = [w \in Worker |-> <<>>]
    /\ local = [w \in Worker |-> <<>>]
    /\ pc = [w \in Worker |-> "pop"]
    /\ visit = [w \in Worker |-> {}]
    /\ slot = [w \in Worker |-> None]
    /\ count = [w \in Worker |-> 0]
    /\ target = [w \in Worker |-> 0]
    /\ nworkers = Cardinality(Worker)
    /\ seen = [w \in Worker |-> 0]

-----------------------------------------------------------------------------
(* Finding an object: MarkingTask::pop.                                    *)

\* run(): the object found is visited next.
Visit(w, o) ==
    /\ visit' = [visit EXCEPT ![w] = fields[o]]
    /\ Goto(w, "visit")
    /\ UNCHANGED <<slot, count, target>>

\* pop_local, pop_worker
Pop(w) ==
    /\ pc[w] = "pop"
    /\ \/ /\ local[w] # <<>>
          /\ Visit(w, local[w][Len(local[w])])
          /\ local' = [local EXCEPT ![w] = Front(@)]
          /\ UNCHANGED deque
       \/ /\ local[w] = <<>> /\ deque[w] # <<>>
          /\ Visit(w, deque[w][Len(deque[w])])
          /\ deque' = [deque EXCEPT ![w] = Front(@)]
          /\ UNCHANGED local
       \/ /\ local[w] = <<>> /\ deque[w] = <<>>
          /\ Goto(w, "pop_global")
          /\ UNCHANGED <<local, deque, task>>
    /\ UNCHANGED <<heap, marked, injector, term>>

\* Mutant: the entries taken along with the first one are dropped.
PopGlobalOne(w) ==
    /\ pc[w] = "pop_global"
    /\ IF injector = <<>>
       THEN /\ Goto(w, IF Cardinality(Worker) = 1 THEN "decrease" ELSE "steal")
            /\ UNCHANGED <<injector, deque, task>>
       ELSE \E k \in 1 .. Len(injector) :
            /\ Visit(w, injector[1])
            /\ injector' = SubSeq(injector, k + 1, Len(injector))
            /\ UNCHANGED deque
    /\ UNCHANGED <<heap, marked, local, term>>

\* pop_global: steal_batch_and_pop takes some of the oldest entries, returns
\* one and puts the others into the worker's own deque.
PopGlobal(w) ==
    /\ pc[w] = "pop_global"
    /\ IF injector = <<>>
       THEN /\ Goto(w, IF Cardinality(Worker) = 1 THEN "decrease" ELSE "steal")
            /\ UNCHANGED <<injector, deque, task>>
       ELSE \E k \in 1 .. Len(injector) :
            /\ Visit(w, injector[1])
            /\ deque' = [deque EXCEPT ![w] = @ \o SubSeq(injector, 2, k)]
            /\ injector' = SubSeq(injector, k + 1, Len(injector))
    /\ UNCHANGED <<heap, marked, local, term>>

\* steal: any other worker is tried; how often before giving up is left open.
Steal(w, v) ==
    /\ pc[w] = "steal" /\ v # w
    /\ IF deque[v] = <<>>
       THEN /\ Goto(w, "steal") \/ Goto(w, "decrease")
            /\ UNCHANGED <<deque, task>>
       ELSE \E k \in 1 .. Len(deque[v]) :
            /\ Visit(w, deque[v][1])
            /\ deque' = [deque EXCEPT ![w] = @ \o SubSeq(deque[v], 2, k),
                                      ![v] = SubSeq(@, k + 1, Len(@))]
    /\ UNCHANGED <<heap, marked, injector, local, term>>

-----------------------------------------------------------------------------
(* Visiting an object: trace and defensive_push.                           *)

\* Mutant: the visit ends at the first field that is already marked.
TraceUntilMarked(w) ==
    /\ pc[w] = "visit"
    /\ \/ visit[w] = {} /\ Goto(w, "pop") /\ UNCHANGED task
       \/ \E f \in visit[w] :
          /\ visit' = [visit EXCEPT ![w] = IF f \in marked THEN {} ELSE @ \ {f}]
          /\ slot' = [slot EXCEPT ![w] = f]
          /\ Goto(w, IF f \in marked THEN "visit" ELSE "mark")
          /\ UNCHANGED <<count, target>>
    /\ UNCHANGED <<heap, marked, injector, deque, local, term>>

\* The load of try_mark_non_atomic on some field, or the end of the visit.
Trace(w) ==
    /\ pc[w] = "visit"
    /\ \/ /\ visit[w] = {}
          /\ Goto(w, "pop")
          /\ UNCHANGED task
       \/ \E f \in visit[w] :
          /\ visit' = [visit EXCEPT ![w] = @ \ {f}]
          /\ slot' = [slot EXCEPT ![w] = f]
          /\ Goto(w, IF f \in marked THEN "visit" ELSE "mark")
          /\ UNCHANGED <<count, target>>
    /\ UNCHANGED <<heap, marked, injector, deque, local, term>>

\* Mutant: the capacity of the segment is not looked at.
MarkUnbounded(w) ==
    /\ pc[w] = "mark"
    /\ marked' = marked \union {slot[w]}
    /\ local' = [local EXCEPT ![w] = Append(@, slot[w])]
    /\ Goto(w, "visit")
    /\ UNCHANGED <<heap, injector, deque, task, term>>

\* Its store, and the push to the segment with the start of defensive_push.
Mark(w) ==
    /\ pc[w] = "mark"
    /\ marked' = marked \union {slot[w]}
    /\ IF Len(local[w]) < SEGMENT_SIZE
       THEN LET n == Len(local[w]) + 1
                full == count[w] + 1 > MarkedLimit IN
            /\ local' = [local EXCEPT ![w] = Append(@, slot[w])]
            /\ count' = [count EXCEPT ![w] = IF full THEN 0 ELSE @ + 1]
            /\ target' = [target EXCEPT ![w] = n \div 2]
            /\ Goto(w, IF full /\ n > KeepLocal THEN "hand_back" ELSE "visit")
       ELSE /\ Goto(w, "push")
            /\ UNCHANGED <<local, count, target>>
    /\ UNCHANGED <<heap, injector, deque, visit, slot, term>>

Push(w) ==
    /\ pc[w] = "push"
    /\ deque' = [deque EXCEPT ![w] = Append(@, slot[w])]
    /\ Goto(w, "visit")
    /\ UNCHANGED <<heap, marked, injector, local, task, term>>

\* The loop of defensive_push: half of the segment goes to the injector.
HandBack(w) ==
    /\ pc[w] = "hand_back"
    /\ IF Len(local[w]) > target[w]
       THEN /\ injector' = Append(injector, local[w][Len(local[w])])
            /\ local' = [local EXCEPT ![w] = Front(@)]
            /\ UNCHANGED pc
       ELSE Goto(w, "visit") /\ UNCHANGED <<injector, local>>
    /\ UNCHANGED <<heap, marked, deque, task, term>>

-----------------------------------------------------------------------------
(* Terminator::try_terminate.                                              *)

\* decrease_workers; the last one to come need not wait.
Decrease(w) ==
    /\ pc[w] = "decrease"
    /\ IF Cardinality(Worker) = 1
       THEN Goto(w, "done") /\ UNCHANGED nworkers
       ELSE /\ nworkers' = nworkers - 1
            /\ Goto(w, IF nworkers = 1 THEN "done" ELSE "sleep")
    /\ UNCHANGED <<heap, marked, injector, deque, local, task, seen>>

\* Mutant: a worker that sees only itself gone ends.
WakeTooSoon(w, n) ==
    /\ seen' = [seen EXCEPT ![w] = n]
    /\ Goto(w, IF n <= 1 THEN "done" ELSE "increase")

\* zero_or_increase_workers: what is done with a loaded value
Wake(w, n) ==
    /\ seen' = [seen EXCEPT ![w] = n]
    /\ Goto(w, IF n = 0 THEN "done" ELSE "increase")

LoadWorkers(w) ==
    /\ pc[w] = "sleep"
    /\ Wake(w, nworkers)
    /\ UNCHANGED <<heap, marked, injector, deque, local, task, nworkers>>

\* Its compare-exchange.
Increase(w) ==
    /\ pc[w] = "increase"
    /\ IF nworkers = seen[w]
       THEN nworkers' = nworkers + 1 /\ Goto(w, "pop") /\ UNCHANGED seen
       ELSE Wake(w, nworkers) /\ UNCHANGED nworkers
    /\ UNCHANGED <<heap, marked, injector, deque, local, task>>

-----------------------------------------------------------------------------
Run(w) ==
    \/ Pop(w) \/ PopGlobal(w) \/ (\E v \in Worker : Steal(w, v))
    \/ Trace(w) \/ Mark(w) \/ Push(w) \/ HandBack(w)
    \/ Decrease(w) \/ LoadWorkers(w) \/ Increase(w)

Done == (\A w \in Worker : pc[w] = "done") /\ UNCHANGED vars

Next == (\E w \in Worker : Run(w)) \/ Done

Spec == Init /\ [][Next]_vars

\* The operating system runs every task of the thread pool.
Fairness == \A w \in Worker : WF_vars(Run(w))

-----------------------------------------------------------------------------
(* Properties.                                                             *)

\* Every variable has its declared type, and no segment exceeds the capacity it
\* was created with.
TypeOK ==
    /\ fields \in [Object -> SUBSET Object] /\ roots \in SUBSET Object
    /\ marked \in SUBSET Object
    /\ injector \in Seq(Object)
    /\ deque \in [Worker -> Seq(Object)] /\ local \in [Worker -> Seq(Object)]
    /\ pc \in [Worker ->
                 {"pop", "pop_global", "steal", "visit", "mark", "push",
                  "hand_back", "decrease", "sleep", "increase", "done"}]
    /\ visit \in [Worker -> SUBSET Object] /\ slot \in [Worker -> Object \union {None}]
    /\ count \in [Worker -> Nat] /\ target \in [Worker -> Nat]
    /\ nworkers \in Nat /\ seen \in [Worker -> Nat]
    /\ \A w \in Worker : Len(local[w]) <= SEGMENT_SIZE

\* Tasks that are counted in nworkers.
Active == {w \in Worker : pc[w] \notin {"sleep", "increase", "done"}}

\* Nobody ends while another one works: a task leaves run() only when no task
\* is active and all queues are empty.
EndsTogether ==
    \A w \in Worker : pc[w] = "done" =>
        /\ Active = {} \/ Cardinality(Worker) = 1
        /\ injector = <<>>
        /\ \A v \in Worker : deque[v] = <<>> /\ local[v] = <<>>

World == INSTANCE Tracing WITH finished <- \E w \in Worker : pc[w] = "done"

\* Parallel marking with racing mark bits is a sequential tracing of the heap:
\* only reachable objects are ever marked, and a task that ends leaves no
\* reachable object unmarked.
ImplementsTracing == World!Spec

\* Every reachable object is marked in the end, however tasks are scheduled.
AllMarked == <>[](marked = World!Reachable)
=============================================================================
