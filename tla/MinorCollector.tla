--------------------------- MODULE MinorCollector ---------------------------
(***************************************************************************)
(* The generational heap of Swiper under a running program: eden, two      *)
(* semi-spaces, the old generation with its card table, the minor          *)
(* collector (swiper/minor.rs) and the full collector (swiper/compact.rs). *)
(*                                                                         *)
(* Addresses are numbers, every object takes one of them, and spaces are   *)
(* intervals.  A collection runs while the world is stopped and on one     *)
(* thread; its steps are the loops of the code: all roots, a dirty card,   *)
(* a gray object.  `before` is the heap as the collection found it, and    *)
(* origin[a] the object of that heap that the one at a is a copy of.       *)
(***************************************************************************)
EXTENDS Integers, Sequences, FiniteSets, FiniteSetsExt, SequencesExt

CONSTANTS
    Root, Field,
    EdenSize, SemiSize, OldSize,
    OldLimit,       \* how far a minor collection may fill the old generation
    CardSize

ASSUME SwiperAssumption ==
    /\ EdenSize \in Nat /\ SemiSize \in Nat /\ OldSize \in Nat
    /\ OldLimit \in 0..OldSize
    /\ CardSize \in Nat \ {0}

Null == 0

\* Where the semi-spaces and the old generation start; eden starts at 1.
Semi1 == EdenSize + 1
Semi2 == Semi1 + SemiSize
OldStart == Semi2 + SemiSize
Address == 1..OldStart + OldSize - 1

Young(a) == a # Null /\ a < OldStart
Card(a) == (a - OldStart) \div CardSize

VARIABLES
    heap,       \* roots, memory and allocation pointers
    from,       \* the start of the from-space
    ageMarker,
    dirty,      \* the cards that are dirty
    phase,      \* "mutator" or the collection that is running
    gc,         \* locals of MinorCollector: the next card, scan pointers
    before      \* the roots and the memory when the collection started

vars == <<heap, from, ageMarker, dirty, phase, gc, before>>

To == IF from = Semi1 THEN Semi2 ELSE Semi1
NoFields == [f \in Field |-> Null]
NoMemory == [a \in Address |-> NoFields]
NoOrigin == [a \in Address |-> Null]
NoHeap == [roots |-> [r \in Root |-> Null], mem |-> NoMemory]
NoLocals == [card |-> 0, initOldTop |-> 0, youngScan |-> 0, oldScan |-> 0]

-----------------------------------------------------------------------------
(* Reading and writing slots: <<a, f>> is a field, <<Null, r>> a root.      *)

RootSlots == {Null} \X Root
Slots(a) == {a} \X Field

Read(h, s) ==
    IF s[1] = Null THEN h.roots[s[2]] ELSE h.mem[s[1]][s[2]]

Write(h, s, a) ==
    IF s[1] = Null THEN [h EXCEPT !.roots[s[2]] = a]
    ELSE [h EXCEPT !.mem[s[1]][s[2]] = a]

\* What can be reached from S in at most n steps of Referents.
Closure(S, Referents(_), n) ==
    LET reach[k \in 0..n] ==
            IF k = 0 THEN S \ {Null}
            ELSE LET R == reach[k - 1]
                 IN  R \union (UNION {Referents(x) : x \in R} \ {Null})
    IN  reach[n]

Reachable ==
    Closure(Range(heap.roots), LAMBDA a : Range(heap.mem[a]),
            Cardinality(Address))

\* The objects in the order in which the full collector walks them.
Interval(start, top) == [i \in 1..top - start |-> start + i - 1]

\* Mutant: the from-space is taken to be empty.
WalkWithoutFrom ==
    Interval(OldStart, heap.oldTop) \o Interval(1, heap.edenTop)
        \o Interval(To, heap.youngTop)

WalkOldAndYoung ==
    Interval(OldStart, heap.oldTop) \o Interval(1, heap.edenTop)
        \o Interval(from, heap.fromTop) \o Interval(To, heap.youngTop)

\* The addresses of all objects.
Active == (OldStart..heap.oldTop - 1) \union (1..heap.edenTop - 1)
            \union (from..heap.fromTop - 1) \union (To..heap.youngTop - 1)

-----------------------------------------------------------------------------
(* The program.                                                            *)

Init ==
    /\ heap = [roots |-> [r \in Root |-> Null],
               mem |-> NoMemory, fwd |-> NoOrigin, origin |-> NoOrigin,
               edenTop |-> 1, fromTop |-> Semi2, youngTop |-> Semi1,
               oldTop |-> OldStart, failed |-> FALSE, young |-> FALSE]
    /\ from = Semi2 /\ ageMarker = Semi1
    /\ dirty = {}
    /\ phase = "mutator" /\ gc = NoLocals
    /\ before = NoHeap

\* The program allocates an object and keeps it in a root: in eden, else in
\* the to-space.  When both are full it has to collect first.
Allocate(r) ==
    LET inEden == heap.edenTop <= EdenSize
        a == IF inEden THEN heap.edenTop ELSE heap.youngTop
    IN  /\ phase = "mutator"
        /\ inEden \/ heap.youngTop < To + SemiSize
        /\ heap' = [heap EXCEPT
              !.mem[a] = NoFields, !.roots[r] = a,
              !.edenTop = IF inEden THEN @ + 1 ELSE @,
              !.youngTop = IF inEden THEN @ ELSE @ + 1]
        /\ UNCHANGED <<from, ageMarker, dirty, phase, gc, before>>

\* The write barrier dirties the card of the object; the cards of the young
\* generation are never read.
Barrier(a) == IF Young(a) THEN dirty ELSE dirty \union {Card(a)}

\* The object in r gets the one in q as its field f.
Store(r, f, q) ==
    LET a == heap.roots[r] IN
    /\ phase = "mutator"
    /\ a # Null
    /\ heap' = Write(heap, <<a, f>>, heap.roots[q])
    /\ dirty' = Barrier(a)
    /\ UNCHANGED <<from, ageMarker, phase, gc, before>>

Load(r, q, f) ==
    /\ phase = "mutator"
    /\ heap.roots[q] # Null
    /\ heap' = [heap EXCEPT !.roots[r] = Read(heap, <<heap.roots[q], f>>)]
    /\ UNCHANGED <<from, ageMarker, dirty, phase, gc, before>>

Drop(r) ==
    /\ phase = "mutator"
    /\ heap.roots[r] # Null
    /\ heap' = [heap EXCEPT !.roots[r] = Null]
    /\ UNCHANGED <<from, ageMarker, dirty, phase, gc, before>>

-----------------------------------------------------------------------------
(* MinorCollector: copying one object, and visiting slots.                 *)

\* YoungGen::should_be_promoted: what survived the previous collection.
ShouldBePromoted(a) == a >= Semi1 /\ a < ageMarker

MoveTo(h, a, dest) ==
    [h EXCEPT !.mem[dest] = h.mem[a], !.origin[dest] = h.origin[a],
              !.fwd[a] = dest]

\* The first promotion that finds no space fails the collection.
PromoteObject(h, a) ==
    IF h.oldTop < OldStart + OldLimit
    THEN [MoveTo(h, a, h.oldTop) EXCEPT !.oldTop = @ + 1]
    ELSE [h EXCEPT !.failed = TRUE]


Copy(h, a) ==
    CASE h.fwd[a] # Null \/ h.failed -> h
      [] ShouldBePromoted(a) \/ h.youngTop = To + SemiSize -> PromoteObject(h, a)
      [] OTHER -> [MoveTo(h, a, h.youngTop) EXCEPT !.youngTop = @ + 1]

\* A slot that refers to a young object gets the address of its copy.
\* `young` is ref_to_young_gen: a slot visited still refers to a young object.
VisitSlot(s, h) ==
    LET a == Read(h, s)
        c == Copy(h, a)
        dest == IF c.fwd[a] # Null THEN c.fwd[a] ELSE a
    IN  IF Young(a)
        THEN [Write(c, s, dest) EXCEPT !.young = h.young \/ Young(dest)]
        ELSE h

VisitSlots(h, S) ==
    FoldSet(VisitSlot, [h EXCEPT !.young = FALSE], S)

-----------------------------------------------------------------------------
(* MinorCollector::collect and FullCollector::collect.                     *)

\* Recorded when a collection starts: every object is its own origin, and
\* the graph is what can be reached.
Recorded == [heap EXCEPT !.origin = [a \in Address |-> a]]
Graph == [roots |-> heap.roots,
          mem |-> [a \in Address |-> IF a \in Reachable THEN heap.mem[a]
                                     ELSE NoFields]]

\* swap_semi: what was the to-space is the from-space now, and youngTop is
\* the local young_top.
StartMinor ==
    /\ phase = "mutator"
    /\ phase' = "roots"
    /\ from' = To
    /\ heap' = [Recorded EXCEPT !.fromTop = heap.youngTop, !.youngTop = from]
    /\ before' = Graph
    /\ gc' = [card |-> 0, initOldTop |-> heap.oldTop,
              youngScan |-> from, oldScan |-> heap.oldTop]
    /\ UNCHANGED <<ageMarker, dirty>>

VisitRoots ==
    /\ phase = "roots"
    /\ phase' = "minor"
    /\ heap' = VisitSlots(heap, RootSlots)
    /\ UNCHANGED <<from, ageMarker, dirty, gc, before>>

\* The dirty cards that visit_dirty_in_old has not visited yet.
DirtyCardsLeft ==
    {c \in dirty : c >= gc.card /\ OldStart + c * CardSize < gc.initOldTop}

\* The last card is not cleaned if the old generation ends within it.
IsCardCleaningAllowed(c) == OldStart + (c + 1) * CardSize <= gc.initOldTop

VisitDirtyCard ==
    LET c == Min(DirtyCardsLeft)
        objects == {a \in OldStart..gc.initOldTop - 1 : Card(a) = c}
        visited == VisitSlots(heap, UNION {Slots(a) : a \in objects})
    IN  /\ phase = "minor"
        /\ DirtyCardsLeft # {}
        /\ heap' = visited
        /\ dirty' = IF IsCardCleaningAllowed(c) /\ ~visited.young
                    THEN dirty \ {c} ELSE dirty
        /\ gc' = [gc EXCEPT !.card = c + 1]
        /\ UNCHANGED <<from, ageMarker, phase, before>>

TraceYoungObject ==
    /\ phase = "minor" /\ DirtyCardsLeft = {}
    /\ gc.youngScan < heap.youngTop
    /\ heap' = VisitSlots(heap, Slots(gc.youngScan))
    /\ gc' = [gc EXCEPT !.youngScan = @ + 1]
    /\ UNCHANGED <<from, ageMarker, dirty, phase, before>>


TraceOldObject ==
    /\ phase = "minor" /\ DirtyCardsLeft = {}
    /\ gc.youngScan = heap.youngTop /\ gc.oldScan < heap.oldTop
    /\ heap' = VisitSlots(heap, Slots(gc.oldScan))
    /\ dirty' = IF heap'.young THEN dirty \union {Card(gc.oldScan)} ELSE dirty
    /\ gc' = [gc EXCEPT !.oldScan = @ + 1]
    /\ UNCHANGED <<from, ageMarker, phase, before>>

Traced ==
    /\ phase = "minor" /\ DirtyCardsLeft = {}
    /\ gc.youngScan = heap.youngTop /\ gc.oldScan = heap.oldTop

\* The memory outside `live` is free: nothing there is read again.
Cleared(h, live) ==
    [h EXCEPT !.mem = [a \in Address |-> IF a \in live THEN h.mem[a] ELSE NoFields],
              !.fwd = NoOrigin, !.young = FALSE]

\* The end of collect and YoungGen::minor_success
MinorSuccess ==
    /\ Traced /\ ~heap.failed
    /\ heap' = [Cleared(heap, (To..heap.youngTop - 1)
                                \union (OldStart..heap.oldTop - 1))
                 EXCEPT !.edenTop = 1, !.fromTop = from]
    /\ ageMarker' = heap.youngTop
    /\ phase' = "collected" /\ gc' = NoLocals
    /\ UNCHANGED <<from, dirty, before>>

\* remove_forwarding_pointers and YoungGen::minor_fail; the spaces stay as
\* they are, for the full collection that follows.
MinorFail ==
    /\ Traced /\ heap.failed
    /\ heap' = Cleared(heap, Active)
    /\ phase' = "full" /\ gc' = NoLocals
    /\ UNCHANGED <<from, ageMarker, dirty, before>>

\* Whether the marked objects fit into the old generation (fits_into_heap).
FitsIntoHeap == Cardinality(Reachable) <= OldSize

\* Swiper::collect, and choose_collection_kind for a small young generation.
StartFull ==
    /\ phase = "mutator"
    /\ phase' = "full"
    /\ heap' = Recorded
    /\ before' = Graph
    /\ UNCHANGED <<from, ageMarker, dirty, gc>>

\* All reachable objects are moved to the start of the old generation, in
\* the order of the walk, and every reference follows.
FullCollect ==
    LET Keep(n, a) == IF a \in Reachable THEN Append(n, a) ELSE n
        moved == FoldLeft(Keep, <<>>, WalkOldAndYoung)
        dests == OldStart..OldStart + Len(moved) - 1
        Source(dest) == moved[dest - OldStart + 1]
        Forward(a) == IF a \in Range(moved)
                      THEN CHOOSE dest \in dests : Source(dest) = a ELSE a
        ForwardAll(slots) == [s \in DOMAIN slots |-> Forward(slots[s])]
    IN  /\ phase = "full"
        /\ FitsIntoHeap
        /\ heap' = [heap EXCEPT
              !.roots = ForwardAll(@),
              !.mem = [a \in Address |-> IF a \in dests
                        THEN ForwardAll(heap.mem[Source(a)]) ELSE NoFields],
              !.origin = [a \in Address |-> IF a \in dests
                        THEN heap.origin[Source(a)] ELSE Null],
              !.edenTop = 1, !.fromTop = from, !.youngTop = To,
              !.oldTop = OldStart + Len(moved)]
        /\ dirty' = dirty \ {Card(a) : a \in OldStart..heap.oldTop - 1}
        /\ ageMarker' = To
        /\ phase' = "collected"
        /\ UNCHANGED <<from, gc, before>>

\* The world is resumed.
Resume ==
    /\ phase = "collected"
    /\ phase' = "mutator"
    /\ heap' = [heap EXCEPT !.origin = NoOrigin, !.failed = FALSE]
    /\ before' = NoHeap
    /\ UNCHANGED <<from, ageMarker, dirty, gc>>

\* Trap::OOM ends the program.
OutOfMemory ==
    /\ phase = "full"
    /\ ~FitsIntoHeap
    /\ phase' = "trapped"
    /\ UNCHANGED <<heap, from, ageMarker, dirty, gc, before>>

Next ==
    \/ \E r \in Root : Allocate(r)
    \/ \E r, q \in Root, f \in Field : Store(r, f, q)
    \/ \E r, q \in Root, f \in Field : Load(r, q, f)
    \/ \E r \in Root : Drop(r)
    \/ StartMinor
    \/ VisitRoots
    \/ VisitDirtyCard
    \/ TraceYoungObject
    \/ TraceOldObject
    \/ MinorSuccess
    \/ MinorFail
    \/ StartFull
    \/ FullCollect
    \/ Resume
    \/ OutOfMemory

Spec == Init /\ [][Next]_vars

-----------------------------------------------------------------------------
Origin(a) == IF a = Null THEN Null ELSE heap.origin[a]

\* Every root and every field of a reachable object refers to what it referred
\* to before the collection, and no object is there twice.
SameGraph ==
    /\ \A r \in Root : Origin(heap.roots[r]) = before.roots[r]
    /\ \A a \in Reachable, f \in Field :
          Origin(heap.mem[a][f]) = before.mem[Origin(a)][f]
    /\ \A a, b \in Reachable : Origin(a) = Origin(b) => a = b


\* The same of every collection: after a failed promotion the object that
\* could not be promoted is kept in the young generation, and the full
\* collection that is forced cleans this up (promote_object).
FailureCleanedUp == phase = "collected" => SameGraph


\* While the program runs, and when a full collection takes over from a
\* failed minor one, no reference in a root, in a reachable object or in an
\* object of the old generation leads out of the memory in use
\* (FullCollector::walk_old_and_young, YoungGen::minor_fail).
HeapIntact ==
    phase \in {"mutator", "full"} =>
        /\ Reachable \subseteq Active
        /\ \A a \in OldStart..heap.oldTop - 1, f \in Field :
              heap.mem[a][f] \in Active \union {Null}
=============================================================================
