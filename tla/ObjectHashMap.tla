---------------------------- MODULE ObjectHashMap ----------------------------
(***************************************************************************)
(* The hash map of vm/waitlists.rs from objects to wait lists: open        *)
(* addressing with linear probing and deleted slots, keyed by the address  *)
(* of the object.  A collection moves objects and updates the keys in      *)
(* place, as they are roots; the table is rehashed at the next access if   *)
(* the collection has advanced Gc.epoch.                                   *)
(*                                                                         *)
(* A step is one critical section of WaitLists (all of them hold its       *)
(* mutex, and none of them reaches a safepoint), or one collection.  A     *)
(* wait list is abstracted to its length; `waiting` is the number of       *)
(* threads that are really queued on each object.                          *)
(***************************************************************************)
EXTENDS Integers, Sequences, FiniteSets, FiniteSetsExt, SequencesExt

CONSTANTS
    Object, Condition,  \* mutexes and conditions; the conditions
    Address,            \* where objects may be
    MIN_CAPACITY,       \* 8 in the code
    MaxThreads,         \* bound on the threads that wait
    MaxEpoch            \* bound on the collections that count

EMPTY == 0
DELETED == 1

ASSUME HashMapAssumption ==
    /\ Condition \subseteq Object
    /\ Address \subseteq Nat \ {EMPTY, DELETED}
    /\ Cardinality(Object) <= Cardinality(Address)
    /\ MIN_CAPACITY \in Nat /\ MIN_CAPACITY >= 4

VARIABLES
    map,        \* the ObjectHashMap
    epoch,      \* Gc.epoch
    addr,       \* the address of each object
    waiting,    \* how many threads wait for each object
    enqueued,   \* the conditions with waiters # 0 at some time
    displaced   \* history: an uncounted collection met a grown table

vars == <<map, epoch, addr, waiting, enqueued, displaced>>

-----------------------------------------------------------------------------
(* The table.  data[i + 1] is the slot with index i.                       *)

Capacity(m) == Len(m.data)
IsLive(m, i) == m.data[i + 1].key > DELETED
IsDeleted(m, i) == m.data[i + 1].key = DELETED
IsEmpty(m, i) == m.data[i + 1].key = EMPTY

\* with_capacity
WithCapacity(capacity) ==
    [data |-> [i \in 1..capacity |-> [key |-> EMPTY, value |-> 0]],
     entries |-> 0, gc_epoch |-> epoch]

Put(m, i, key, value) ==
    [m EXCEPT !.data[i + 1] = [key |-> key, value |-> value]]

\* Mutant: the capacity is not kept a power of two.
CapacityJustFits(entries) == MIN_CAPACITY + (entries * 4) \div 3

\* capacity_for_entries: the least doubling of MIN_CAPACITY that suffices.
CapacityForEntries(entries) ==
    Min({c \in {MIN_CAPACITY * 2^k : k \in 0..entries} :
            entries <= c - c \div 4})

\* The k-th slot that is probed for the key.
Probe(m, key, k) == (key + k) % Capacity(m)

\* The k-th probe ends the search: the key itself, or an empty slot.
Stops(m, key, k) == m.data[Probe(m, key, k) + 1].key \in {key, EMPTY}

\* The search loops for ever unless there is such a probe.
Ends(m, key) == {k \in 0..Capacity(m) - 1 : Stops(m, key, k)} # {}

\* How many probes miss, and the slot at which the search ends.
Misses(m, key) ==
    CHOOSE k \in 0..Capacity(m) - 1 :
        Stops(m, key, k) /\ \A j \in 0..k - 1 : ~ Stops(m, key, j)

Found(m, key) == Probe(m, key, Misses(m, key))


\* Where insert puts a key: the first deleted slot on the way, if any.
InsertSlot(m, key) ==
    LET last == Misses(m, key)
        deleted == {k \in 0..last - 1 : IsDeleted(m, Probe(m, key, k))}
    IN  IF IsLive(m, Probe(m, key, last)) \/ deleted = {}
        THEN Probe(m, key, last) ELSE Probe(m, key, Min(deleted))

\* insert, after maybe_rehash_on_insert
Store(m, key, value) ==
    [Put(m, InsertSlot(m, key), key, value) EXCEPT
        !.entries = IF IsLive(m, Found(m, key)) THEN @ ELSE @ + 1]

\* rehash: the live slots are inserted in order.  The new table has room for
\* them, so these insertions do not rehash.
Rehash(m, capacity) ==
    FoldLeft(LAMBDA table, slot : IF slot.key > DELETED
                                  THEN Store(table, slot.key, slot.value)
                                  ELSE table,
             WithCapacity(capacity), m.data)

InvalidatedByGc(m) == m.gc_epoch # epoch
Overflow(m) == m.entries + 1 > Capacity(m) - Capacity(m) \div 4
Underflow(m) == m.entries < Capacity(m) \div 4

RehashOnGet(m) ==
    IF m.entries # 0 /\ InvalidatedByGc(m) THEN Rehash(m, Capacity(m)) ELSE m

RehashOnInsert(m) ==
    IF InvalidatedByGc(m) \/ Overflow(m)
    THEN Rehash(m, CapacityForEntries(m.entries + 1)) ELSE m

RehashOnRemove(m) ==
    IF InvalidatedByGc(m) \/ Underflow(m)
    THEN Rehash(m, CapacityForEntries(m.entries)) ELSE m

\* get on a table that needs no rehash: the value, or 0 for None
Value(m, key) ==
    IF m.entries = 0 \/ ~ IsLive(m, Found(m, key)) THEN 0
    ELSE m.data[Found(m, key) + 1].value


\* remove, after maybe_rehash_on_remove
Erased(m, key) ==
    IF ~ IsLive(m, Found(m, key)) THEN m
    ELSE [Put(m, Found(m, key), DELETED, 0) EXCEPT !.entries = @ - 1]

-----------------------------------------------------------------------------
(* WaitLists.                                                              *)

Init ==
    /\ epoch = 0
    /\ map = [data |-> << >>, entries |-> 0, gc_epoch |-> 0]
    /\ addr \in {f \in [Object -> Address] : IsInjective(f)}
    /\ waiting = [o \in Object |-> 0]
    /\ enqueued = {}
    /\ displaced = FALSE

\* append_to_waitlist, called by block and enqueue
Append_to_waitlist(o) ==
    LET key == addr[o]
        m == RehashOnGet(map)
        n == RehashOnInsert(m)
    IN  /\ FoldFunction(+, 0, waiting) < MaxThreads
        /\ m.entries # 0 => Ends(m, key)
        /\ Ends(n, key)
        /\ map' = Store(n, key, Value(m, key) + 1)
        /\ waiting' = [waiting EXCEPT ![o] = @ + 1]
        /\ enqueued' = enqueued \union ({o} \intersect Condition)
        /\ UNCHANGED <<epoch, addr, displaced>>

\* wakeup: the entry goes with the last thread of the list.
Wakeup(o) ==
    LET key == addr[o]
        m == RehashOnGet(map)
        removed == RehashOnRemove(m)
        updated == RehashOnInsert(m)
    IN  /\ m.entries # 0 => Ends(m, key)
        /\ \/ Value(m, key) = 0 /\ map' = m /\ UNCHANGED waiting
           \/ /\ Value(m, key) = 1
              /\ Ends(removed, key)
              /\ map' = Erased(removed, key)
              /\ waiting' = [waiting EXCEPT ![o] = @ - 1]
           \/ /\ Value(m, key) > 1
              /\ Ends(updated, key)
              /\ map' = Store(updated, key, Value(m, key) - 1)
              /\ waiting' = [waiting EXCEPT ![o] = @ - 1]
        /\ UNCHANGED <<epoch, addr, enqueued, displaced>>

\* wakeup_all.  notifyAll calls it only if it has seen waiters # 0.
Wakeup_all(o) ==
    LET key == addr[o]
        m == RehashOnRemove(map)
    IN  /\ o \in enqueued
        /\ Ends(m, key)
        /\ map' = Erased(m, key)
        /\ waiting' = [waiting EXCEPT ![o] = @ - m.data[Found(m, key) + 1].value]
        /\ UNCHANGED <<epoch, addr, enqueued, displaced>>

\* A collection moves an object, perhaps to where another one was, and
\* visit_roots has the keys updated.  Several collections in a row make up
\* any other move.
Move(o, to) ==
    LET moved == [p \in Object |-> IF p = o THEN to
                                  ELSE IF addr[p] = to THEN addr[o] ELSE addr[p]]
        From(a) == CHOOSE p \in Object : addr[p] = a
        Updated(slot) == IF slot.key > DELETED
                         THEN [slot EXCEPT !.key = moved[From(slot.key)]]
                         ELSE slot
    IN  /\ addr' = moved
        /\ map' = [map EXCEPT !.data =
                    [i \in DOMAIN map.data |-> Updated(map.data[i])]]
        /\ UNCHANGED <<waiting, enqueued>>

\* Gc::collect
Collect(o, to) ==
    /\ epoch < MaxEpoch
    /\ epoch' = epoch + 1
    /\ Move(o, to)
    /\ UNCHANGED displaced

\* Gc::minor_collect, and the collections of Swiper::alloc and
\* alloc_tlab_area
CollectUncounted(o, to) ==
    /\ displaced' = (displaced \/ Capacity(map) > MIN_CAPACITY)
    /\ UNCHANGED epoch
    /\ Move(o, to)

Next ==
    \E o \in Object :
        \/ Append_to_waitlist(o) \/ Wakeup(o) \/ Wakeup_all(o)
        \/ \E to \in Address : Collect(o, to) \/ CollectUncounted(o, to)

Spec == Init /\ [][Next]_vars

-----------------------------------------------------------------------------
(* Properties.                                                             *)

\* The table is empty or has a power-of-two multiple of MIN_CAPACITY slots, on
\* which masking an address with capacity - 1 relies, and a quarter of them is
\* not in use.
TypeOK ==
    /\ Capacity(map) \in {0} \union {MIN_CAPACITY * 2^k : k \in 0..3}
    /\ map.data \in Seq([key : Address \union {EMPTY, DELETED}, value : Nat])
    /\ map.entries \in 0..Capacity(map) - Capacity(map) \div 4
    /\ map.gc_epoch \in 0..epoch /\ epoch \in 0..MaxEpoch
    /\ addr \in [Object -> Address] /\ IsInjective(addr)
    /\ waiting \in [Object -> Nat]
    /\ enqueued \subseteq Condition

\* get finds the wait list of every object, with all of its threads: no
\* sequence of insertions, removals, rehashes and moves loses a waiter or
\* revives a list.  Excepted are collections that do not advance the epoch
\* although the table has grown: get looks for moved objects in other slots.
LookupExact ==
    LET m == RehashOnGet(map) IN
    ~ displaced =>
    \A o \in Object : m.entries # 0 /\ Ends(m, addr[o])
                        => Value(m, addr[o]) = waiting[o]

=============================================================================
