------------------------------ MODULE CodeSpace ------------------------------
(***************************************************************************)
(* Where compiled code lives: the code space (gc/code.rs), the code        *)
(* objects (vm/code.rs) and the map from addresses to code                 *)
(* (vm/code_map.rs), as the threads that compile use them.                 *)
(*                                                                         *)
(* Addresses are offsets from the start of the reserved region.  The       *)
(* BTreeMap is the sequence of its entries in key order; a search compares *)
(* the key with the entries in that order until one is not smaller.  Keys  *)
(* that overlap are equal to it.                                           *)
(***************************************************************************)
EXTENDS Integers, Sequences

CONSTANTS
    Thread,
    Size,           \* sizes of code objects (object_size in install_code)
    Align,          \* CODE_ALIGNMENT
    ChunkSize,      \* chunk_size
    Total           \* size of the reserved region

\* install_code asserts that object_size is a multiple of CODE_ALIGNMENT.
ASSUME CodeSpaceAssumption ==
    /\ Align \in Nat \ {0} /\ ChunkSize \in Nat \ {0} /\ Total \in Nat
    /\ Size \subseteq {s \in 1 .. Total : s % Align = 0}

VARIABLES
    top, limit,     \* AllocData
    objects,        \* CodeObjects.data; a CodeId is an index
    tree,           \* CodeMap.tree, in order: [start, end, id]
    pc, span, id,   \* of each thread: its step, its code's span and CodeId
    cursor          \* current in drop_all_native_code_objects

local == <<pc, span, id>>
vars  == <<top, limit, objects, tree, local, cursor>>

Span == [start : Nat, end : Nat]
None == [start |-> 0, end |-> 0]

\* mem::align_usize
AlignUp(n, a) == ((n + a - 1) \div a) * a

\* CodeSpan::intersect
Intersect(a, b) ==
    \/ a.start <= b.start /\ b.start < a.end
    \/ a.start < b.end /\ b.end <= a.end
    \/ b.start <= a.start /\ a.end <= b.end

\* CodeSpan::cmp
Cmp(a, b) ==
    IF Intersect(a, b) THEN "Equal"
    ELSE IF a.start >= b.end THEN "Greater" ELSE "Less"

\* A search for key s passes the first k entries and no more.
Passes(s, k) ==
    /\ \A j \in 1 .. k : Cmp(s, tree[j]) = "Greater"
    /\ k < Len(tree) => Cmp(s, tree[k + 1]) # "Greater"

Hits(s, k) == Passes(s, k) /\ k < Len(tree) /\ Cmp(s, tree[k + 1]) = "Equal"

\* CodeMap::get, as the set of its results
Get(p) ==
    {tree[k + 1].id : k \in {j \in 0 .. Len(tree) - 1 :
                                Hits([start |-> p, end |-> p + 1], j)}}

Init ==
    /\ top = 0 /\ limit = 0
    /\ objects = <<>> /\ tree = <<>>
    /\ pc = [t \in Thread |-> "idle"]
    /\ span = [t \in Thread |-> None]
    /\ id = [t \in Thread |-> 0]
    /\ cursor = 0

-----------------------------------------------------------------------------
\* Take aligned bytes for an object of the given size, with the limit raised.
Bump(t, size, aligned, newLimit) ==
    /\ pc[t] = "idle" /\ cursor = 0
    /\ IF newLimit > Total
       THEN pc' = [pc EXCEPT ![t] = "panic"] /\ UNCHANGED <<top, limit, span>>
       ELSE /\ limit' = newLimit
            /\ top' = top + aligned
            /\ span' = [span EXCEPT ![t] = [start |-> top, end |-> top + size]]
            /\ pc' = [pc EXCEPT ![t] = "add"]
    /\ UNCHANGED <<objects, tree, id, cursor>>

\* Mutant: the space grows by one chunk, however much is missing.
AllocOneChunk(t, size) ==
    LET aligned == AlignUp(size, Align)
    IN  Bump(t, size, aligned,
             IF top + aligned > limit THEN limit + ChunkSize ELSE limit)

\* Mutant: the top is not advanced when the space grows.
AllocUnbumped(t, size) ==
    LET aligned == AlignUp(size, Align)
        missing == AlignUp(aligned - (limit - top), ChunkSize)
    IN  IF top + aligned > limit THEN Bump(t, size, 0, limit + missing)
        ELSE Bump(t, size, aligned, limit)

\* Mutant: objects are aligned to whole chunks.
AllocWholeChunk(t, size) ==
    LET aligned == AlignUp(size, ChunkSize)
        missing == AlignUp(aligned - (limit - top), ChunkSize)
    IN  Bump(t, size, aligned,
             IF top + aligned > limit THEN limit + missing ELSE limit)

\* CodeSpace::alloc, called by install_code
Alloc(t, size) ==
    LET aligned == AlignUp(size, Align)
        missing == AlignUp(aligned - (limit - top), ChunkSize)
    IN  Bump(t, size, aligned,
             IF top + aligned > limit THEN limit + missing ELSE limit)

\* CodeObjects::add
Add(t) ==
    /\ pc[t] = "add"
    /\ objects' = Append(objects, span[t])
    /\ id' = [id EXCEPT ![t] = Len(objects) + 1]
    /\ pc' = [pc EXCEPT ![t] = "insert"]
    /\ UNCHANGED <<top, limit, tree, span, cursor>>

\* The entry of thread t behind the first k entries of the tree.
Inserted(t, k) ==
    LET new == [start |-> span[t].start, end |-> span[t].end, id |-> id[t]]
    IN  [i \in 1 .. Len(tree) + 1 |->
            IF i <= k THEN tree[i] ELSE IF i = k + 1 THEN new ELSE tree[i - 1]]

\* The local variables of add_code end with it.
Forget(t) == span' = [span EXCEPT ![t] = None] /\ id' = [id EXCEPT ![t] = 0]

\* Mutant: new code is expected to lie behind all other code.
InsertLast(t) ==
    /\ pc[t] = "insert"
    /\ tree' = Inserted(t, Len(tree))
    /\ pc' = [pc EXCEPT ![t] = "idle"]
    /\ Forget(t)
    /\ UNCHANGED <<top, limit, objects, cursor>>

\* CodeMap::insert; an equal key keeps its place, and the assertion fails.
Insert(t) ==
    /\ pc[t] = "insert"
    /\ \E k \in 0 .. Len(tree) :
          /\ Passes(span[t], k)
          /\ IF Hits(span[t], k)
             THEN /\ tree' = [tree EXCEPT ![k + 1].id = id[t]]
                  /\ pc' = [pc EXCEPT ![t] = "panic"]
             ELSE /\ tree' = Inserted(t, k)
                  /\ pc' = [pc EXCEPT ![t] = "idle"]
    /\ Forget(t)
    /\ UNCHANGED <<top, limit, objects, cursor>>

\* drop_all_native_code_objects at the end of the VM: the object at the cursor
\* is dropped, and its size leads to the next one.
DropObject ==
    /\ \A t \in Thread : pc[t] \in {"idle", "panic"}
    /\ cursor < top
    /\ \E i \in 1 .. Len(objects) :
          /\ objects[i].start = cursor
          /\ cursor' = objects[i].end
    /\ UNCHANGED <<top, limit, objects, tree, local>>

Next ==
    \/ \E t \in Thread : (\E s \in Size : Alloc(t, s)) \/ Add(t) \/ Insert(t)
    \/ DropObject

Spec == Init /\ [][Next]_vars

-----------------------------------------------------------------------------
(* Properties.                                                             *)

\* Every variable has its type, and the space stays in its reservation.
TypeOK ==
    /\ top \in Nat /\ limit \in Nat /\ top <= limit /\ limit <= Total
    /\ objects \in Seq(Span)
    /\ tree \in Seq([start : Nat, end : Nat, id : 1 .. Len(objects)])
    /\ pc \in [Thread -> {"idle", "add", "insert", "panic"}]
    /\ span \in [Thread -> Span] /\ id \in [Thread -> 0 .. Len(objects)]
    /\ cursor \in 0 .. top

Holds(s, p) == s.start <= p /\ p < s.end

Pending == {id[t] : t \in {u \in Thread : pc[u] = "insert"}}

\* A lookup finds nothing but the code object around the address, and it finds
\* every object once its thread has left add_code, in whatever order the
\* threads insert: no return address of finished code is unknown.
LookupExact ==
    \A p \in 0 .. Total - 1 :
        Get(p) = {i \in 1 .. Len(objects) : i \notin Pending /\ Holds(objects[i], p)}

\* The assertion in CodeMap::insert never fails.
InsertsFresh ==
    \A t \in Thread : pc[t] = "insert" =>
        \A k \in 0 .. Len(tree) : ~Hits(span[t], k)

\* drop_all_native_code_objects meets only code objects and ends at the top.
WalkMeetsObjects ==
    cursor > 0 =>
        cursor = top \/ \E i \in 1 .. Len(objects) : objects[i].start = cursor

-----------------------------------------------------------------------------
(* The inductive invariant.                                                *)

Apart(a, b) == a.end <= b.start \/ b.end <= a.start

Adding(t) == pc[t] = "add"

\* Everything handed out lies below the top and apart from everything else.
SpaceInv ==
    /\ \A i \in 1 .. Len(objects) :
          /\ objects[i].start < objects[i].end /\ objects[i].end <= top
          /\ \A j \in 1 .. Len(objects) : i # j => Apart(objects[i], objects[j])
    /\ \A t \in Thread : Adding(t) =>
          /\ span[t].start < span[t].end /\ span[t].end <= top
          /\ \A i \in 1 .. Len(objects) : Apart(objects[i], span[t])
          /\ \A u \in Thread : Adding(u) /\ u # t => Apart(span[t], span[u])

\* The tree is in order and holds the objects that are not being inserted.
MapInv ==
    /\ \A i, j \in 1 .. Len(tree) : i < j => tree[i].end <= tree[j].start
    /\ \A k \in 1 .. Len(tree) :
          /\ objects[tree[k].id].start = tree[k].start
          /\ objects[tree[k].id].end = tree[k].end
          /\ \A t \in Thread : pc[t] = "insert" => id[t] # tree[k].id
    /\ \A i \in 1 .. Len(objects) :
          \/ \E t \in Thread : pc[t] = "insert" /\ id[t] = i
          \/ \E k \in 1 .. Len(tree) : tree[k].id = i
    /\ \A t \in Thread : pc[t] = "insert" =>
          /\ id[t] \in 1 .. Len(objects) /\ objects[id[t]] = span[t]
          /\ \A u \in Thread : pc[u] = "insert" /\ u # t => id[u] # id[t]

\* Address p is the top or the start of something handed out.
Boundary(p) ==
    \/ p = top
    \/ \E i \in 1 .. Len(objects) : objects[i].start = p
    \/ \E t \in Thread : Adding(t) /\ span[t].start = p

\* There are no gaps, and at the end of the VM nobody adds code.
WalkInv ==
    /\ Boundary(0)
    /\ \A i \in 1 .. Len(objects) : Boundary(objects[i].end)
    /\ \A t \in Thread : Adding(t) => Boundary(span[t].end)
    /\ cursor > 0 => /\ \A t \in Thread : pc[t] \in {"idle", "panic"}
                     /\ Boundary(cursor)

Inv == TypeOK /\ SpaceInv /\ MapInv /\ WalkInv
=============================================================================
