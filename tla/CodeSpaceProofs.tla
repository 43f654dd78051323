--------------------------- MODULE CodeSpaceProofs ---------------------------
(***************************************************************************)
(* Inv of CodeSpace is inductive, and lookups in the code map are exact,   *)
(* for any number of threads and any sizes.                                *)
(***************************************************************************)
EXTENDS CodeSpace, SequenceTheorems, TLAPS

-----------------------------------------------------------------------------
(* Alignment and the order of spans.                                       *)

\* What a division leaves is less than the divisor.
LEMMA Division ==
    ASSUME NEW m \in Nat, NEW a \in Nat \ {0}
    PROVE  /\ m \div a \in Nat /\ (m \div a) * a \in Nat
           /\ m < (m \div a) * a + a
  OBVIOUS

\* align_usize rounds up.
LEMMA AlignUpLarger ==
    ASSUME NEW n \in Nat, NEW a \in Nat \ {0}
    PROVE  AlignUp(n, a) \in Nat /\ n <= AlignUp(n, a)
<1> DEFINE m == n + a - 1
<1>1. m \in Nat
  OBVIOUS
<1>2. (m \div a) * a \in Nat /\ m < (m \div a) * a + a
  BY <1>1, Division
<1> QED BY <1>2 DEF AlignUp

\* align_usize keeps what is aligned.
LEMMA AlignUpSame ==
    ASSUME NEW n \in Nat, NEW a \in Nat \ {0}, n % a = 0
    PROVE  AlignUp(n, a) = n
<1> DEFINE k == n \div a
<1>1. k \in Nat /\ n = k * a
  OBVIOUS
<1> HIDE DEF k
<1>2. (k * a + a - 1) \div a = k
  BY <1>1
<1> QED BY <1>1, <1>2 DEF AlignUp

\* A one-byte key equals exactly the spans around the byte, and it is greater
\* than the spans before it.
LEMMA CmpByte ==
    ASSUME NEW p \in Nat, NEW b \in Span, b.start < b.end
    PROVE  /\ Cmp([start |-> p, end |-> p + 1], b) = "Equal" <=> Holds(b, p)
           /\ Cmp([start |-> p, end |-> p + 1], b) = "Greater" <=> b.end <= p
  BY DEF Cmp, Intersect, Holds, Span

\* Spans are compared by their place; they are equal when they overlap.
LEMMA CmpSpans ==
    ASSUME NEW a \in Span, NEW b \in Span, a.start < a.end, b.start < b.end
    PROVE  /\ Cmp(a, b) = "Greater" <=> b.end <= a.start
           /\ Cmp(a, b) = "Less" <=> a.end <= b.start
           /\ Cmp(a, b) = "Equal" <=> ~Apart(a, b)
  BY DEF Cmp, Intersect, Apart, Span

-----------------------------------------------------------------------------
(* Every action preserves the invariant.                                   *)

USE DEF Adding, Apart, local

\* What alloc does when it does not run out of memory.
LEMMA Bumped ==
    ASSUME Inv, NEW t \in Thread, NEW s \in Size, Alloc(t, s)
    PROVE  /\ pc[t] = "idle" /\ cursor = 0
           /\ UNCHANGED <<objects, tree, id, cursor>>
           /\ \/ UNCHANGED <<top, limit, span>> /\ pc' = [pc EXCEPT ![t] = "panic"]
              \/ /\ s \in Nat \ {0} /\ top' = top + s
                 /\ limit' \in Nat /\ top' <= limit' /\ limit' <= Total
                 /\ span' = [span EXCEPT ![t] = [start |-> top, end |-> top + s]]
                 /\ pc' = [pc EXCEPT ![t] = "add"]
<1>1. s \in Nat \ {0} /\ s % Align = 0 /\ Align \in Nat \ {0} /\ ChunkSize \in Nat \ {0}
  BY CodeSpaceAssumption
<1>2. AlignUp(s, Align) = s
  BY <1>1, AlignUpSame
<1> DEFINE missing == AlignUp(s - (limit - top), ChunkSize)
           newLimit == IF top + s > limit THEN limit + missing ELSE limit
<1>3. newLimit \in Nat /\ top + s <= newLimit
  <2>1. CASE top + s > limit
    <3>1. s - (limit - top) \in Nat
      BY <1>1, <2>1 DEF Inv, TypeOK
    <3>2. missing \in Nat /\ s - (limit - top) <= missing
      BY <1>1, <3>1, AlignUpLarger
    <3> HIDE DEF missing
    <3> QED BY <1>1, <2>1, <3>2 DEF Inv, TypeOK
  <2>2. CASE ~(top + s > limit)
    BY <1>1, <2>2 DEF Inv, TypeOK
  <2> QED BY <2>1, <2>2
<1>4. Bump(t, s, s, newLimit)
  BY <1>2 DEF Alloc
<1> HIDE DEF newLimit
<1> QED BY <1>1, <1>3, <1>4, CodeSpaceAssumption DEF Bump, Inv, TypeOK

\* MapInv speaks of a thread only while it is inserting.
LEMMA MapFrame ==
    ASSUME MapInv, UNCHANGED <<objects, tree>>,
           \A u \in Thread : /\ pc'[u] = "insert" <=> pc[u] = "insert"
                             /\ pc[u] = "insert" => UNCHANGED <<id[u], span[u]>>
    PROVE  MapInv'
<1>1. \A k \in 1 .. Len(tree) : \A t \in Thread :
         pc'[t] = "insert" => id'[t] # tree[k].id
  BY DEF MapInv
<1>2. \A i \in 1 .. Len(objects) :
         \/ \E t \in Thread : pc'[t] = "insert" /\ id'[t] = i
         \/ \E k \in 1 .. Len(tree) : tree[k].id = i
  BY DEF MapInv
<1>3. \A t \in Thread : pc'[t] = "insert" =>
         /\ id'[t] \in 1 .. Len(objects) /\ objects[id'[t]] = span'[t]
         /\ \A u \in Thread : pc'[u] = "insert" /\ u # t => id'[u] # id'[t]
  BY DEF MapInv
<1> QED BY <1>1, <1>2, <1>3, ZenonT(30) DEF MapInv

\* Spans of objects and threads are pairs of numbers.
LEMMA Spans ==
    ASSUME TypeOK
    PROVE  /\ Len(objects) \in Nat /\ Len(tree) \in Nat /\ top \in Nat
           /\ \A i \in 1 .. Len(objects) :
                 objects[i] \in Span /\ objects[i].start \in Nat /\ objects[i].end \in Nat
           /\ \A t \in Thread :
                 span[t] \in Span /\ span[t].start \in Nat /\ span[t].end \in Nat
           /\ \A k \in 1 .. Len(tree) :
                 /\ tree[k].start \in Nat /\ tree[k].end \in Nat
                 /\ tree[k].id \in 1 .. Len(objects)
<1>1. \A i \in 1 .. Len(objects) : objects[i] \in Span
  BY DEF TypeOK
<1>2. \A k \in 1 .. Len(tree) :
         tree[k] \in [start : Nat, end : Nat, id : 1 .. Len(objects)]
  <2> DEFINE Entry == [start : Nat, end : Nat, id : 1 .. Len(objects)]
  <2>1. tree \in Seq(Entry)
    BY DEF TypeOK
  <2> HIDE DEF Entry
  <2>2. \A k \in 1 .. Len(tree) : tree[k] \in Entry
    BY <2>1
  <2> QED BY <2>2 DEF Entry
<1>3. \A t \in Thread : span[t] \in Span
  BY DEF TypeOK
<1>4. Len(objects) \in Nat /\ Len(tree) \in Nat /\ top \in Nat
  BY DEF TypeOK
<1> QED BY <1>1, <1>2, <1>3, <1>4 DEF Span

\* An entry of the map is a code object that no thread is inserting.
LEMMA Entries ==
    ASSUME Inv, NEW k \in 1 .. Len(tree)
    PROVE  /\ tree[k].id \in 1 .. Len(objects)
           /\ objects[tree[k].id].start = tree[k].start
           /\ objects[tree[k].id].end = tree[k].end
           /\ tree[k].start < tree[k].end
           /\ \A t \in Thread : pc[t] = "insert" => id[t] # tree[k].id
<1>1. tree[k].id \in 1 .. Len(objects)
  BY Spans DEF Inv
<1>2. /\ objects[tree[k].id].start = tree[k].start
      /\ objects[tree[k].id].end = tree[k].end
      /\ \A t \in Thread : pc[t] = "insert" => id[t] # tree[k].id
  BY DEF Inv, MapInv
<1>3. objects[tree[k].id].start < objects[tree[k].id].end
  BY <1>1 DEF Inv, SpaceInv
<1> QED BY <1>1, <1>2, <1>3

LEMMA AllocPreserves ==
    ASSUME Inv, NEW t \in Thread, NEW s \in Size, Alloc(t, s)
    PROVE  Inv'
<1> USE DEF Inv
<1>1. CASE /\ UNCHANGED <<objects, tree, id, cursor, top, limit, span>>
           /\ pc[t] = "idle" /\ pc' = [pc EXCEPT ![t] = "panic"]
  <2>1. /\ pc'[t] = "panic"
        /\ \A u \in Thread : u # t => pc'[u] = pc[u]
    BY <1>1 DEF TypeOK
  <2>2. TypeOK'
    BY <1>1 DEF TypeOK
  <2>3. SpaceInv'
    BY <1>1, <2>1 DEF SpaceInv
  <2>4. MapInv'
    BY <1>1, <2>1, MapFrame
  <2>5. \A p : Boundary(p) => Boundary(p)'
    BY <1>1, <2>1 DEF Boundary
  <2>6. WalkInv'
    BY <1>1, <2>1, <2>5 DEF WalkInv
  <2> QED BY <2>2, <2>3, <2>4, <2>6
<1>2. CASE /\ UNCHANGED <<objects, tree, id, cursor>>
           /\ pc[t] = "idle" /\ cursor = 0
           /\ s \in Nat \ {0} /\ top' = top + s
           /\ limit' \in Nat /\ top' <= limit' /\ limit' <= Total
           /\ span' = [span EXCEPT ![t] = [start |-> top, end |-> top + s]]
           /\ pc' = [pc EXCEPT ![t] = "add"]
  <2>1. /\ span'[t] = [start |-> top, end |-> top'] /\ pc'[t] = "add"
        /\ \A u \in Thread : u # t => span'[u] = span[u] /\ pc'[u] = pc[u]
    BY <1>2 DEF TypeOK
  <2>2. TypeOK'
    BY <1>2 DEF TypeOK, Span
  <2>3. SpaceInv'
    <3>1. top \in Nat /\ top < top'
      BY <1>2 DEF TypeOK
    <3>2. ASSUME NEW i \in 1 .. Len(objects)
          PROVE  /\ objects[i].start < objects[i].end /\ objects[i].end <= top'
                 /\ Apart(objects[i], span'[t])
      <4>1. objects[i].start < objects[i].end /\ objects[i].end <= top
        BY DEF SpaceInv
      <4> QED BY SMTT(60), <1>2, <2>1, <3>1, <4>1, Spans
    <3>3. ASSUME NEW u \in Thread, Adding(u), u # t
          PROVE  /\ span[u].start < span[u].end /\ span[u].end <= top'
                 /\ Apart(span[u], span'[t]) /\ Apart(span'[t], span[u])
      <4>1. span[u].start < span[u].end /\ span[u].end <= top
        BY <3>3 DEF SpaceInv
      <4> QED BY <1>2, <2>1, <3>1, <4>1, Spans
    <3> QED BY <1>2, <2>1, <3>1, <3>2, <3>3 DEF SpaceInv
  <2>4. MapInv'
    BY <1>2, <2>1, MapFrame
  <2>5. \A p : Boundary(p) \/ p = top' => Boundary(p)'
    BY <1>2, <2>1 DEF Boundary
  <2>6. WalkInv'
    BY <1>2, <2>1, <2>5 DEF WalkInv
  <2> QED BY <2>2, <2>3, <2>4, <2>6
<1> QED BY <1>1, <1>2, Bumped

\* The new object takes over the place of the thread's span.
LEMMA AddPreserves ==
    ASSUME Inv, NEW t \in Thread, Add(t)
    PROVE  Inv'
<1> USE DEF Inv
<1> DEFINE n == Len(objects)
<1>1. /\ pc[t] = "add" /\ pc'[t] = "insert" /\ id'[t] = n + 1
      /\ \A u \in Thread : u # t => pc'[u] = pc[u] /\ id'[u] = id[u]
      /\ UNCHANGED <<top, limit, tree, span, cursor>>
  BY DEF Add, TypeOK
<1>2. /\ n \in Nat /\ objects' \in Seq(Span) /\ Len(objects') = n + 1
      /\ objects'[n + 1] = span[t]
      /\ \A i \in 1 .. n : objects'[i] = objects[i]
  BY AppendProperties DEF Add, TypeOK
<1>3. TypeOK'
  <2>1. tree' \in Seq([start : Nat, end : Nat, id : 1 .. n + 1])
    <3> DEFINE Old == [start : Nat, end : Nat, id : 1 .. n]
               New == [start : Nat, end : Nat, id : 1 .. n + 1]
    <3>1. Old \subseteq New
      BY <1>2
    <3>2. tree \in Seq(Old)
      BY DEF TypeOK
    <3> HIDE DEF Old, New
    <3>3. tree \in Seq(New)
      BY <3>1, <3>2
    <3> QED BY <1>1, <3>3 DEF New
  <2>2. id' \in [Thread -> 0 .. n + 1]
    BY <1>2 DEF Add, TypeOK
  <2>3. pc' \in [Thread -> {"idle", "add", "insert", "panic"}]
    BY DEF Add, TypeOK
  <2> HIDE DEF n
  <2> QED BY <1>1, <1>2, <2>1, <2>2, <2>3 DEF TypeOK
<1> HIDE DEF n
<1>4. 1 .. Len(objects') = (1 .. n) \union {n + 1}
  BY <1>2
<1>5. SpaceInv'
  <2>1. /\ span[t].start < span[t].end /\ span[t].end <= top
        /\ \A i \in 1 .. n : Apart(objects[i], span[t])
        /\ \A u \in Thread : Adding(u) /\ u # t => Apart(span[t], span[u])
    BY <1>1 DEF SpaceInv, n
  <2>2. \A i \in 1 .. n :
           /\ objects[i].start < objects[i].end /\ objects[i].end <= top
           /\ \A j \in 1 .. n : i # j => Apart(objects[i], objects[j])
    BY DEF SpaceInv, n
  <2>3. ASSUME NEW i \in 1 .. Len(objects')
        PROVE  /\ objects'[i].start < objects'[i].end /\ objects'[i].end <= top'
               /\ \A j \in 1 .. Len(objects') : i # j => Apart(objects'[i], objects'[j])
    BY <1>1, <1>2, <1>4, <2>1, <2>2
  <2>4. ASSUME NEW u \in Thread, Adding(u)'
        PROVE  /\ span'[u].start < span'[u].end /\ span'[u].end <= top'
               /\ \A i \in 1 .. Len(objects') : Apart(objects'[i], span'[u])
               /\ \A v \in Thread : Adding(v)' /\ v # u => Apart(span'[u], span'[v])
    <3>1. u # t /\ Adding(u)
      BY <1>1, <2>4
    <3>2. /\ span[u].start < span[u].end /\ span[u].end <= top
          /\ \A i \in 1 .. n : Apart(objects[i], span[u])
          /\ \A v \in Thread : Adding(v) /\ v # u => Apart(span[u], span[v])
      BY <3>1, SMTT(60) DEF SpaceInv, n
    <3> QED BY <1>1, <1>2, <1>4, <2>1, <3>1, <3>2
  <2> QED BY <2>3, <2>4 DEF SpaceInv
<1>6. MapInv'
  <2>1. \A k \in 1 .. Len(tree) : tree[k].id \in 1 .. n
    BY Spans, SMTT(60) DEF n
  <2>2. \A u \in Thread : pc[u] = "insert" => id[u] \in 1 .. n
    BY DEF MapInv, n
  <2>3. UNCHANGED tree
    BY SMTT(60), <1>1
  <2>4. \A k \in 1 .. Len(tree) :
           /\ objects'[tree[k].id].start = tree[k].start
           /\ objects'[tree[k].id].end = tree[k].end
           /\ \A u \in Thread : pc'[u] = "insert" => id'[u] # tree[k].id
    <3> TAKE k \in 1 .. Len(tree)
    <3>1. tree[k].id # n + 1 /\ objects'[tree[k].id] = objects[tree[k].id]
      BY <1>2, <2>1
    <3> QED BY <1>1, <3>1, Entries
  <2>5. ASSUME NEW i \in 1 .. Len(objects')
        PROVE  \/ \E u \in Thread : pc'[u] = "insert" /\ id'[u] = i
               \/ \E k \in 1 .. Len(tree) : tree[k].id = i
    <3>1. CASE i = n + 1
      BY <1>1, <3>1
    <3>2. CASE i \in 1 .. n
      <4>1. \/ \E u \in Thread : pc[u] = "insert" /\ id[u] = i
            \/ \E k \in 1 .. Len(tree) : tree[k].id = i
        BY <3>2 DEF MapInv, n
      <4> QED BY <1>1, <4>1
    <3> QED BY <1>4, <3>1, <3>2
  <2>6. ASSUME NEW u \in Thread, pc'[u] = "insert"
        PROVE  /\ id'[u] \in 1 .. Len(objects') /\ objects'[id'[u]] = span'[u]
               /\ \A v \in Thread : pc'[v] = "insert" /\ v # u => id'[v] # id'[u]
    <3>1. CASE u = t
      BY <1>1, <1>2, <1>4, <2>2, <3>1
    <3>2. CASE u # t
      BY <1>1, <1>2, <1>4, <2>2, <2>6, <3>2, SMTT(30) DEF MapInv
    <3> QED BY <3>1, <3>2
  <2>7. \A i, j \in 1 .. Len(tree) : i < j => tree[i].end <= tree[j].start
    BY DEF MapInv
  <2> QED BY <2>3, <2>4, <2>5, <2>6, <2>7 DEF MapInv
<1>7. \A p : Boundary(p) => Boundary(p)'
  BY <1>1, <1>2, <1>4 DEF Boundary, n
<1>8. WalkInv'
  BY <1>1, <1>2, <1>4, <1>7 DEF WalkInv, n
<1> QED BY <1>3, <1>5, <1>6, <1>8

\* The code a thread is about to insert overlaps no code in the map.
LEMMA Fresh ==
    ASSUME Inv, NEW t \in Thread, pc[t] = "insert", NEW k \in 1 .. Len(tree)
    PROVE  /\ Cmp(span[t], tree[k]) # "Equal"
           /\ Cmp(span[t], tree[k]) = "Greater" => tree[k].end <= span[t].start
           /\ Cmp(span[t], tree[k]) # "Greater" => span[t].end <= tree[k].start
<1> DEFINE a == span[t]
           b == objects[tree[k].id]
<1>1. /\ a = objects[id[t]] /\ id[t] \in 1 .. Len(objects) /\ id[t] # tree[k].id
      /\ b.start = tree[k].start /\ b.end = tree[k].end
  BY DEF Inv, MapInv
<1>2. tree[k].id \in 1 .. Len(objects)
  BY Spans DEF Inv
<1>3. a \in Span /\ b \in Span
  BY <1>2, Spans DEF Inv
<1>4. a.start < a.end /\ b.start < b.end /\ Apart(a, b)
  BY <1>1, <1>2, SMTT(30) DEF Inv, SpaceInv
<1>5. Cmp(a, tree[k]) = Cmp(a, b)
  BY <1>1 DEF Cmp, Intersect
<1> HIDE DEF a, b
<1>6. /\ Cmp(a, b) # "Equal"
      /\ Cmp(a, b) = "Greater" => b.end <= a.start
      /\ Cmp(a, b) # "Greater" => a.end <= b.start
  BY <1>3, <1>4, CmpSpans DEF Span
<1> QED BY <1>1, <1>5, <1>6 DEF a

\* The assertion in CodeMap::insert never fails.
LEMMA InvInsertsFresh == Inv => InsertsFresh
<1> SUFFICES ASSUME Inv, NEW t \in Thread, pc[t] = "insert",
                    NEW k \in 0 .. Len(tree), Hits(span[t], k)
             PROVE  FALSE
  BY DEF InsertsFresh
<1>1. k + 1 \in 1 .. Len(tree) /\ Cmp(span[t], tree[k + 1]) = "Equal"
  BY Spans DEF Hits, Inv
<1> QED BY <1>1, Fresh

LEMMA InsertPreserves ==
    ASSUME Inv, NEW t \in Thread, Insert(t)
    PROVE  Inv'
<1> USE DEF Inv
<1> DEFINE n == Len(tree)
           new == [start |-> span[t].start, end |-> span[t].end, id |-> id[t]]
<1>1. PICK k \in 0 .. n :
         /\ Passes(span[t], k) /\ tree' = Inserted(t, k)
         /\ pc' = [pc EXCEPT ![t] = "idle"]
  BY InvInsertsFresh DEF Insert, InsertsFresh
<1>2. /\ pc[t] = "insert" /\ UNCHANGED <<top, limit, objects, cursor>>
      /\ span' = [span EXCEPT ![t] = None] /\ id' = [id EXCEPT ![t] = 0]
  BY DEF Insert, Forget
<1>3. /\ pc'[t] = "idle"
      /\ \A u \in Thread : u # t => UNCHANGED <<pc[u], span[u], id[u]>>
  BY <1>1, <1>2 DEF TypeOK
<1>4. /\ id[t] \in 1 .. Len(objects) /\ objects[id[t]] = span[t]
      /\ \A u \in Thread : pc[u] = "insert" /\ u # t => id[u] # id[t]
      /\ \A i \in 1 .. n : tree[i].id # id[t]
  BY <1>2, SMTT(60) DEF MapInv
<1>5. /\ n \in Nat /\ Len(tree') = n + 1 /\ DOMAIN tree' = 1 .. n + 1
      /\ \A i \in 1 .. k : tree'[i] = tree[i]
      /\ tree'[k + 1] = new
      /\ \A i \in k + 2 .. n + 1 : tree'[i] = tree[i - 1]
  BY <1>1, Spans DEF Inserted
<1>6. TypeOK'
  <2> DEFINE Entry == [start : Nat, end : Nat, id : 1 .. Len(objects)]
  <2>1. tree \in Seq(Entry)
    BY DEF TypeOK
  <2>2. new \in Entry
    BY <1>4, Spans
  <2> HIDE DEF Entry, new
  <2>3. \A i \in 1 .. n + 1 : tree'[i] \in Entry
    BY <1>5, <2>1, <2>2
  <2>4. tree' = [i \in 1 .. n + 1 |-> tree'[i]]
    BY <1>1 DEF Inserted
  <2>5. tree' \in Seq(Entry)
    BY <1>5, <2>3, <2>4
  <2>6. tree' \in Seq([start : Nat, end : Nat, id : 1 .. Len(objects')])
    BY <1>2, <2>5 DEF Entry
  <2>7. pc' \in [Thread -> {"idle", "add", "insert", "panic"}]
    BY <1>1 DEF TypeOK
  <2>8. span' \in [Thread -> Span] /\ id' \in [Thread -> 0 .. Len(objects')]
    BY <1>2, Spans DEF TypeOK, Span, None
  <2> QED BY <1>2, <2>6, <2>7, <2>8 DEF TypeOK
<1> HIDE DEF n
<1>7. SpaceInv'
  BY <1>2, <1>3, SMTT(60) DEF SpaceInv
<1>8. /\ \A i \in 1 .. k : tree[i].end <= span[t].start
      /\ k < n => span[t].end <= tree[k + 1].start
  BY <1>1, <1>2, <1>5, Fresh, SMTT(60) DEF Passes, n
<1>9. MapInv'
  <2>1. ASSUME NEW i \in 1 .. n + 1, NEW j \in 1 .. n + 1, i < j
        PROVE  tree'[i].end <= tree'[j].start
    <3>1. \A x, y \in 1 .. n : x < y => tree[x].end <= tree[y].start
      BY DEF MapInv, n
    <3>2. CASE j <= k
      BY <1>5, <2>1, <3>1, <3>2, SMTT(30)
    <3>3. CASE j = k + 1
      BY <1>5, <1>8, <2>1, <3>3
    <3>4. CASE k + 1 < j /\ i <= k
      BY <1>5, <2>1, <3>1, <3>4
    <3>5. CASE i = k + 1
      <4>1. k < n /\ tree'[i].end = span[t].end /\ tree'[j] = tree[j - 1]
        BY <1>5, <2>1, <3>5
      <4>2. CASE j = k + 2
        BY <1>5, <1>8, <4>1, <4>2
      <4>3. CASE k + 2 < j
        <5>1. tree[k + 1].end <= tree[j - 1].start
          BY <1>5, <2>1, <3>1, <4>1, <4>3
        <5>2. k + 1 \in 1 .. n /\ j - 1 \in 1 .. n
          BY <1>5, <2>1, <4>1, <4>3
        <5>3. /\ tree[k + 1].start < tree[k + 1].end
              /\ tree[k + 1].start \in Nat /\ tree[k + 1].end \in Nat
              /\ tree[j - 1].start \in Nat /\ span[t].end \in Nat
          BY <5>2, Entries, Spans DEF n
        <5> QED BY <1>8, <4>1, <5>1, <5>3
      <4> QED BY <1>5, <2>1, <3>5, <4>2, <4>3
    <3>6. CASE k + 1 < i
      <4>1. tree'[i] = tree[i - 1] /\ tree'[j] = tree[j - 1]
        BY <1>5, <2>1, <3>6
      <4>2. i - 1 \in 1 .. n /\ j - 1 \in 1 .. n /\ i - 1 < j - 1
        BY <1>5, <2>1, <3>6
      <4> QED BY <3>1, <4>1, <4>2
    <3> QED BY SMTT(60), <1>5, <2>1, <3>2, <3>3, <3>4, <3>5, <3>6
  <2>2. ASSUME NEW i \in 1 .. n + 1
        PROVE  /\ objects[tree'[i].id].start = tree'[i].start
               /\ objects[tree'[i].id].end = tree'[i].end
               /\ \A u \in Thread : pc'[u] = "insert" => id'[u] # tree'[i].id
    <3>1. CASE i = k + 1
      BY <1>3, <1>4, <1>5, <3>1
    <3>2. CASE i # k + 1
      <4>1. PICK j \in 1 .. n : tree'[i] = tree[j]
        <5>1. CASE i <= k
          BY <1>5, <5>1
        <5>2. CASE k + 1 < i
          <6>1. i - 1 \in 1 .. n /\ tree'[i] = tree[i - 1]
            BY <1>5, <5>2
          <6> QED BY <6>1
        <5> QED BY <1>5, <3>2, <5>1, <5>2
      <4> QED BY <1>3, <4>1, Entries, SMTT(30) DEF n
    <3> QED BY <3>1, <3>2
  <2>3. ASSUME NEW i \in 1 .. Len(objects)
        PROVE  \/ \E u \in Thread : pc'[u] = "insert" /\ id'[u] = i
               \/ \E j \in 1 .. n + 1 : tree'[j].id = i
    <3>1. ASSUME NEW j \in 1 .. n, tree[j].id = i
          PROVE  \E l \in 1 .. n + 1 : tree'[l].id = i
      <4>1. CASE j <= k
        BY <1>5, <3>1, <4>1
      <4>2. CASE k < j
        <5>1. j + 1 \in 1 .. n + 1 /\ tree'[j + 1] = tree[j]
          BY <1>5, <4>2
        <5> QED BY <3>1, <5>1
      <4> QED BY <1>5, <4>1, <4>2
    <3>2. CASE \E u \in Thread : pc[u] = "insert" /\ id[u] = i
      BY SMTT(60), <1>3, <1>5, <3>2
    <3> QED BY <3>1, <3>2 DEF MapInv, n
  <2>4. ASSUME NEW u \in Thread, pc'[u] = "insert"
        PROVE  /\ id'[u] \in 1 .. Len(objects) /\ objects[id'[u]] = span'[u]
               /\ \A v \in Thread : pc'[v] = "insert" /\ v # u => id'[v] # id'[u]
    BY <1>3, <2>4, SMTT(60) DEF MapInv
  <2> QED BY <1>2, <1>5, <2>1, <2>2, <2>3, <2>4, SMTT(60) DEF MapInv
<1>10. \A p : Boundary(p) => Boundary(p)'
  BY <1>2, <1>3, SMTT(60) DEF Boundary
<1>11. WalkInv'
  BY <1>2, <1>3, <1>10 DEF WalkInv
<1> QED BY <1>6, <1>7, <1>9, <1>11

\* Behind an object is the next one, or the top.
LEMMA DropPreserves ==
    ASSUME Inv, DropObject
    PROVE  Inv'
<1> USE DEF Inv
<1>1. PICK i \in 1 .. Len(objects) : cursor' = objects[i].end
  BY DEF DropObject
<1>2. /\ \A t \in Thread : pc[t] \in {"idle", "panic"}
      /\ UNCHANGED <<top, limit, objects, tree, pc, span, id>>
  BY DEF DropObject
<1>3. cursor' \in 0 .. top
  BY <1>1, Spans DEF SpaceInv
<1>4. TypeOK'
  BY <1>2, <1>3 DEF TypeOK
<1>5. SpaceInv'
  BY <1>2 DEF SpaceInv
<1>6. MapInv'
  BY <1>2, MapFrame
<1>7. \A p : Boundary(p) => Boundary(p)'
  BY <1>2 DEF Boundary
<1>8. WalkInv'
  BY <1>1, <1>2, <1>7 DEF WalkInv
<1> QED BY <1>4, <1>5, <1>6, <1>8

\* The inductive invariant holds throughout, for any threads and sizes.
THEOREM Invariance == Spec => []Inv
<1>1. Init => Inv
  <2> SUFFICES ASSUME Init PROVE Inv
    OBVIOUS
  <2>1. TypeOK
    BY CodeSpaceAssumption DEF Init, TypeOK, Span, None
  <2>2. SpaceInv /\ MapInv
    BY DEF Init, SpaceInv, MapInv
  <2>3. WalkInv
    BY DEF Init, WalkInv, Boundary
  <2> QED BY <2>1, <2>2, <2>3 DEF Inv
<1>2. Inv /\ [Next]_vars => Inv'
  <2> SUFFICES ASSUME Inv, [Next]_vars PROVE Inv'
    OBVIOUS
  <2>1. CASE Next
    BY <2>1, AllocPreserves, AddPreserves, InsertPreserves, DropPreserves DEF Next
  <2>2. CASE UNCHANGED vars
    <3>1. TypeOK'
      BY <2>2 DEF Inv, TypeOK, vars
    <3>2. SpaceInv'
      BY <2>2 DEF Inv, SpaceInv, vars
    <3>3. MapInv'
      BY <2>2, MapFrame, SMTT(60) DEF Inv, vars
    <3>4. WalkInv'
      <4>1. \A p : Boundary(p) => Boundary(p)'
        BY <2>2 DEF Boundary, vars
      <4> QED BY <2>2, <4>1 DEF Inv, WalkInv, vars
    <3> QED BY <3>1, <3>2, <3>3, <3>4 DEF Inv
  <2> QED BY <2>1, <2>2
<1> QED BY <1>1, <1>2, PTL DEF Spec

-----------------------------------------------------------------------------
(* What follows from the invariant.                                        *)

\* The code space stays in its reservation, and code ids are those handed out.
THEOREM TypeCorrect == Spec => []TypeOK
<1>1. Inv => TypeOK
  BY DEF Inv
<1> QED BY <1>1, Invariance, PTL

\* In a tree in order a lookup passes exactly the entries before the address.
LEMMA InvLookupExact == Inv => LookupExact
<1> SUFFICES ASSUME Inv, NEW p \in 0 .. Total - 1
             PROVE  Get(p) = {i \in 1 .. Len(objects) :
                                 i \notin Pending /\ Holds(objects[i], p)}
  BY DEF LookupExact
<1> DEFINE byte == [start |-> p, end |-> p + 1]
<1>1. p \in Nat
  BY CodeSpaceAssumption
<1>2. ASSUME NEW k \in 1 .. Len(tree)
      PROVE  /\ Cmp(byte, tree[k]) = "Equal" <=> Holds(tree[k], p)
             /\ Cmp(byte, tree[k]) = "Greater" <=> tree[k].end <= p
  <2> DEFINE b == objects[tree[k].id]
  <2>1. /\ b \in Span /\ b.start < b.end
        /\ b.start = tree[k].start /\ b.end = tree[k].end
    BY Entries, Spans DEF Inv
  <2>2. Cmp(byte, tree[k]) = Cmp(byte, b) /\ (Holds(tree[k], p) <=> Holds(b, p))
    BY <2>1 DEF Cmp, Intersect, Holds
  <2> HIDE DEF b
  <2> QED BY <1>1, <2>1, <2>2, CmpByte
<1> HIDE DEF byte
<1>3. ASSUME NEW k \in 0 .. Len(tree) - 1, Hits(byte, k)
      PROVE  /\ tree[k + 1].id \in 1 .. Len(objects) /\ tree[k + 1].id \notin Pending
             /\ Holds(objects[tree[k + 1].id], p)
  <2>1. k + 1 \in 1 .. Len(tree)
    BY Spans DEF Inv
  <2>2. Holds(tree[k + 1], p)
    BY <1>2, <1>3, <2>1 DEF Hits
  <2> QED BY <2>1, <2>2, Entries, SMTT(30) DEF Pending, Holds
<1>4. ASSUME NEW i \in 1 .. Len(objects), i \notin Pending, Holds(objects[i], p)
      PROVE  \E k \in 0 .. Len(tree) - 1 : Hits(byte, k) /\ tree[k + 1].id = i
  <2>1. PICK l \in 1 .. Len(tree) : tree[l].id = i
    BY <1>4 DEF Inv, MapInv, Pending
  <2>2. Holds(tree[l], p)
    BY <1>4, <2>1, Entries DEF Holds
  <2>3. /\ Len(tree) \in Nat /\ tree[l].start \in Nat /\ tree[l].end \in Nat
        /\ \A j \in 1 .. Len(tree) : tree[j].end \in Nat
    BY Spans DEF Inv
  <2>4. \A j \in 1 .. l - 1 : Cmp(byte, tree[j]) = "Greater"
    <3> TAKE j \in 1 .. l - 1
    <3>1. j \in 1 .. Len(tree) /\ j < l
      BY <2>3
    <3>2. tree[j].end <= tree[l].start
      BY <3>1 DEF Inv, MapInv
    <3>3. tree[j].end <= p
      BY <1>1, <2>2, <2>3, <3>1, <3>2 DEF Holds
    <3> QED BY <1>2, <3>1, <3>3
  <2>5. Cmp(byte, tree[l]) = "Equal"
    BY <1>2, <2>2
  <2> DEFINE m == l - 1
  <2>7. m \in 0 .. Len(tree) - 1 /\ m + 1 = l /\ m < Len(tree)
    BY <2>3
  <2> HIDE DEF m
  <2>8. Cmp(byte, tree[m + 1]) = "Equal" /\ tree[m + 1].id = i
    BY <2>1, <2>5, <2>7
  <2>9. \A j \in 1 .. m : Cmp(byte, tree[j]) = "Greater"
    BY <2>4 DEF m
  <2>10. Hits(byte, m)
    BY <2>7, <2>8, <2>9 DEF Hits, Passes
  <2> QED BY <2>7, <2>8, <2>10
<1>5. Get(p) = {tree[k + 1].id : k \in {j \in 0 .. Len(tree) - 1 : Hits(byte, j)}}
  BY DEF Get, byte
<1> QED BY SMTT(60), <1>3, <1>4, <1>5

\* However the threads interleave, a lookup in the code map is exact.
THEOREM LookupsExact == Spec => []LookupExact
  BY InvLookupExact, Invariance, PTL

\* The assertion in CodeMap::insert never fails.
THEOREM AllInsertsFresh == Spec => []InsertsFresh
  BY InvInsertsFresh, Invariance, PTL

\* drop_all_native_code_objects meets only code objects.
THEOREM WalkExact == Spec => []WalkMeetsObjects
<1>1. Inv => WalkMeetsObjects
  BY DEF Inv, WalkInv, Boundary, WalkMeetsObjects
<1> QED BY <1>1, Invariance, PTL
=============================================================================
