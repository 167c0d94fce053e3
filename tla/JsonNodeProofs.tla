---------------------------- MODULE JsonNodeProofs ----------------------------
(***************************************************************************)
(* Proofs about JsonNode, for any sets of nodes, containers, values and    *)
(* scalars: every reference count is the number of its holders, and what   *)
(* is sealed is sealed all the way down.                                   *)
(*                                                                         *)
(* Good says of a heap and of the references held outside it all that a    *)
(* call needs and leaves.  Each operator the calls are composed of keeps   *)
(* it, for the references held after the operator; the two properties go   *)
(* together, because only exact counts show that what a sealed container   *)
(* points to is not freed, and its memory allocated again, mutable.        *)
(***************************************************************************)
EXTENDS JsonNode, SequenceTheorems, TLAPS

(* The lemmas about heaps, of the heap of nodes, containers and values.    *)
HP == INSTANCE JsonHeapProofs WITH Cont <- Id, Name <- {}, Scalar <- {}

LEMMA HeapHolds == HP!HeapAssumption
<1>1. \A S : HP!IsFiniteSet(S) = IsFiniteSet(S)
  BY DEF HP!IsFiniteSet, IsFiniteSet
<1> QED BY <1>1, NodeAssumption DEF HP!HeapAssumption

LEMMA SameHeap ==
  /\ \A h, T, c : H!Edges(h, T, c) = HP!Edges(h, T, c)
  /\ \A h : H!Live(h) = HP!Live(h)
  /\ \A h, drop : H!Dead(h, drop) = HP!Dead(h, drop)
  /\ \A h, c : H!SealSet(h, c) = HP!SealSet(h, c)
  /\ \A h, c : H!Children(h, c) = HP!Children(h, c)
<1>1. \A S : HP!Cardinality(S) = Cardinality(S)
  BY DEF HP!Cardinality, Cardinality
<1>2. \A S : H!Cardinality(S) = Cardinality(S)
  BY DEF H!Cardinality, Cardinality
<1>3. \A h, T, c : H!Edges(h, T, c) = HP!Edges(h, T, c)
  BY <1>1, <1>2 DEF HP!Edges, H!Edges
<1>4. \A h : H!Live(h) = HP!Live(h)
  BY DEF HP!Live, H!Live
<1>5. \A h, drop, T, c : H!Dies(h, drop, T, c) = HP!Dies(h, drop, T, c)
  BY <1>3 DEF HP!Dies, H!Dies
<1>6. \A h, drop : H!Dead(h, drop) = HP!Dead(h, drop)
  BY <1>4, <1>5 DEF HP!Dead, H!Dead
<1>7. \A h, c : H!Children(h, c) = HP!Children(h, c)
  BY DEF HP!Children, H!Children
<1>8. \A h, c : H!SealSet(h, c) = HP!SealSet(h, c)
  BY <1>7 DEF HP!SealSet, H!SealSet
<1> QED BY <1>3, <1>4, <1>6, <1>7, <1>8

-----------------------------------------------------------------------------

Pointer == [name : {NULL}, item : Id]
Heaps == [Id -> Cell]

(* What a live node points to is what its type says.                       *)
Fits(h, n) ==
  n \in Node /\ h[n].refs > 0 =>
    /\ h[n].kind \in NodeType /\ Len(h[n].items) <= 1
    /\ h[n].items # <<>> =>
         \/ h[n].kind = "CONTAINER" /\ h[n].items[1].item \in Container
         \/ h[n].kind = "VALUE" /\ h[n].items[1].item \in Value

CellOK(h, x) ==
  /\ Len(h[x].items) <= MaxItems
  /\ h[x].kind = "none" => h[x].refs = 0
  /\ Fits(h, x)

SealOK(h) ==
  \A x \in Id : h[x].refs > 0 /\ h[x].sealed =>
    \A i \in DOMAIN h[x].items : h[h[x].items[i].item].sealed

Good(h, hold) ==
  /\ h \in Heaps /\ hold \in [Id -> Nat]
  /\ \A x \in Id : CellOK(h, x)
  /\ HP!Exact(h, hold)
  /\ SealOK(h)

IInv == Good(heap, held)

Plus(hold, x) == [hold EXCEPT ![x] = @ + 1]
Minus(hold, x) == [hold EXCEPT ![x] = @ - 1]

LEMMA CellFacts ==
  ASSUME NEW h \in Heaps, NEW x \in Id
  PROVE  /\ h[x] \in Cell /\ h[x].refs \in Nat /\ h[x].items \in Seq(Pointer)
         /\ Len(h[x].items) \in Nat /\ DOMAIN h[x].items = 1 .. Len(h[x].items)
         /\ \A i \in DOMAIN h[x].items : /\ h[x].items[i] \in Pointer
                                         /\ h[x].items[i].item \in Id
<1>1. h[x] \in Cell
  BY DEF Heaps
<1>2. h[x].refs \in Nat /\ h[x].items \in Seq(Pointer)
  BY <1>1 DEF Cell, Pointer
<1>3. /\ Len(h[x].items) \in Nat /\ DOMAIN h[x].items = 1 .. Len(h[x].items)
      /\ \A i \in DOMAIN h[x].items : h[x].items[i] \in Pointer
  BY <1>2, LenProperties, ElementOfSeq
<1>4. \A p \in Pointer : p.item \in Id
  BY DEF Pointer
<1> QED BY <1>1, <1>2, <1>3, <1>4

LEMMA IsType == \A x, c : HP!Is(x, c) = IF x = c THEN 1 ELSE 0
BY DEF HP!Is

LEMMA PlusMinus ==
  ASSUME NEW hold \in [Id -> Nat], NEW x \in Id
  PROVE  /\ Plus(hold, x) \in [Id -> Nat] /\ Minus(Plus(hold, x), x) = hold
         /\ \A d \in Id : Plus(hold, x)[d] = hold[d] + HP!Is(x, d)
         /\ \A d \in Id : Minus(hold, x)[d] = hold[d] - HP!Is(x, d)
         /\ hold[x] > 0 => Minus(hold, x) \in [Id -> Nat]
<1>1. \A d \in Id : Plus(hold, x)[d] = hold[d] + HP!Is(x, d)
  BY IsType DEF Plus
<1>2. \A d \in Id : Minus(hold, x)[d] = hold[d] - HP!Is(x, d)
  BY IsType DEF Minus
<1>3. Plus(hold, x) \in [Id -> Nat] /\ Minus(Plus(hold, x), x) = hold
  <2>0. Plus(hold, x) \in [Id -> Nat]
    BY DEF Plus
  <2>1. PICK more \in [Id -> Nat] : more = Plus(hold, x)
    BY <2>0
  <2>2. \A d \in Id : more[d] = hold[d] + HP!Is(x, d)
    BY <1>1, <2>1
  <2>3. more[x] = hold[x] + 1 /\ \A d \in Id \ {x} : more[d] = hold[d]
    BY <2>1 DEF Plus
  <2>4. \A d \in Id : Minus(more, x)[d] = hold[d]
    BY <2>3 DEF Minus
  <2>5. Minus(more, x) = [d \in Id |-> Minus(more, x)[d]] /\ hold = [d \in Id |-> hold[d]]
    BY DEF Minus
  <2>6. Minus(more, x) = hold
    BY <2>4, <2>5
  <2> QED BY <2>1, <2>6
<1>4. hold[x] > 0 => Minus(hold, x) \in [Id -> Nat]
  BY DEF Minus
<1> QED BY <1>1, <1>2, <1>3, <1>4

(* What is held is alive, and so is what a live cell points to.            *)
LEMMA HeldLive ==
  ASSUME NEW h, NEW hold, Good(h, hold), NEW x \in Id, hold[x] > 0
  PROVE  h[x].refs > 0
<1>1. h[x].refs = hold[x] + HP!Edges(h, HP!Live(h), x)
  BY DEF Good, HP!Exact
<1>2. HP!Edges(h, HP!Live(h), x) \in Nat
  BY HeapHolds, HP!LiveType, HP!SlotsFinite
<1> QED BY <1>1, <1>2 DEF Good

LEMMA ChildLive ==
  ASSUME NEW h, NEW hold, Good(h, hold), NEW x \in Id, h[x].refs > 0,
         NEW i \in DOMAIN h[x].items
  PROVE  h[x].items[i].item \in Id /\ h[h[x].items[i].item].refs > 0
<1>1. h[x].items[i].item \in Id /\ DOMAIN h[x].items = 1 .. Len(h[x].items)
      /\ Len(h[x].items) \in Nat
  BY CellFacts DEF Good
<1>2. Len(h[x].items) <= MaxItems
  BY DEF Good, CellOK
<1>3. i \in DOMAIN h[x].items \cap (1 .. MaxItems)
  BY <1>1, <1>2, NodeAssumption
<1>4. x \in HP!Live(h)
  BY DEF HP!Live
<1>5. hold \in [Id -> Nat] /\ HP!Exact(h, hold)
  BY DEF Good
<1> QED BY <1>1, <1>3, <1>4, <1>5, HeapHolds, HP!ChildLive

-----------------------------------------------------------------------------
(* Releasing.                                                              *)

(* c in r, once drop has been released in h: only the cells of rest stay.  *)
Released(r, h, hold, drop, rest, c) ==
  /\ c \in rest => \E n \in Nat \ {0} :
                     /\ r[c] = [h[c] EXCEPT !.refs = n]
                     /\ n = hold[c] - drop[c] + HP!Edges(h, rest, c)
  /\ c \notin rest => /\ r[c] = Unused
                      /\ hold[c] - drop[c] = 0 /\ HP!Edges(h, rest, c) = 0

LEMMA ReleaseCells ==
  ASSUME NEW h \in Heaps, NEW hold \in [Id -> Nat], NEW drop \in [Id -> Nat],
         HP!Exact(h, hold), \A x \in Id : drop[x] <= hold[x], NEW c \in Id,
         NEW rest, rest = HP!Live(h) \ HP!Dead(h, drop)
  PROVE  Released(Release(h, drop), h, hold, drop, rest, c)
<1>1. HP!Counted(h)
  BY CellFacts DEF HP!Counted
<1>2. HP!Balanced(h, drop, hold, c, HP!Dead(h, drop))
  BY <1>1, HeapHolds, HP!DeadExact
<1>3. PICK D : D = HP!Dead(h, drop)
  OBVIOUS
<1>4. PICK n : n = h[c].refs - (drop[c] + HP!Edges(h, D, c))
  OBVIOUS
<1>5. /\ c \in rest => n \in Nat \ {0} /\ n = hold[c] - drop[c] + HP!Edges(h, rest, c)
      /\ c \notin rest => hold[c] - drop[c] = 0 /\ HP!Edges(h, rest, c) = 0
  BY <1>2, <1>3, <1>4 DEF HP!Balanced
<1>6. H!Release(h, drop)[c] = [h[c] EXCEPT !.refs = IF c \in rest THEN n ELSE 0]
  <2>1. /\ H!Dead(h, drop) = D /\ H!Live(h) = HP!Live(h)
        /\ H!Edges(h, D, c) = HP!Edges(h, D, c)
    BY <1>3, SameHeap
  <2>2. H!Release(h, drop)[c] =
          [h[c] EXCEPT !.refs = IF c \notin H!Live(h) \/ c \in D THEN 0
                                ELSE h[c].refs - (drop[c] + H!Edges(h, D, c))]
    BY <2>1 DEF H!Release
  <2>3. c \in rest <=> ~ (c \notin H!Live(h) \/ c \in D)
    BY <1>3, <2>1
  <2> QED BY <1>4, <2>1, <2>2, <2>3
<1>7. Release(h, drop)[c] = IF H!Release(h, drop)[c].refs = 0 THEN Unused
                            ELSE H!Release(h, drop)[c]
  BY DEF Release
<1>8. h[c] \in Cell
  BY CellFacts
<1>9. CASE c \in rest
  <2>1. H!Release(h, drop)[c] = [h[c] EXCEPT !.refs = n]
    BY <1>6, <1>9
  <2>2. [h[c] EXCEPT !.refs = n].refs = n
    BY <1>8 DEF Cell
  <2>3. Release(h, drop)[c] = [h[c] EXCEPT !.refs = n]
    BY <1>5, <1>7, <1>9, <2>1, <2>2
  <2> QED BY <1>5, <1>9, <2>3 DEF Released
<1>10. CASE c \notin rest
  <2>1. H!Release(h, drop)[c] = [h[c] EXCEPT !.refs = 0]
    BY <1>6, <1>10
  <2>2. [h[c] EXCEPT !.refs = 0].refs = 0
    BY <1>8 DEF Cell
  <2>3. Release(h, drop)[c] = Unused
    BY <1>7, <2>1, <2>2
  <2> QED BY <1>5, <1>10, <2>3 DEF Released
<1> QED BY <1>9, <1>10

(* A cell is freed, or keeps all but its count.                            *)
Kept(r, h, x) ==
  /\ h[x].refs > 0 /\ r[x].refs > 0
  /\ r[x].kind = h[x].kind /\ r[x].items = h[x].items
  /\ r[x].sealed = h[x].sealed /\ r[x].datum = h[x].datum

LEMMA UnusedFacts ==
  /\ Unused \in Cell /\ Unused.refs = 0 /\ Unused.items = <<>> /\ Unused.kind = "none"
  /\ Unused.datum = NULL /\ ~ Unused.sealed
BY EmptySeq DEF Unused, Cell

LEMMA GoodRelease ==
  ASSUME NEW h, NEW hold, Good(h, hold), NEW drop \in [Id -> Nat],
         \A x \in Id : drop[x] <= hold[x],
         NEW less, \A x \in Id : less[x] = hold[x] - drop[x], less \in [Id -> Nat],
         NEW r, r = Release(h, drop)
  PROVE  /\ Good(r, less)
         /\ \A x \in Id : r[x] = Unused \/ Kept(r, h, x)
<1>1. h \in Heaps /\ hold \in [Id -> Nat] /\ HP!Exact(h, hold)
  BY DEF Good
<1>2. PICK rest : rest = HP!Live(h) \ HP!Dead(h, drop)
  OBVIOUS
<1>3. \A c \in Id : Released(r, h, hold, drop, rest, c)
  BY <1>1, <1>2, ReleaseCells
<1>4. rest \in SUBSET Id /\ \A c \in rest : h[c].refs > 0
  BY <1>2 DEF HP!Live
<1>5. ASSUME NEW c \in rest
      PROVE  /\ Kept(r, h, c) /\ r[c] \in Cell
             /\ r[c].refs = less[c] + HP!Edges(h, rest, c)
  <2>1. PICK n \in Nat \ {0} : /\ r[c] = [h[c] EXCEPT !.refs = n]
                               /\ n = hold[c] - drop[c] + HP!Edges(h, rest, c)
    BY <1>3, <1>4 DEF Released
  <2>2. h[c] \in Cell /\ c \in Id
    BY <1>1, <1>4, CellFacts
  <2>3. /\ r[c] \in Cell /\ r[c].refs = n /\ r[c].kind = h[c].kind
        /\ r[c].items = h[c].items /\ r[c].sealed = h[c].sealed /\ r[c].datum = h[c].datum
    BY <2>1, <2>2 DEF Cell
  <2>4. r[c].refs > 0 /\ h[c].refs > 0
    BY <1>4, <2>3
  <2>5. n = less[c] + HP!Edges(h, rest, c)
    BY <2>1, <2>2
  <2> QED BY <2>3, <2>4, <2>5 DEF Kept
<1>6. ASSUME NEW c \in Id, c \notin rest
      PROVE  r[c] = Unused /\ less[c] = 0 /\ HP!Edges(h, rest, c) = 0
  BY <1>3, <1>6 DEF Released
<1>7. \A c \in Id : r[c] \in Cell
  BY <1>5, <1>6, UnusedFacts
<1>8. r \in Heaps
  <2>1. r = [x \in Id |-> r[x]]
    BY DEF Release
  <2> QED BY <1>7, <2>1 DEF Heaps
<1>9. HP!Live(r) = rest
  <2>1. \A c \in Id : r[c].refs > 0 <=> c \in rest
    BY <1>5, <1>6, UnusedFacts DEF Kept
  <2> QED BY <1>4, <2>1 DEF HP!Live
<1>10. HP!Exact(r, less)
  <2>1. ASSUME NEW c \in Id PROVE r[c].refs = less[c] + HP!Edges(r, HP!Live(r), c)
    <3>1. HP!Edges(r, rest, c) = HP!Edges(h, rest, c)
      <4>1. \A x \in rest : r[x].items = h[x].items
        BY <1>5 DEF Kept
      <4> QED BY <1>4, <4>1, HeapHolds, HP!EdgesSameItems
    <3>2. CASE c \in rest
      BY <1>5, <1>9, <3>1, <3>2
    <3>3. CASE c \notin rest
      <4>1. r[c].refs = 0 /\ less[c] = 0 /\ HP!Edges(r, rest, c) = 0
        BY <1>6, <3>1, <3>3, UnusedFacts
      <4> QED BY <1>9, <4>1
    <3> QED BY <3>2, <3>3
  <2> QED BY <2>1 DEF HP!Exact
<1>11. ASSUME NEW c \in Id PROVE CellOK(r, c)
  <2>1. CASE c \in rest
    <3>1. /\ r[c].kind = h[c].kind /\ r[c].items = h[c].items /\ h[c].refs > 0
      BY <1>5, <2>1 DEF Kept
    <3>2. CellOK(h, c)
      BY DEF Good
    <3> QED BY <3>1, <3>2 DEF CellOK, Fits
  <2>2. CASE c \notin rest
    <3>1. r[c].refs = 0 /\ r[c].items = <<>> /\ Len(r[c].items) = 0
      BY <1>6, <2>2, UnusedFacts, EmptySeq
    <3> QED BY <3>1, NodeAssumption DEF CellOK, Fits
  <2> QED BY <2>1, <2>2
<1>12. SealOK(r)
  <2>1. SUFFICES ASSUME NEW x \in Id, r[x].refs > 0, r[x].sealed,
                        NEW i \in DOMAIN r[x].items
                 PROVE  r[r[x].items[i].item].sealed
    BY DEF SealOK
  <2>2. x \in rest
    BY <1>6, <2>1, UnusedFacts
  <2>3. /\ h[x].sealed /\ h[x].refs > 0 /\ r[x].items = h[x].items
    BY <1>5, <2>1, <2>2 DEF Kept
  <2>4. PICK y : y = r[x].items[i].item
    OBVIOUS
  <2>5. h[y].sealed
    BY <2>1, <2>3, <2>4 DEF Good, SealOK
  <2>6. y \in Id /\ r[y].refs > 0
    <3>1. i \in DOMAIN r[x].items \cap (1 .. MaxItems) /\ y \in Id
      <4>1. /\ DOMAIN r[x].items = 1 .. Len(r[x].items) /\ Len(r[x].items) \in Nat
            /\ y \in Id
        BY <1>8, <2>1, <2>4, CellFacts
      <4>2. Len(r[x].items) <= MaxItems
        BY <1>11 DEF CellOK
      <4> QED BY <2>1, <4>1, <4>2, NodeAssumption
    <3>2. x \in HP!Live(r)
      BY <1>9, <2>2
    <3> QED BY <1>10, <2>4, <3>1, <3>2, HeapHolds, HP!ChildLive
  <2>7. y \in rest
    BY <1>6, <2>6, UnusedFacts
  <2> QED BY <1>5, <2>4, <2>5, <2>7 DEF Kept
<1> QED BY <1>5, <1>6, <1>8, <1>10, <1>11, <1>12 DEF Good

-----------------------------------------------------------------------------
(* What else a call does to the heap.                                      *)

(* But for its scalar, y is in g what it is in h.                          *)
Alike(g, h, y) ==
  /\ g[y].kind = h[y].kind /\ g[y].items = h[y].items
  /\ g[y].refs = h[y].refs /\ g[y].sealed = h[y].sealed

(* What t points to now is what its type says.                             *)
Suits(g, t, x) ==
  t \in Node => /\ Len(g[t].items) = 1
                /\ \/ g[t].kind = "CONTAINER" /\ x \in Container
                   \/ g[t].kind = "VALUE" /\ x \in Value

LEMMA GoodSame ==
  ASSUME NEW h, NEW hold, Good(h, hold), NEW g \in Heaps, NEW t \in Id,
         \A y \in Id \ {t} : Alike(g, h, y),
         g[t].refs = h[t].refs, g[t].items = h[t].items, CellOK(g, t),
         g[t].sealed => \/ h[t].sealed
                        \/ g[t].items = <<>>,
         ~ g[t].sealed => ~ h[t].sealed
  PROVE  Good(g, hold)
<1>1. \A y \in Id : g[y].refs = h[y].refs /\ g[y].items = h[y].items
  BY DEF Alike
<1>2. HP!Exact(g, hold)
  BY <1>1, HeapHolds, HP!SameExact DEF Good
<1>3. ASSUME NEW y \in Id PROVE CellOK(g, y)
  <2>1. CASE y = t
    BY <2>1
  <2>2. CASE y # t
    <3>1. CellOK(h, y) /\ Alike(g, h, y)
      BY <2>2 DEF Good
    <3> QED BY <3>1 DEF CellOK, Fits, Alike
  <2> QED BY <2>1, <2>2
<1>4. SealOK(g)
  <2>1. SUFFICES ASSUME NEW x \in Id, g[x].refs > 0, g[x].sealed,
                        NEW i \in DOMAIN g[x].items
                 PROVE  g[g[x].items[i].item].sealed
    BY DEF SealOK
  <2>2. h[x].refs > 0 /\ i \in DOMAIN h[x].items /\ g[x].items = h[x].items
    BY <1>1, <2>1
  <2>3. h[x].sealed
    <3>1. CASE x = t
      <4>1. g[t].items # <<>>
        BY <2>1, <3>1
      <4> QED BY <2>1, <3>1, <4>1
    <3>2. CASE x # t
      BY <2>1, <3>2 DEF Alike
    <3> QED BY <3>1, <3>2
  <2>4. PICK y \in Id : y = h[x].items[i].item
    BY <2>2, CellFacts DEF Good
  <2>5. h[y].sealed
    BY <2>2, <2>3, <2>4 DEF Good, SealOK
  <2>6. g[y].sealed
    <3>1. CASE y = t
      <4>1. g[t].sealed \in BOOLEAN /\ h[t].sealed \in BOOLEAN
        BY CellFacts DEF Good, Cell
      <4> QED BY <2>5, <3>1, <4>1
    <3>2. CASE y # t
      BY <2>5, <3>2 DEF Alike
    <3> QED BY <3>1, <3>2
  <2> QED BY <2>2, <2>4, <2>6
<1> QED BY <1>2, <1>3, <1>4 DEF Good

(* A cell that has just been allocated is the client's.                    *)
LEMMA GoodAlloc ==
  ASSUME NEW h, NEW hold, Good(h, hold), NEW x \in Id, h[x].kind = "none",
         NEW k \in NodeType \cup {"container", "value"}, x \in Node => k \in NodeType,
         NEW g, g = Alloc(h, x, k)
  PROVE  /\ Good(g, Plus(hold, x)) /\ hold[x] = 0
         /\ \A y \in Id \ {x} : g[y] = h[y]
         /\ g[x] = [kind |-> k, items |-> <<>>, refs |-> 1, sealed |-> FALSE, datum |-> NULL]
<1>1. h \in Heaps /\ hold \in [Id -> Nat] /\ HP!Exact(h, hold)
  BY DEF Good
<1>2. /\ \A y \in Id \ {x} : g[y] = h[y]
      /\ g[x] = [kind |-> k, items |-> <<>>, refs |-> 1, sealed |-> FALSE, datum |-> NULL]
  BY <1>1 DEF Alloc, Heaps
<1>3. /\ g[x].kind = k /\ g[x].items = <<>> /\ g[x].refs = 1 /\ ~ g[x].sealed
      /\ g[x] \in Cell /\ Len(g[x].items) = 0
  BY <1>2, EmptySeq DEF Cell
<1>4. g \in Heaps
  <2>1. g = [y \in Id |-> g[y]]
    BY <1>1 DEF Alloc, Heaps
  <2>2. \A y \in Id : g[y] \in Cell
    BY <1>1, <1>2, <1>3, CellFacts
  <2> QED BY <2>1, <2>2 DEF Heaps
<1>5. h[x].refs = 0
  BY DEF Good, CellOK
<1>6. hold[x] = 0
  <2>1. h[x].refs = hold[x] + HP!Edges(h, HP!Live(h), x)
    BY <1>1 DEF HP!Exact
  <2>2. HP!Edges(h, HP!Live(h), x) \in Nat /\ hold[x] \in Nat
    BY <1>1, HeapHolds, HP!LiveType, HP!SlotsFinite
  <2> QED BY <1>5, <2>1, <2>2
<1>7. PICK more \in [Id -> Nat] : more = Plus(hold, x)
  BY <1>1, PlusMinus
<1>8. HP!NewCell(g, h, hold, more, x)
  <2>1. \A d \in Id : HP!Edges(g, {x}, d) = 0
    BY <1>3, HeapHolds, HP!NoEdges
  <2>2. more[x] = 1 /\ \A d \in Id \ {x} : more[d] = hold[d] /\ hold[d] \in Nat
    BY <1>1, <1>6, <1>7 DEF Plus
  <2>3. ASSUME NEW d \in Id \ {x} PROVE g[d] = h[d] /\ more[d] + HP!Edges(g, {x}, d) = hold[d]
    <3>1. more[d] = hold[d] /\ hold[d] \in Nat /\ HP!Edges(g, {x}, d) = 0
      BY <2>1, <2>2
    <3> QED BY <1>2, <3>1
  <2>4. more[x] + HP!Edges(g, {x}, x) = g[x].refs /\ g[x].refs \in Nat \ {0}
    <3>1. HP!Edges(g, {x}, x) = 0
      BY <2>1
    <3> QED BY <1>3, <2>2, <3>1
  <2> QED BY <1>5, <2>3, <2>4 DEF HP!NewCell
<1>9. HP!Exact(g, more)
  BY <1>1, <1>8, HeapHolds, HP!CellExact
<1>10. ASSUME NEW y \in Id PROVE CellOK(g, y)
  <2>1. CASE y = x
    <3>1. k # "none"
      BY DEF NodeType
    <3> QED BY <1>3, <2>1, <3>1, NodeAssumption DEF CellOK, Fits
  <2>2. CASE y # x
    <3>1. CellOK(h, y) /\ g[y] = h[y]
      BY <1>2, <2>2 DEF Good
    <3> QED BY <3>1 DEF CellOK, Fits
  <2> QED BY <2>1, <2>2
<1>11. SealOK(g)
  <2>1. SUFFICES ASSUME NEW z \in Id, g[z].refs > 0, g[z].sealed,
                        NEW i \in DOMAIN g[z].items
                 PROVE  g[g[z].items[i].item].sealed
    BY DEF SealOK
  <2>2. z # x /\ g[z] = h[z]
    BY <1>2, <1>3, <2>1
  <2>3. PICK y : y = h[z].items[i].item
    OBVIOUS
  <2>4. y \in Id /\ h[y].refs > 0 /\ h[y].sealed
    BY <2>1, <2>2, <2>3, ChildLive DEF Good, SealOK
  <2>5. y # x
    BY <1>5, <2>4
  <2> QED BY <1>2, <2>2, <2>3, <2>4, <2>5
<1> QED BY <1>2, <1>4, <1>6, <1>7, <1>9, <1>10, <1>11 DEF Good

(* One reference more for the client, on what is alive.                    *)
LEMMA GoodMore ==
  ASSUME NEW h, NEW hold, Good(h, hold), NEW x \in Id, h[x].refs > 0,
         NEW g, g = H!AddRef(h, x)
  PROVE  /\ Good(g, Plus(hold, x))
         /\ g[x].refs = h[x].refs + 1 /\ g[x].kind = h[x].kind /\ g[x].items = h[x].items
         /\ g[x].sealed = h[x].sealed
         /\ \A y \in Id \ {x} : g[y] = h[y]
<1>1. h \in Heaps /\ hold \in [Id -> Nat] /\ HP!Exact(h, hold)
  BY DEF Good
<1>2. /\ \A y \in Id \ {x} : g[y] = h[y]
      /\ g[x] = [h[x] EXCEPT !.refs = @ + 1]
  BY <1>1 DEF H!AddRef, Heaps
<1>3. h[x] \in Cell /\ h[x].refs \in Nat
  BY <1>1, CellFacts
<1>4. /\ g[x].refs = h[x].refs + 1 /\ g[x].kind = h[x].kind /\ g[x].items = h[x].items
      /\ g[x].sealed = h[x].sealed /\ g[x] \in Cell
  BY <1>2, <1>3 DEF Cell
<1>5. g \in Heaps
  <2>1. g = [y \in Id |-> g[y]]
    BY <1>1 DEF H!AddRef, Heaps
  <2>2. \A y \in Id : g[y] \in Cell
    BY <1>1, <1>2, <1>4, CellFacts
  <2> QED BY <2>1, <2>2 DEF Heaps
<1>6. PICK more \in [Id -> Nat] : more = Plus(hold, x)
  BY <1>1, PlusMinus
<1>7. \A d \in Id : /\ g[d].items = h[d].items
                    /\ g[d].refs = h[d].refs + HP!Is(x, d)
                    /\ more[d] = hold[d] + HP!Is(x, d)
  <2>1. ASSUME NEW d \in Id PROVE g[d].items = h[d].items /\ g[d].refs = h[d].refs + HP!Is(x, d)
    <3>1. CASE d = x
      BY <1>4, <3>1, IsType
    <3>2. CASE d # x
      <4>1. h[d].refs \in Nat /\ g[d] = h[d] /\ HP!Is(x, d) = 0
        BY <1>1, <1>2, <3>2, CellFacts, IsType
      <4> QED BY <4>1
    <3> QED BY <3>1, <3>2
  <2> QED BY <1>1, <1>6, <2>1, PlusMinus
<1>8. HP!Counted(h)
  BY <1>1, CellFacts DEF HP!Counted
<1>9. HP!Exact(g, more)
  <2>1. HP!OneMore(g, h, hold, more, x)
    BY <1>7 DEF HP!OneMore
  <2> QED BY <1>1, <1>8, <2>1, HeapHolds, HP!MoreExact
<1>10. ASSUME NEW y \in Id PROVE CellOK(g, y)
  <2>1. CellOK(h, y)
    BY DEF Good
  <2>2. CASE y = x
    BY <1>4, <2>1, <2>2 DEF CellOK, Fits
  <2>3. CASE y # x
    BY <1>2, <2>1, <2>3 DEF CellOK, Fits
  <2> QED BY <2>2, <2>3
<1>11. SealOK(g)
  <2>1. \A y \in Id : /\ g[y].sealed = h[y].sealed /\ g[y].items = h[y].items
                      /\ g[y].refs > 0 => h[y].refs > 0
    BY <1>2, <1>4
  <2>2. SUFFICES ASSUME NEW z \in Id, g[z].refs > 0, g[z].sealed,
                        NEW i \in DOMAIN g[z].items
                 PROVE  g[g[z].items[i].item].sealed
    BY DEF SealOK
  <2>3. h[z].items[i].item \in Id /\ h[h[z].items[i].item].sealed
    BY <2>1, <2>2, ChildLive DEF Good, SealOK
  <2> QED BY <2>1, <2>2, <2>3
<1> QED BY <1>2, <1>4, <1>5, <1>6, <1>9, <1>10, <1>11 DEF Good

(* t points to x as well: a reference of the client's becomes t's.         *)
Linked(g, h, t, x) ==
  /\ \A y \in Id \ {t} : Alike(g, h, y)
  /\ g[t].kind = h[t].kind /\ g[t].refs = h[t].refs
  /\ g[t].items = Append(h[t].items, [name |-> NULL, item |-> x])
  /\ g[t].sealed => h[t].items = <<>> /\ h[x].sealed
  /\ ~ g[t].sealed => ~ h[t].sealed

LEMMA GoodLink ==
  ASSUME NEW h, NEW hold, Good(h, hold), NEW g \in Heaps, NEW t \in Id, NEW x \in Id,
         h[t].refs > 0, hold[x] > 0, Len(h[t].items) < MaxItems,
         Linked(g, h, t, x), Suits(g, t, x)
  PROVE  Good(g, Minus(hold, x))
<1>1. h \in Heaps /\ hold \in [Id -> Nat] /\ HP!Exact(h, hold)
  BY DEF Good
<1>2. PICK p \in Pointer : p = [name |-> NULL, item |-> x]
  BY DEF Pointer
<1>3. PICK s \in Seq(Pointer) : s = h[t].items
  BY <1>1, CellFacts
<1>4. PICK n \in Nat : n = Len(s) /\ n < MaxItems
  BY <1>3, LenProperties
<1>5. PICK s2 \in Seq(Pointer) : s2 = Append(s, p)
  BY AppendProperties
<1>6. /\ Len(s2) = n + 1 /\ DOMAIN s2 = 1 .. n + 1 /\ DOMAIN s = 1 .. n
      /\ s2[n + 1] = p /\ \A j \in 1 .. n : s2[j] = s[j]
  BY <1>2, <1>3, <1>4, <1>5, AppendProperties, LenProperties
<1>7. g[t].items = s2 /\ p.item = x
  BY <1>2, <1>3, <1>5 DEF Linked
<1>8. \A y \in Id : g[y].refs = h[y].refs
  BY DEF Linked, Alike
<1>9. HP!SlotAdded(g, h, HP!Live(h), t, n + 1)
  <2>1. t \in HP!Live(h) /\ HP!Live(h) \subseteq Id
    BY DEF HP!Live
  <2>2. n + 1 \in 1 .. MaxItems
    BY <1>4, NodeAssumption
  <2>3. n + 1 \notin DOMAIN h[t].items /\ DOMAIN g[t].items = DOMAIN h[t].items \cup {n + 1}
    BY <1>3, <1>4, <1>6, <1>7
  <2>4. \A j \in DOMAIN h[t].items : g[t].items[j].item = h[t].items[j].item
    BY <1>3, <1>6, <1>7
  <2>5. \A y \in HP!Live(h) \ {t} : g[y].items = h[y].items
    BY <2>1 DEF Linked, Alike
  <2> QED BY <2>1, <2>2, <2>3, <2>4, <2>5 DEF HP!SlotAdded
<1>10. PICK rest \in [Id -> Nat] : rest = Minus(hold, x)
  BY <1>1, PlusMinus
<1>11. HP!Exact(g, rest)
  <2>0. \A d \in Id : g[d].refs = h[d].refs /\ rest[d] = hold[d] - HP!Is(x, d)
    BY <1>1, <1>8, <1>10, PlusMinus
  <2>1. HP!OneLess(g, h, hold, rest, x)
    BY <2>0 DEF HP!OneLess
  <2>2. PICK k : k = n + 1
    OBVIOUS
  <2>3. x = g[t].items[k].item /\ HP!SlotAdded(g, h, HP!Live(h), t, k)
    BY <1>6, <1>7, <1>9, <2>2
  <2> QED BY <1>1, <2>1, <2>3, HeapHolds, HP!LinkExact
<1>12. ASSUME NEW y \in Id PROVE CellOK(g, y)
  <2>1. CASE y = t
    <3>1. Len(g[t].items) <= MaxItems
      BY <1>4, <1>6, <1>7, NodeAssumption
    <3>2. g[t].kind = "none" => g[t].refs = 0
      <4>1. CellOK(h, t)
        BY DEF Good
      <4> QED BY <4>1 DEF Linked, CellOK
    <3>3. Fits(g, t)
      <4>1. SUFFICES ASSUME t \in Node
                     PROVE  /\ g[t].kind \in NodeType /\ Len(g[t].items) <= 1
                            /\ \/ g[t].kind = "CONTAINER" /\ g[t].items[1].item \in Container
                               \/ g[t].kind = "VALUE" /\ g[t].items[1].item \in Value
        BY DEF Fits
      <4>2. /\ Len(g[t].items) = 1
            /\ \/ g[t].kind = "CONTAINER" /\ x \in Container
               \/ g[t].kind = "VALUE" /\ x \in Value
        BY <4>1 DEF Suits
      <4>3. n + 1 = 1 /\ g[t].items[1].item = x
        BY <1>6, <1>7, <4>2
      <4> QED BY <4>2, <4>3 DEF NodeType
    <3> QED BY <2>1, <3>1, <3>2, <3>3 DEF CellOK
  <2>2. CASE y # t
    <3>1. CellOK(h, y) /\ Alike(g, h, y)
      BY <2>2 DEF Good, Linked
    <3> QED BY <3>1 DEF CellOK, Fits, Alike
  <2> QED BY <2>1, <2>2
<1>13. \A y \in Id : h[y].sealed => g[y].sealed
  <2>1. \A y \in Id : g[y].sealed \in BOOLEAN /\ h[y].sealed \in BOOLEAN
    BY <1>1, CellFacts DEF Cell
  <2>2. ~ g[t].sealed => ~ h[t].sealed
    BY DEF Linked
  <2>3. \A y \in Id \ {t} : g[y].sealed = h[y].sealed
    BY DEF Linked, Alike
  <2> QED BY <2>1, <2>2, <2>3
<1>14. SealOK(g)
  <2>1. SUFFICES ASSUME NEW z \in Id, g[z].refs > 0, g[z].sealed,
                        NEW i \in DOMAIN g[z].items
                 PROVE  g[g[z].items[i].item].sealed
    BY DEF SealOK
  <2>2. CASE z = t
    <3>1. s = <<>> /\ h[x].sealed
      BY <1>3, <2>1, <2>2 DEF Linked
    <3>2. n = 0 /\ i = n + 1
      BY <1>4, <1>6, <1>7, <2>1, <2>2, <3>1, EmptySeq
    <3>3. g[z].items[i].item = x
      BY <1>6, <1>7, <2>2, <3>2
    <3> QED BY <1>13, <3>1, <3>3
  <2>3. CASE z # t
    <3>1. g[z].items = h[z].items /\ h[z].refs > 0 /\ h[z].sealed
      BY <2>1, <2>3 DEF Linked, Alike
    <3>2. h[z].items[i].item \in Id /\ h[h[z].items[i].item].sealed
      BY <2>1, <3>1, ChildLive DEF Good, SealOK
    <3> QED BY <1>13, <3>1, <3>2
  <2> QED BY <2>2, <2>3
<1>15. Minus(hold, x) \in [Id -> Nat]
  BY <1>10
<1> QED BY <1>10, <1>11, <1>12, <1>14 DEF Good

(* The i-th slot of t has gone: what it held is the client's.              *)
Unlinked(g, h, t, i) ==
  /\ \A y \in Id \ {t} : Alike(g, h, y)
  /\ g[t].kind = h[t].kind /\ g[t].refs = h[t].refs /\ g[t].sealed = h[t].sealed
  /\ Len(g[t].items) = Len(h[t].items) - 1
  /\ \A j \in 1 .. Len(h[t].items) - 1 :
       g[t].items[j] = h[t].items[IF j < i THEN j ELSE j + 1]

LEMMA GoodUnlink ==
  ASSUME NEW h, NEW hold, Good(h, hold), NEW g \in Heaps, NEW t \in Id,
         h[t].refs > 0, NEW i \in DOMAIN h[t].items, Unlinked(g, h, t, i),
         NEW x, x = h[t].items[i].item
  PROVE  Good(g, Plus(hold, x)) /\ x \in Id
<1>1. h \in Heaps /\ hold \in [Id -> Nat] /\ HP!Exact(h, hold)
  BY DEF Good
<1>2. PICK n \in Nat : n = Len(h[t].items) /\ DOMAIN h[t].items = 1 .. n /\ x \in Id
  BY <1>1, CellFacts
<1>3. /\ Len(g[t].items) = n - 1 /\ DOMAIN g[t].items = 1 .. n - 1
      /\ \A j \in 1 .. n - 1 : g[t].items[j] = h[t].items[IF j < i THEN j ELSE j + 1]
  BY <1>2, CellFacts DEF Unlinked
<1>4. i \in 1 .. n /\ n \in 1 .. MaxItems
  <2>1. CellOK(h, t)
    BY DEF Good
  <2> QED BY <1>2, <2>1, NodeAssumption DEF CellOK
<1>5. \A y \in Id : g[y].refs = h[y].refs /\ g[y].sealed = h[y].sealed
  BY DEF Unlinked, Alike
<1>6. HP!SlotRemoved(g, h, HP!Live(h), t, i)
  <2>1. t \in HP!Live(h) /\ HP!Live(h) \subseteq Id
    BY DEF HP!Live
  <2>2. \A y \in HP!Live(h) \ {t} : g[y].items = h[y].items
    BY <2>1 DEF Unlinked, Alike
  <2>3. \A j \in 1 .. n - 1 :
          g[t].items[j].item = h[t].items[IF j < i THEN j ELSE j + 1].item
    BY <1>3
  <2> QED BY <1>2, <1>3, <1>4, <2>1, <2>2, <2>3 DEF HP!SlotRemoved
<1>7. PICK more \in [Id -> Nat] : more = Plus(hold, x)
  BY <1>1, <1>2, PlusMinus
<1>8. HP!Exact(g, more)
  <2>0. x \in Id /\ \A d \in Id : Plus(hold, x)[d] = hold[d] + HP!Is(x, d)
    BY <1>1, <1>2, PlusMinus
  <2>1. \A d \in Id : g[d].refs = h[d].refs /\ more[d] = hold[d] + HP!Is(x, d)
    BY <1>5, <1>7, <2>0
  <2> QED BY <1>1, <1>6, <2>1, HeapHolds, HP!UnlinkExact
<1>9. ASSUME NEW y \in Id PROVE CellOK(g, y)
  <2>0. CellOK(h, y)
    BY DEF Good
  <2>1. CASE y = t
    <3>1. Len(g[t].items) <= MaxItems
      BY <1>3, <1>4, NodeAssumption
    <3>2. g[t].kind = "none" => g[t].refs = 0
      BY <2>0, <2>1 DEF Unlinked, CellOK
    <3>3. Fits(g, t)
      <4>1. SUFFICES ASSUME t \in Node
                     PROVE  /\ g[t].kind \in NodeType /\ Len(g[t].items) <= 1
                            /\ g[t].items = <<>>
        BY DEF Fits
      <4>2. h[t].kind \in NodeType /\ n <= 1
        BY <1>2, <2>0, <2>1, <4>1 DEF CellOK, Fits
      <4>3. Len(g[t].items) = 0 /\ g[t].items \in Seq(Pointer)
        BY <1>3, <1>4, <4>2, CellFacts
      <4> QED BY <4>2, <4>3, EmptySeq DEF Unlinked
    <3> QED BY <2>1, <3>1, <3>2, <3>3 DEF CellOK
  <2>2. CASE y # t
    <3>1. Alike(g, h, y)
      BY <2>2 DEF Unlinked
    <3> QED BY <2>0, <3>1 DEF CellOK, Fits, Alike
  <2> QED BY <2>1, <2>2
<1>10. SealOK(g)
  <2>1. SUFFICES ASSUME NEW z \in Id, g[z].refs > 0, g[z].sealed,
                        NEW j \in DOMAIN g[z].items
                 PROVE  g[g[z].items[j].item].sealed
    BY DEF SealOK
  <2>2. PICK k \in DOMAIN h[z].items : g[z].items[j] = h[z].items[k]
    <3>1. CASE z = t
      <4>1. j \in 1 .. n - 1
        BY <1>3, <2>1, <3>1
      <4>2. (IF j < i THEN j ELSE j + 1) \in 1 .. n
        BY <4>1
      <4> QED BY <1>2, <1>3, <3>1, <4>1, <4>2
    <3>2. CASE z # t
      BY <2>1, <3>2 DEF Unlinked, Alike
    <3> QED BY <3>1, <3>2
  <2>3. h[z].refs > 0 /\ h[z].sealed
    BY <1>5, <2>1
  <2>4. h[z].items[k].item \in Id /\ h[h[z].items[k].item].sealed
    BY <2>3, ChildLive DEF Good, SealOK
  <2> QED BY <1>5, <2>2, <2>4
<1> QED BY <1>2, <1>7, <1>8, <1>9, <1>10 DEF Good

(* Replacing the fields of one cell.                                       *)
LEMMA Replaced ==
  ASSUME NEW h \in Heaps, NEW t \in Id, NEW g,
         \A y \in Id \ {t} : g[y] = h[y], g[t] \in Cell, g = [y \in Id |-> g[y]]
  PROVE  g \in Heaps /\ \A y \in Id \ {t} : Alike(g, h, y)
<1>1. \A y \in Id : g[y] \in Cell
  BY CellFacts
<1>2. \A y \in Id \ {t} : Alike(g, h, y)
  BY DEF Alike
<1> QED BY <1>1, <1>2 DEF Heaps

(* What the client holds, and what is to be dropped.                       *)
Covers(more, hold, drop) == \A x \in Id : more[x] = hold[x] + drop[x]

(* A node that has let go of its data holds nothing, and is as it was.     *)
LEMMA GoodDropped ==
  ASSUME NEW h, NEW hold, Good(h, hold), NEW n \in Node, hold[n] > 0,
         NEW r, r = Dropped(h, n)
  PROVE  /\ Good(r, hold) /\ n \in Id
         /\ r[n].items = <<>> /\ r[n].kind = h[n].kind /\ r[n].sealed = h[n].sealed
         /\ r[n].refs > 0 /\ r[n] \in Cell
<1>1. h \in Heaps /\ hold \in [Id -> Nat]
  BY DEF Good
<1>2. n \in Id /\ h[n].refs > 0
  BY HeldLive DEF Id
<1>3. h[n].kind \in NodeType /\ Len(h[n].items) <= 1
  BY <1>2 DEF Good, CellOK, Fits
<1>4. PICK g : g = [h EXCEPT ![n].items = <<>>]
  OBVIOUS
<1>5. PICK old : old = {h[n].items[i].item : i \in DOMAIN h[n].items}
  OBVIOUS
<1>6. PICK drop : drop = [x \in Id |-> IF x \in old THEN 1 ELSE 0]
  OBVIOUS
<1>7. r = Release(g, drop)
  BY <1>4, <1>5, <1>6 DEF Dropped
<1>8. /\ \A y \in Id \ {n} : g[y] = h[y]
      /\ g[n] = [h[n] EXCEPT !.items = <<>>] /\ g = [y \in Id |-> g[y]]
  BY <1>1, <1>2, <1>4 DEF Heaps
<1>9. /\ g[n].items = <<>> /\ g[n].kind = h[n].kind /\ g[n].refs = h[n].refs
      /\ g[n].sealed = h[n].sealed /\ g[n] \in Cell
  <2>1. h[n] \in Cell
    BY <1>1, <1>2, CellFacts
  <2> QED BY <1>8, <2>1, EmptySeq DEF Cell
<1>10. g \in Heaps /\ \A y \in Id \ {n} : Alike(g, h, y)
  BY <1>1, <1>2, <1>8, <1>9, Replaced
<1>11. drop \in [Id -> Nat]
  BY <1>6
<1>12. ASSUME h[n].items = <<>> PROVE \E more : Good(g, more) /\ Covers(more, hold, drop)
  <2>1. DOMAIN h[n].items = {}
    BY <1>12, EmptySeq
  <2>2. old = {}
    BY <1>5, <2>1
  <2>3. CellOK(g, n)
    <3>1. Len(g[n].items) = 0
      BY <1>9, EmptySeq
    <3>2. Len(g[n].items) <= MaxItems /\ Len(g[n].items) <= 1
      BY <3>1, NodeAssumption
    <3>3. g[n].kind # "none"
      BY <1>3, <1>9 DEF NodeType
    <3> QED BY <1>3, <1>9, <3>2, <3>3 DEF CellOK, Fits
  <2>4. Good(g, hold)
    BY <1>2, <1>9, <1>10, <1>12, <2>3, GoodSame
  <2>5. ASSUME NEW x \in Id PROVE hold[x] = hold[x] + drop[x]
    <3>1. drop[x] = 0 /\ hold[x] \in Nat
      BY <1>1, <1>6, <2>2
    <3> QED BY <3>1
  <2>6. Covers(hold, hold, drop)
    BY <2>5 DEF Covers
  <2> QED BY <2>4, <2>6
<1>13. ASSUME h[n].items # <<>> PROVE \E more : Good(g, more) /\ Covers(more, hold, drop)
  <2>1. h[n].items \in Seq(Pointer) /\ Len(h[n].items) \in Nat
        /\ DOMAIN h[n].items = 1 .. Len(h[n].items)
    BY <1>1, <1>2, CellFacts
  <2>2. Len(h[n].items) = 1
    <3>1. Len(h[n].items) # 0
      BY <1>13, <2>1, EmptySeq
    <3>2. PICK len \in Nat : len = Len(h[n].items)
      BY <2>1
    <3>3. len <= 1
      BY <1>3, <3>2
    <3>4. len # 0
      BY <3>1, <3>2
    <3>5. len = 1
      BY <3>3, <3>4
    <3> QED BY <3>2, <3>5
  <2>3. 1 \in DOMAIN h[n].items /\ DOMAIN h[n].items = {1}
    BY <2>1, <2>2
  <2>4. PICK x : x = h[n].items[1].item
    OBVIOUS
  <2>5. old = {x}
    BY <1>5, <2>3, <2>4
  <2>6. Unlinked(g, h, n, 1)
    <3>1. Len(g[n].items) = 0
      BY <1>9, EmptySeq
    <3> QED BY <1>9, <1>10, <2>2, <3>1 DEF Unlinked
  <2>7. Good(g, Plus(hold, x)) /\ x \in Id
    BY <1>2, <1>10, <2>3, <2>4, <2>6, GoodUnlink
  <2>8. \A y \in Id : Plus(hold, x)[y] = hold[y] + HP!Is(x, y)
    BY <1>1, <2>7, PlusMinus
  <2>9. \A y \in Id : drop[y] = HP!Is(x, y)
    BY <1>6, <2>5, IsType
  <2>10. Covers(Plus(hold, x), hold, drop)
    BY <2>8, <2>9 DEF Covers
  <2> QED BY <2>7, <2>10
<1>14. PICK more : Good(g, more) /\ Covers(more, hold, drop)
  BY <1>12, <1>13
<1>15. Good(r, hold) /\ \A x \in Id : r[x] = Unused \/ Kept(r, g, x)
  <2>1. ASSUME NEW x \in Id PROVE drop[x] <= more[x] /\ hold[x] = more[x] - drop[x]
    <3>1. hold[x] \in Nat /\ drop[x] \in Nat /\ more[x] = hold[x] + drop[x]
      BY <1>1, <1>11, <1>14 DEF Covers
    <3> QED BY <3>1
  <2> QED BY <1>1, <1>7, <1>11, <1>14, <2>1, GoodRelease
<1>16. r[n].refs > 0 /\ r[n] \in Cell
  BY <1>2, <1>15, HeldLive, CellFacts DEF Good
<1>17. Kept(r, g, n)
  BY <1>2, <1>15, <1>16, UnusedFacts
<1> QED BY <1>2, <1>9, <1>15, <1>16, <1>17 DEF Kept

(* Sealing: the walk stops at what is sealed, which is sealed all the way  *)
(* down already.                                                           *)
LEMMA GoodSeal ==
  ASSUME NEW h, NEW hold, Good(h, hold), NEW x \in Id, NEW g, g = H!Seal(h, x)
  PROVE  Good(g, hold)
<1>1. h \in Heaps /\ hold \in [Id -> Nat] /\ HP!Exact(h, hold)
  BY DEF Good
<1>2. PICK S : S = HP!SealSet(h, x)
  OBVIOUS
<1>3. \A d \in Id : g[d] = [h[d] EXCEPT !.sealed = @ \/ d \in S]
  BY <1>2, SameHeap DEF H!Seal
<1>4. ASSUME NEW d \in Id
      PROVE  /\ g[d].items = h[d].items /\ g[d].refs = h[d].refs /\ g[d].kind = h[d].kind
             /\ g[d].sealed <=> h[d].sealed \/ d \in S
             /\ g[d] \in Cell
  <2>1. h[d] \in Cell
    BY <1>1, CellFacts
  <2>2. g[d] = [h[d] EXCEPT !.sealed = @ \/ d \in S]
    BY <1>3
  <2> QED BY <2>1, <2>2 DEF Cell
<1>5. g \in Heaps
  <2>1. g = [d \in Id |-> g[d]]
    BY DEF H!Seal
  <2> QED BY <1>4, <2>1 DEF Heaps
<1>6. HP!Exact(g, hold)
  BY <1>1, <1>4, HeapHolds, HP!SameExact
<1>7. ASSUME NEW d \in Id PROVE CellOK(g, d)
  <2>1. CellOK(h, d)
    BY DEF Good
  <2> QED BY <1>4, <2>1 DEF CellOK, Fits
<1>8. SealOK(g)
  <2>1. SUFFICES ASSUME NEW z \in Id, g[z].refs > 0, g[z].sealed,
                        NEW i \in DOMAIN g[z].items
                 PROVE  g[g[z].items[i].item].sealed
    BY DEF SealOK
  <2>2. h[z].refs > 0 /\ i \in DOMAIN h[z].items /\ g[z].items = h[z].items
    BY <1>4, <2>1
  <2>3. PICK y \in Id : y = h[z].items[i].item
    BY <2>2, ChildLive
  <2>4. CASE h[z].sealed
    BY <1>4, <2>2, <2>3, <2>4 DEF Good, SealOK
  <2>5. CASE ~ h[z].sealed
    <3>1. z \in S
      BY <1>4, <2>1, <2>5
    <3>2. HP!Children(h, z) \subseteq S
      BY <1>2, <2>5, <3>1, HeapHolds, HP!SealSetClosed
    <3>3. y \in HP!Children(h, z)
      BY <2>2, <2>3 DEF HP!Children
    <3> QED BY <1>4, <2>2, <2>3, <3>2, <3>3
  <2> QED BY <2>4, <2>5
<1> QED BY <1>1, <1>5, <1>6, <1>7, <1>8 DEF Good

-----------------------------------------------------------------------------
(* The calls.                                                              *)

LEMMA Ids ==
  /\ \A n \in Node : n \in Id /\ n \notin Container /\ n \notin Value
  /\ \A c \in Container : c \in Id /\ c \notin Node /\ c \notin Value
  /\ \A v \in Value : v \in Id /\ v \notin Node /\ v \notin Container
BY NodeAssumption DEF Id

LEMMA InitGood == Init => IInv
<1>1. SUFFICES ASSUME Init PROVE Good(heap, held)
  BY DEF IInv
<1>2. heap \in Heaps /\ held \in [Id -> Nat]
  BY <1>1, UnusedFacts DEF Init, Heaps
<1>3. \A x \in Id : heap[x] = Unused /\ held[x] = 0
  BY <1>1 DEF Init
<1>4. \A x \in Id : CellOK(heap, x)
  <2>1. Len(Unused.items) = 0 /\ Unused.refs = 0
    BY UnusedFacts, EmptySeq
  <2>2. ~ (0 > 0) /\ 0 <= MaxItems
    BY NodeAssumption
  <2> QED BY <1>3, <2>1, <2>2 DEF CellOK, Fits
<1>5. HP!Exact(heap, held)
  <2>1. HP!Live(heap) = {}
    BY <1>3, UnusedFacts DEF HP!Live
  <2>2. \A x \in Id : HP!Edges(heap, {}, x) = 0
    BY HeapHolds, HP!NoEdges
  <2>3. ASSUME NEW x \in Id
        PROVE  heap[x].refs = held[x] + HP!Edges(heap, HP!Live(heap), x)
    <3>1. heap[x].refs = 0 /\ held[x] = 0
      BY <1>3, UnusedFacts
    <3>2. HP!Edges(heap, HP!Live(heap), x) = 0
      BY <2>1, <2>2
    <3> QED BY <3>1, <3>2
  <2> QED BY <2>3 DEF HP!Exact
<1>6. SealOK(heap)
  BY <1>3, UnusedFacts DEF SealOK
<1> QED BY <1>2, <1>4, <1>5, <1>6 DEF Good

LEMMA NodeNewGood ==
  ASSUME IInv, NEW n \in Node, NEW t \in NodeType, NodeNew(n, t)
  PROVE  IInv'
<1>1. n \in Id /\ Good(heap, held) /\ heap[n].kind = "none" /\ heap' = Alloc(heap, n, t)
  BY Ids DEF IInv, NodeNew
<1>2. held' = Plus(held, n)
  BY DEF NodeNew, Gain, Plus
<1>3. Good(heap', Plus(held, n))
  BY <1>1, GoodAlloc
<1> QED BY <1>2, <1>3 DEF IInv

LEMMA ContainerNewGood ==
  ASSUME IInv, NEW c \in Container, ContainerNew(c)
  PROVE  IInv'
<1>1. /\ c \in Id /\ c \notin Node /\ Good(heap, held)
      /\ heap[c].kind = "none" /\ heap' = Alloc(heap, c, "container")
  BY Ids DEF IInv, ContainerNew
<1>2. held' = Plus(held, c)
  BY DEF ContainerNew, Gain, Plus
<1>3. Good(heap', Plus(held, c))
  BY <1>1, GoodAlloc
<1> QED BY <1>2, <1>3 DEF IInv

LEMMA NodeInitGood ==
  ASSUME IInv, NEW n \in Node, NEW t \in NodeType, NodeInit(n, t)
  PROVE  IInv'
<1>1. Good(heap, held) /\ held[n] > 0 /\ held' = held
  BY DEF IInv, NodeInit
<1>2. PICK r : r = Dropped(heap, n)
  OBVIOUS
<1>3. PICK g : g = [r EXCEPT ![n].kind = t]
  OBVIOUS
<1>4. heap' = g
  BY <1>2, <1>3 DEF NodeInit
<1>5. /\ Good(r, held) /\ n \in Id /\ r \in Heaps
      /\ r[n].items = <<>> /\ r[n].refs > 0 /\ r[n] \in Cell
  BY <1>1, <1>2, GoodDropped DEF Good
<1>6. /\ \A y \in Id \ {n} : g[y] = r[y]
      /\ g[n] = [r[n] EXCEPT !.kind = t] /\ g = [y \in Id |-> g[y]]
  BY <1>3, <1>5 DEF Heaps
<1>7. /\ g[n].items = <<>> /\ g[n].kind = t /\ g[n].refs = r[n].refs
      /\ g[n].sealed = r[n].sealed /\ g[n] \in Cell
  BY <1>5, <1>6 DEF Cell
<1>8. g \in Heaps /\ \A y \in Id \ {n} : Alike(g, r, y)
  BY <1>5, <1>6, <1>7, Replaced
<1>9. CellOK(g, n)
  <2>1. Len(g[n].items) = 0
    BY <1>7, EmptySeq
  <2>2. Len(g[n].items) <= MaxItems /\ Len(g[n].items) <= 1
    BY <2>1, NodeAssumption
  <2>3. g[n].kind # "none"
    BY <1>7 DEF NodeType
  <2> QED BY <1>7, <2>2, <2>3 DEF CellOK, Fits
<1>10. Good(g, held)
  BY <1>5, <1>7, <1>8, <1>9, GoodSame
<1> QED BY <1>1, <1>4, <1>10 DEF IInv

LEMMA RefGood ==
  ASSUME IInv, NEW x \in Id, Ref(x)
  PROVE  IInv'
<1>1. Good(heap, held) /\ heap[x].refs > 0 /\ heap' = H!AddRef(heap, x)
  BY DEF IInv, Ref, Live
<1>2. held' = Plus(held, x)
  BY DEF Ref, Gain, Plus
<1>3. Good(heap', Plus(held, x))
  BY <1>1, GoodMore
<1> QED BY <1>2, <1>3 DEF IInv

LEMMA OneDrop ==
  ASSUME NEW x \in Id
  PROVE  H!One(x) \in [Id -> Nat] /\ \A y \in Id : H!One(x)[y] = HP!Is(x, y)
BY IsType DEF H!One, H!NoDrop

LEMMA UnrefGood ==
  ASSUME IInv, NEW x \in Id, Unref(x)
  PROVE  IInv'
<1>1. /\ Good(heap, held) /\ held \in [Id -> Nat] /\ held[x] > 0
      /\ heap' = Release(heap, H!One(x))
  BY DEF IInv, Good, Unref
<1>2. held' = Minus(held, x)
  BY DEF Unref, Lose, Minus
<1>3. Minus(held, x) \in [Id -> Nat] /\ \A y \in Id : Minus(held, x)[y] = held[y] - HP!Is(x, y)
  BY <1>1, PlusMinus
<1>4. PICK drop \in [Id -> Nat] : drop = H!One(x) /\ \A y \in Id : drop[y] = HP!Is(x, y)
  BY OneDrop
<1>5. \A y \in Id : drop[y] <= held[y]
  BY <1>1, <1>4, IsType
<1>6. PICK less \in [Id -> Nat] : less = Minus(held, x) /\ \A y \in Id : less[y] = held[y] - drop[y]
  BY <1>3, <1>4
<1>7. Good(heap', less)
  BY <1>1, <1>4, <1>5, <1>6, GoodRelease
<1> QED BY <1>2, <1>6, <1>7 DEF IInv

LEMMA SealGood ==
  ASSUME IInv, NEW x \in Id, Seal(x)
  PROVE  IInv'
<1>1. Good(heap, held) /\ heap' = H!Seal(heap, x) /\ held' = held
  BY DEF IInv, Seal, Sealed
<1>2. Good(heap', held)
  BY <1>1, GoodSeal
<1> QED BY <1>1, <1>2 DEF IInv

LEMMA AddRefCells ==
  ASSUME NEW f \in Heaps, NEW x \in Id, NEW g, g = H!AddRef(f, x)
  PROVE  /\ g \in Heaps /\ \A y \in Id \ {x} : g[y] = f[y]
         /\ g[x].refs = f[x].refs + 1 /\ g[x].kind = f[x].kind /\ g[x].items = f[x].items
         /\ g[x].sealed = f[x].sealed
<1>1. /\ \A y \in Id \ {x} : g[y] = f[y]
      /\ g[x] = [f[x] EXCEPT !.refs = @ + 1] /\ g = [y \in Id |-> g[y]]
  BY DEF H!AddRef, Heaps
<1>2. f[x] \in Cell /\ f[x].refs \in Nat
  BY CellFacts
<1>3. /\ g[x].refs = f[x].refs + 1 /\ g[x].kind = f[x].kind /\ g[x].items = f[x].items
      /\ g[x].sealed = f[x].sealed /\ g[x] \in Cell
  BY <1>1, <1>2 DEF Cell
<1>4. g \in Heaps
  BY <1>1, <1>3, Replaced
<1> QED BY <1>1, <1>3, <1>4

(* Data says what a live node points to.                                   *)
LEMMA DataFacts ==
  ASSUME IInv, NEW n \in Node, heap[n].refs > 0
  PROVE  /\ Data(n) = NULL <=> heap[n].items = <<>>
         /\ Data(n) # NULL =>
              /\ Data(n) \in Id /\ heap[Data(n)].refs > 0
              /\ Len(heap[n].items) = 1
              /\ heap[n].items = Append(<<>>, [name |-> NULL, item |-> Data(n)])
              /\ heap[n].sealed => heap[Data(n)].sealed
              /\ \/ heap[n].kind = "CONTAINER" /\ Data(n) \in Container
                 \/ heap[n].kind = "VALUE" /\ Data(n) \in Value
<1>1. Good(heap, held) /\ heap \in Heaps /\ n \in Id
  BY Ids DEF IInv, Good
<1>2. PICK s \in Seq(Pointer) : s = heap[n].items
  BY <1>1, CellFacts
<1>3. Len(s) \in Nat /\ DOMAIN s = 1 .. Len(s)
  BY <1>2, LenProperties
<1>4. CASE s = <<>>
  BY <1>2, <1>4 DEF Data
<1>5. CASE s # <<>>
  <2>1. Len(s) <= 1
    BY <1>1, <1>2 DEF Good, CellOK, Fits
  <2>2. Len(s) # 0
    BY <1>2, <1>5, EmptySeq
  <2>3. Len(s) = 1
    BY <1>3, <2>1, <2>2
  <2>4. 1 \in DOMAIN heap[n].items
    BY <1>2, <1>3, <2>3
  <2>5. PICK x \in Id : x = s[1].item /\ heap[x].refs > 0
    BY <1>1, <1>2, <2>4, ChildLive
  <2>6. Data(n) = x /\ x # NULL
    BY <1>2, <1>5, <2>5, NodeAssumption DEF Data
  <2>7. PICK p \in Pointer : p = s[1]
    BY <1>2, <2>4, ElementOfSeq
  <2>8. p = [name |-> NULL, item |-> x]
    BY <2>5, <2>7 DEF Pointer
  <2>9. s = <<p>>
    BY <1>2, <2>3, <2>7
  <2>10. s = Append(<<>>, p)
    BY <2>9
  <2>11. heap[n].sealed => heap[x].sealed
    BY <1>1, <1>2, <2>4, <2>5 DEF Good, SealOK
  <2>12. \/ heap[n].kind = "CONTAINER" /\ x \in Container
         \/ heap[n].kind = "VALUE" /\ x \in Value
    BY <1>1, <1>2, <1>5, <2>5 DEF Good, CellOK, Fits
  <2> QED BY <1>2, <1>5, <2>3, <2>5, <2>6, <2>8, <2>10, <2>11, <2>12
<1> QED BY <1>4, <1>5

LEMMA NodeCopyGood ==
  ASSUME IInv, NEW n \in Node, NEW m \in Node, NodeCopy(n, m)
  PROVE  IInv'
<1>1. /\ Good(heap, held) /\ held[n] > 0 /\ heap[m].kind = "none"
      /\ n \in Id /\ m \in Id /\ heap \in Heaps /\ held \in [Id -> Nat]
  BY Ids DEF IInv, Good, NodeCopy
<1>2. heap[n].refs > 0 /\ heap[n].kind \in NodeType /\ heap[m].refs = 0
  <2>1. heap[n].refs > 0
    BY <1>1, HeldLive
  <2>2. CellOK(heap, n) /\ CellOK(heap, m)
    BY <1>1 DEF Good
  <2> QED BY <1>1, <2>1, <2>2 DEF CellOK, Fits
<1>3. PICK f : f = Alloc(heap, m, heap[n].kind)
  OBVIOUS
<1>4. /\ Good(f, Plus(held, m)) /\ f \in Heaps /\ \A y \in Id \ {m} : f[y] = heap[y]
      /\ f[m] = [kind |-> heap[n].kind, items |-> <<>>, refs |-> 1,
                 sealed |-> FALSE, datum |-> NULL]
  BY <1>1, <1>2, <1>3, GoodAlloc DEF Good
<1>5. /\ f[m].kind = heap[n].kind /\ f[m].items = <<>> /\ f[m].refs = 1 /\ ~ f[m].sealed
      /\ f[m] \in Cell
  BY <1>1, <1>4, CellFacts
<1>6. PICK new : new = [f EXCEPT ![m].items = heap[n].items, ![m].sealed = heap[n].sealed]
  OBVIOUS
<1>7. /\ \A y \in Id \ {m} : new[y] = f[y]
      /\ new[m] = [f[m] EXCEPT !.items = heap[n].items, !.sealed = heap[n].sealed]
      /\ new = [y \in Id |-> new[y]]
  BY <1>1, <1>4, <1>6 DEF Heaps
<1>8. heap[n] \in Cell /\ heap[n].items \in Seq(Pointer) /\ heap[n].sealed \in BOOLEAN
  BY <1>1, CellFacts DEF Cell
<1>9. /\ new[m].kind = heap[n].kind /\ new[m].items = heap[n].items /\ new[m].refs = 1
      /\ new[m].sealed = heap[n].sealed /\ new[m] \in Cell
  BY <1>5, <1>7, <1>8 DEF Cell, Pointer
<1>10. new \in Heaps /\ \A y \in Id \ {m} : Alike(new, f, y)
  BY <1>1, <1>4, <1>7, <1>9, Replaced
<1>11. PICK d : d = Data(n)
  OBVIOUS
<1>12. /\ heap' = IF d = NULL THEN new ELSE H!AddRef(new, d)
       /\ held' = Plus(held, m)
  BY <1>3, <1>6, <1>11 DEF NodeCopy, Gain, Plus
<1>13. Good(heap', Plus(held, m))
  <2>1. CASE d = NULL
    <3>1. new[m].items = <<>>
      BY <1>2, <1>9, <1>11, <2>1, DataFacts
    <3>2. Len(new[m].items) <= MaxItems /\ Len(new[m].items) <= 1
      <4>1. Len(new[m].items) = 0
        BY <3>1, EmptySeq
      <4> QED BY <4>1, NodeAssumption
    <3>3. CellOK(new, m)
      <4>1. new[m].kind # "none" /\ new[m].kind \in NodeType
        BY <1>2, <1>9 DEF NodeType
      <4> QED BY <3>1, <3>2, <4>1 DEF CellOK, Fits
    <3>4. Good(new, Plus(held, m))
      BY <1>1, <1>4, <1>5, <1>9, <1>10, <3>1, <3>3, GoodSame
    <3> QED BY <1>12, <2>1, <3>4
  <2>2. CASE d # NULL
    <3>1. /\ d \in Id /\ heap[d].refs > 0 /\ Len(heap[n].items) = 1
          /\ heap[n].sealed => heap[d].sealed
          /\ heap[n].items = Append(<<>>, [name |-> NULL, item |-> d])
          /\ \/ heap[n].kind = "CONTAINER" /\ d \in Container
             \/ heap[n].kind = "VALUE" /\ d \in Value
      BY <1>2, <1>11, <2>2, DataFacts
    <3>2. d # m
      BY <1>2, <3>1
    <3>3. PICK r : r = H!AddRef(f, d)
      OBVIOUS
    <3>4. PICK more \in [Id -> Nat] : more = Plus(held, m)
      BY <1>1, PlusMinus
    <3>5. /\ Good(r, Plus(more, d)) /\ \A y \in Id \ {d} : r[y] = f[y]
          /\ r[d].refs = f[d].refs + 1 /\ r[d].kind = f[d].kind /\ r[d].items = f[d].items
          /\ r[d].sealed = f[d].sealed
      BY <1>4, <3>1, <3>2, <3>3, <3>4, GoodMore
    <3>6. PICK g : g = H!AddRef(new, d)
      OBVIOUS
    <3>7. /\ g \in Heaps /\ \A y \in Id \ {d} : g[y] = new[y]
          /\ g[d].refs = new[d].refs + 1 /\ g[d].kind = new[d].kind /\ g[d].items = new[d].items
          /\ g[d].sealed = new[d].sealed
      BY <1>10, <3>1, <3>6, AddRefCells
    <3>8. \A y \in Id \ {m} : Alike(g, r, y)
      BY <1>7, <3>1, <3>2, <3>5, <3>7 DEF Alike
    <3>9. g[m] = new[m] /\ r[m] = f[m] /\ r[d].sealed = heap[d].sealed
      BY <1>1, <1>4, <3>1, <3>2, <3>5, <3>7
    <3>10. Linked(g, r, m, d)
      BY <1>5, <1>9, <3>1, <3>8, <3>9 DEF Linked
    <3>11. Suits(g, m, d)
      <4>1. Len(g[m].items) = 1
        BY <1>9, <3>1, <3>9
      <4> QED BY <1>9, <3>1, <3>9, <4>1 DEF Suits
    <3>12. Plus(more, d)[d] > 0 /\ Minus(Plus(more, d), d) = more
      <4>1. Plus(more, d)[d] = more[d] + 1 /\ more[d] \in Nat
        BY <3>1, <3>4 DEF Plus
      <4> QED BY <3>1, <3>4, <4>1, PlusMinus
    <3>13. Len(r[m].items) < MaxItems /\ r[m].refs > 0
      <4>1. Len(r[m].items) = 0
        BY <1>5, <3>9, EmptySeq
      <4> QED BY <1>5, <3>9, <4>1, NodeAssumption
    <3>14. Good(g, Minus(Plus(more, d), d))
      BY <1>1, <3>1, <3>5, <3>7, <3>10, <3>11, <3>12, <3>13, GoodLink
    <3> QED BY <1>12, <2>2, <3>4, <3>6, <3>12, <3>14
  <2> QED BY <2>1, <2>2
<1> QED BY <1>12, <1>13 DEF IInv

(* What holds the one container there is to hold.                          *)
LEMMA Holds ==
  ASSUME NEW x \in Id
  PROVE  /\ Holding(x) = Append(<<>>, [name |-> NULL, item |-> x])
         /\ Len(Holding(x)) = 1 /\ Holding(x) \in Seq(Pointer)
<1>1. PICK p \in Pointer : p = [name |-> NULL, item |-> x]
  BY DEF Pointer
<1>2. x # NULL
  BY NodeAssumption
<1>3. Holding(x) = <<p>>
  BY <1>1, <1>2 DEF Holding
<1>4. <<p>> = Append(<<>>, p) /\ Len(<<p>>) = 1 /\ <<p>> \in Seq(Pointer)
  OBVIOUS
<1> QED BY <1>1, <1>3, <1>4

Matches(kind, x) == \/ kind = "CONTAINER" /\ x \in Container
                    \/ kind = "VALUE" /\ x \in Value

(* A node that has let go of its data is pointed at something else.        *)
LEMMA Pointed ==
  ASSUME NEW r \in Heaps, NEW n \in Node, NEW x \in Id, r[n].items = <<>>, ~ r[n].sealed,
         Matches(r[n].kind, x), NEW g, g = [r EXCEPT ![n].items = Holding(x)]
  PROVE  /\ g \in Heaps /\ Linked(g, r, n, x) /\ Suits(g, n, x)
         /\ Len(r[n].items) < MaxItems
         /\ \A y \in Id \ {n} : g[y] = r[y]
<1>1. n \in Id /\ r[n] \in Cell
  BY Ids, CellFacts
<1>2. /\ \A y \in Id \ {n} : g[y] = r[y]
      /\ g[n] = [r[n] EXCEPT !.items = Holding(x)] /\ g = [y \in Id |-> g[y]]
  BY <1>1 DEF Heaps
<1>3. /\ g[n].kind = r[n].kind /\ g[n].refs = r[n].refs /\ g[n].sealed = r[n].sealed
      /\ g[n].items = Holding(x) /\ g[n] \in Cell
  BY <1>1, <1>2, Holds DEF Cell, Pointer
<1>4. g \in Heaps /\ \A y \in Id \ {n} : Alike(g, r, y)
  BY <1>1, <1>2, <1>3, Replaced
<1>5. Linked(g, r, n, x)
  BY <1>3, <1>4, Holds DEF Linked
<1>6. Suits(g, n, x)
  BY <1>3, Holds DEF Suits, Matches
<1>7. Len(r[n].items) < MaxItems
  <2>1. Len(r[n].items) = 0
    BY EmptySeq
  <2> QED BY <2>1, NodeAssumption
<1> QED BY <1>2, <1>3, <1>4, <1>5, <1>6, <1>7

LEMMA TakeContainerGood ==
  ASSUME IInv, NEW n \in Node, NEW c \in Container, TakeContainer(n, c)
  PROVE  IInv'
<1>1. /\ Good(heap, held) /\ held[n] > 0 /\ held[c] > 0 /\ c \in Id
      /\ heap[n].kind = "CONTAINER" /\ ~ heap[n].sealed
  BY Ids DEF IInv, TakeContainer
<1>2. PICK r : r = Dropped(heap, n)
  OBVIOUS
<1>3. /\ Good(r, held) /\ r \in Heaps /\ n \in Id /\ r[n].refs > 0
      /\ r[n].items = <<>> /\ r[n].kind = "CONTAINER" /\ ~ r[n].sealed
  BY <1>1, <1>2, GoodDropped DEF Good
<1>4. PICK g : g = [r EXCEPT ![n].items = Holding(c)]
  OBVIOUS
<1>5. g \in Heaps /\ Linked(g, r, n, c) /\ Suits(g, n, c) /\ Len(r[n].items) < MaxItems
  <2>1. Matches(r[n].kind, c)
    BY <1>3 DEF Matches
  <2> QED BY <1>1, <1>3, <1>4, <2>1, Pointed
<1>6. Good(g, Minus(held, c))
  BY <1>1, <1>3, <1>5, GoodLink
<1>7. heap' = g /\ held' = Minus(held, c)
  BY <1>2, <1>4 DEF TakeContainer, Lose, Minus
<1> QED BY <1>6, <1>7 DEF IInv

LEMMA SetContainerGood ==
  ASSUME IInv, NEW n \in Node, NEW c \in Container, SetContainer(n, c)
  PROVE  IInv'
<1>1. /\ Good(heap, held) /\ held[n] > 0 /\ held[c] > 0 /\ c \in Id /\ held \in [Id -> Nat]
      /\ heap[n].kind = "CONTAINER" /\ ~ heap[n].sealed
  BY Ids DEF IInv, Good, SetContainer
<1>2. PICK r : r = Dropped(heap, n)
  OBVIOUS
<1>3. /\ Good(r, held) /\ r \in Heaps /\ n \in Id /\ r[n].refs > 0
      /\ r[n].items = <<>> /\ r[n].kind = "CONTAINER" /\ ~ r[n].sealed
  BY <1>1, <1>2, GoodDropped DEF Good
<1>4. c # n /\ r[c].refs > 0
  BY <1>1, <1>3, Ids, HeldLive
<1>5. PICK s : s = H!AddRef(r, c)
  OBVIOUS
<1>6. /\ Good(s, Plus(held, c)) /\ \A y \in Id \ {c} : s[y] = r[y]
      /\ s[c].refs = r[c].refs + 1 /\ s[c].kind = r[c].kind /\ s[c].items = r[c].items
      /\ s[c].sealed = r[c].sealed
  BY <1>1, <1>3, <1>4, <1>5, GoodMore
<1>7. PICK f : f = [r EXCEPT ![n].items = Holding(c)]
  OBVIOUS
<1>8. /\ f \in Heaps /\ Linked(f, r, n, c) /\ Suits(f, n, c) /\ Len(r[n].items) < MaxItems
      /\ \A y \in Id \ {n} : f[y] = r[y]
      /\ f[n].kind = r[n].kind /\ f[n].refs = r[n].refs /\ f[n].sealed = r[n].sealed
      /\ f[n].items = Holding(c)
  <2>1. Matches(r[n].kind, c)
    BY <1>3 DEF Matches
  <2>2. /\ f \in Heaps /\ Linked(f, r, n, c) /\ Suits(f, n, c) /\ Len(r[n].items) < MaxItems
    BY <1>1, <1>3, <1>7, <2>1, Pointed
  <2>3. \A y \in Id \ {n} : f[y] = r[y]
    BY <1>1, <1>3, <1>7, <2>1, Pointed
  <2>4. /\ f[n].kind = r[n].kind /\ f[n].refs = r[n].refs /\ f[n].sealed = r[n].sealed
        /\ f[n].items = Holding(c)
    <3>1. r[n] \in Cell /\ f[n] = [r[n] EXCEPT !.items = Holding(c)]
      BY <1>3, <1>7, CellFacts DEF Heaps
    <3> QED BY <3>1 DEF Cell
  <2> QED BY <2>2, <2>3, <2>4
<1>9. PICK g : g = H!AddRef(f, c)
  OBVIOUS
<1>10. /\ g \in Heaps /\ \A y \in Id \ {c} : g[y] = f[y]
       /\ g[c].refs = f[c].refs + 1 /\ g[c].kind = f[c].kind /\ g[c].items = f[c].items
       /\ g[c].sealed = f[c].sealed
  BY <1>1, <1>8, <1>9, AddRefCells, SMTT(30)
<1>11. \A y \in Id \ {n} : Alike(g, s, y)
  BY <1>1, <1>4, <1>6, <1>8, <1>10 DEF Alike
<1>12. g[n] = f[n] /\ s[n] = r[n]
  BY <1>3, <1>4, <1>6, <1>10
<1>13. Linked(g, s, n, c) /\ Suits(g, n, c)
  <2>1. Suits(g, n, c)
    BY <1>8, <1>12 DEF Suits
  <2>2. Linked(g, s, n, c)
    BY <1>1, <1>3, <1>8, <1>11, <1>12, Holds DEF Linked
  <2> QED BY <2>1, <2>2
<1>14. Plus(held, c)[c] > 0 /\ Minus(Plus(held, c), c) = held
  <2>1. Plus(held, c)[c] = held[c] + 1 /\ held[c] \in Nat
    BY <1>1 DEF Plus
  <2> QED BY <1>1, <2>1, PlusMinus
<1>15. Good(g, Minus(Plus(held, c), c))
  BY <1>1, <1>3, <1>6, <1>8, <1>10, <1>12, <1>13, <1>14, GoodLink
<1>16. heap' = g /\ held' = held
  BY <1>2, <1>7, <1>9 DEF SetContainer
<1> QED BY <1>14, <1>15, <1>16 DEF IInv

LEMMA SetScalarGood ==
  ASSUME IInv, NEW n \in Node, NEW d \in Datum, SetScalar(n, d)
  PROVE  IInv'
<1>1. /\ Good(heap, held) /\ held[n] > 0 /\ heap \in Heaps /\ held \in [Id -> Nat]
      /\ heap[n].kind = "VALUE" /\ ~ heap[n].sealed /\ n \in Id /\ held' = held
  BY Ids DEF IInv, Good, SetScalar
<1>2. heap[n].refs > 0
  BY <1>1, HeldLive
(* Only the scalar of a value changes.                                     *)
<1>3. ASSUME NEW f \in Heaps, NEW v \in Id, NEW g, g = ValueSet(f, v, d)
      PROVE  /\ g \in Heaps /\ \A y \in Id \ {v} : g[y] = f[y]
             /\ Alike(g, f, v)
  <2>1. PICK e : e = IF f[v].sealed THEN Zero ELSE d
    OBVIOUS
  <2>2. /\ \A y \in Id \ {v} : g[y] = f[y]
        /\ g[v] = [f[v] EXCEPT !.datum = e] /\ g = [y \in Id |-> g[y]]
    BY <1>3, <2>1 DEF ValueSet, Heaps
  <2>3. f[v] \in Cell /\ e \in Datum \cup {Zero, NULL}
    BY <2>1, CellFacts
  <2>4. Alike(g, f, v) /\ g[v] \in Cell
    BY <2>2, <2>3 DEF Cell, Alike
  <2>5. g \in Heaps
    BY <2>2, <2>4, Replaced
  <2> QED BY <2>2, <2>4, <2>5
<1>4. CASE Data(n) # NULL
  <2>1. PICK v \in Id : v = Data(n)
    BY <1>2, <1>4, DataFacts
  <2>2. heap' = ValueSet(heap, v, d)
    BY <1>4, <2>1 DEF SetScalar
  <2>3. /\ heap' \in Heaps /\ \A y \in Id \ {v} : heap'[y] = heap[y]
        /\ Alike(heap', heap, v)
    BY <1>1, <1>3, <2>2
  <2>4. PICK g : g = heap'
    OBVIOUS
  <2>5. /\ g \in Heaps /\ \A y \in Id \ {v} : Alike(g, heap, y)
        /\ Alike(g, heap, v)
    BY <2>3, <2>4 DEF Alike
  <2>6. CellOK(heap, v)
    BY <1>1 DEF Good
  <2>7. CellOK(g, v)
    BY <2>5, <2>6 DEF CellOK, Fits, Alike
  <2>8. Good(g, held)
    BY <1>1, <2>5, <2>7, GoodSame DEF Alike
  <2> QED BY <1>1, <2>4, <2>8 DEF IInv
<1>5. CASE Data(n) = NULL
  <2>1. PICK v \in Value :
          /\ heap[v].kind = "none"
          /\ heap' = ValueSet([Alloc(heap, v, "value") EXCEPT ![n].items = Holding(v)], v, d)
    BY <1>5 DEF SetScalar
  <2>2. v \in Id /\ v \notin Node /\ v # n
    BY Ids
  <2>3. heap[n].items = <<>>
    BY <1>2, <1>5, DataFacts
  <2>4. PICK r : r = Alloc(heap, v, "value")
    OBVIOUS
  <2>5. /\ Good(r, Plus(held, v)) /\ r \in Heaps /\ r[n] = heap[n]
        /\ r[v] = [kind |-> "value", items |-> <<>>, refs |-> 1, sealed |-> FALSE, datum |-> NULL]
    BY <1>1, <2>1, <2>2, <2>4, GoodAlloc DEF Good
  <2>6. PICK f : f = [r EXCEPT ![n].items = Holding(v)]
    OBVIOUS
  <2>7. /\ f \in Heaps /\ Linked(f, r, n, v) /\ Suits(f, n, v) /\ Len(r[n].items) < MaxItems
    <3>1. Matches(r[n].kind, v) /\ r[n].items = <<>> /\ ~ r[n].sealed
      BY <1>1, <2>3, <2>5 DEF Matches
    <3> QED BY <2>2, <2>5, <2>6, <3>1, Pointed
  <2>8. PICK g : g = ValueSet(f, v, d)
    OBVIOUS
  <2>9. /\ g \in Heaps /\ \A y \in Id \ {v} : g[y] = f[y]
        /\ Alike(g, f, v)
    BY <1>3, <2>2, <2>7, <2>8
  <2>10. g[n] = f[n] /\ \A y \in Id : Alike(g, f, y)
    BY <1>1, <2>2, <2>9 DEF Alike
  <2>11. Linked(g, r, n, v)
    BY <1>1, <2>7, <2>10 DEF Linked, Alike
  <2>12. Suits(g, n, v)
    BY <2>7, <2>10 DEF Suits
  <2>13. Plus(held, v)[v] > 0 /\ Minus(Plus(held, v), v) = held
    <3>1. Plus(held, v)[v] = held[v] + 1 /\ held[v] \in Nat
      BY <1>1, <2>2 DEF Plus
    <3> QED BY <1>1, <2>2, <3>1, PlusMinus
  <2>14. Good(g, Minus(Plus(held, v), v))
    BY <1>1, <1>2, <2>2, <2>5, <2>7, <2>9, <2>11, <2>12, <2>13, GoodLink
  <2>15. heap' = g
    BY <2>1, <2>4, <2>6, <2>8
  <2> QED BY <1>1, <2>13, <2>14, <2>15 DEF IInv
<1> QED BY <1>4, <1>5

LEMMA AddNodeGood ==
  ASSUME IInv, NEW c \in Container, NEW n \in Node, AddNode(c, n)
  PROVE  IInv'
<1>1. /\ Good(heap, held) /\ heap \in Heaps /\ held[c] > 0 /\ held[n] > 0
      /\ c \in Id /\ n \in Id /\ c \notin Node /\ ~ heap[c].sealed
      /\ Len(heap[c].items) < MaxItems
  BY Ids DEF IInv, Good, AddNode
<1>2. PICK p \in Pointer : p = [name |-> NULL, item |-> n]
  BY <1>1 DEF Pointer
<1>3. PICK g : g = [heap EXCEPT ![c].items = Append(@, p)]
  OBVIOUS
<1>4. heap' = g /\ held' = Minus(held, n)
  BY <1>2, <1>3 DEF AddNode, Lose, Minus
<1>5. heap[c].refs > 0 /\ heap[c] \in Cell /\ heap[c].items \in Seq(Pointer)
  BY <1>1, HeldLive, CellFacts
<1>6. Append(heap[c].items, p) \in Seq(Pointer)
  BY <1>5, AppendProperties
<1>7. /\ \A y \in Id \ {c} : g[y] = heap[y]
      /\ g[c] = [heap[c] EXCEPT !.items = Append(heap[c].items, p)] /\ g = [y \in Id |-> g[y]]
  BY <1>1, <1>3 DEF Heaps
<1>8. /\ g[c].kind = heap[c].kind /\ g[c].refs = heap[c].refs /\ g[c].sealed = heap[c].sealed
      /\ g[c].items = Append(heap[c].items, p) /\ g[c] \in Cell
  BY <1>5, <1>6, <1>7 DEF Cell, Pointer
<1>9. g \in Heaps /\ \A y \in Id \ {c} : Alike(g, heap, y)
  BY <1>1, <1>7, <1>8, Replaced
<1>10. Linked(g, heap, c, n)
  BY <1>1, <1>2, <1>8, <1>9 DEF Linked
<1>11. Suits(g, c, n)
  BY <1>1 DEF Suits
<1>12. Good(g, Minus(held, n))
  BY <1>1, <1>5, <1>9, <1>10, <1>11, GoodLink
<1> QED BY <1>4, <1>12 DEF IInv

LEMMA Concatenated ==
  ASSUME NEW S, NEW a \in Seq(S), NEW b \in Seq(S)
  PROVE  /\ a \o b \in Seq(S) /\ Len(a \o b) = Len(a) + Len(b)
         /\ \A j \in 1 .. Len(a) + Len(b) :
              (a \o b)[j] = IF j <= Len(a) THEN a[j] ELSE b[j - Len(a)]
OBVIOUS

(* What is left when the i-th entry of a sequence is taken out.            *)
TakenOut(s, i) == SubSeq(s, 1, i - 1) \o SubSeq(s, i + 1, Len(s))

LEMMA Without ==
  ASSUME NEW S, NEW s \in Seq(S), NEW i \in DOMAIN s
  PROVE  /\ TakenOut(s, i) \in Seq(S)
         /\ Len(TakenOut(s, i)) = Len(s) - 1
         /\ \A j \in 1 .. Len(s) - 1 :
              TakenOut(s, i)[j] = s[IF j < i THEN j ELSE j + 1]
<1> DEFINE a == SubSeq(s, 1, i - 1)
           b == SubSeq(s, i + 1, Len(s))
<1>1. i \in 1 .. Len(s) /\ Len(s) \in Nat
  OBVIOUS
<1>2. /\ a \in Seq(S) /\ Len(a) = i - 1 /\ \A j \in 1 .. i - 1 : a[j] = s[j]
  BY <1>1
<1>3. /\ b \in Seq(S) /\ Len(b) = Len(s) - i
      /\ \A j \in 1 .. Len(s) - i : b[j] = s[i + j]
  BY <1>1
<1>4. TakenOut(s, i) = a \o b
  BY DEF TakenOut
<1> HIDE DEF a, b
<1>5. /\ a \o b \in Seq(S) /\ Len(a \o b) = Len(s) - 1
      /\ \A j \in 1 .. Len(s) - 1 : (a \o b)[j] = IF j < i THEN a[j] ELSE b[j - (i - 1)]
  <2>1. /\ a \o b \in Seq(S) /\ Len(a \o b) = Len(a) + Len(b)
        /\ \A j \in 1 .. Len(a) + Len(b) :
             (a \o b)[j] = IF j <= Len(a) THEN a[j] ELSE b[j - Len(a)]
    BY <1>2, <1>3, Concatenated
  <2>2. Len(a) + Len(b) = Len(s) - 1 /\ Len(a) = i - 1
    BY <1>1, <1>2, <1>3
  <2> QED BY <1>1, <2>1, <2>2, SMTT(30)
<1>6. ASSUME NEW j \in 1 .. Len(s) - 1 PROVE (a \o b)[j] = s[IF j < i THEN j ELSE j + 1]
  <2>1. CASE j < i
    BY <1>1, <1>2, <1>5, <2>1
  <2>2. CASE ~ (j < i)
    <3>1. j - (i - 1) \in 1 .. Len(s) - i /\ i + (j - (i - 1)) = j + 1
      BY <1>1, <2>2
    <3> QED BY <1>3, <1>5, <2>2, <3>1
  <2> QED BY <2>1, <2>2
<1> QED BY <1>4, <1>5, <1>6

LEMMA RemoveNodeGood ==
  ASSUME IInv, NEW c \in Container, NEW i \in 1 .. MaxItems, RemoveNode(c, i)
  PROVE  IInv'
<1>1. /\ Good(heap, held) /\ heap \in Heaps /\ held \in [Id -> Nat] /\ held[c] > 0
      /\ c \in Id /\ c \notin Node /\ ~ heap[c].sealed
      /\ i \in DOMAIN heap[c].items /\ held' = held
  BY Ids DEF IInv, Good, RemoveNode
<1>2. heap[c].refs > 0 /\ heap[c] \in Cell /\ heap[c].items \in Seq(Pointer)
  BY <1>1, HeldLive, CellFacts
<1>3. PICK x : x = heap[c].items[i].item
  OBVIOUS
<1>4. PICK w \in Seq(Pointer) :
        /\ w = TakenOut(heap[c].items, i)
        /\ Len(w) = Len(heap[c].items) - 1
        /\ \A j \in 1 .. Len(heap[c].items) - 1 :
             w[j] = heap[c].items[IF j < i THEN j ELSE j + 1]
  <2>1. PICK s \in Seq(Pointer) : s = heap[c].items
    BY <1>2
  <2>2. i \in DOMAIN s
    BY <1>1, <2>1
  <2>3. /\ TakenOut(s, i) \in Seq(Pointer) /\ Len(TakenOut(s, i)) = Len(s) - 1
        /\ \A j \in 1 .. Len(s) - 1 : TakenOut(s, i)[j] = s[IF j < i THEN j ELSE j + 1]
    BY <2>2, Without
  <2>4. PICK w \in Seq(Pointer) : w = TakenOut(s, i)
    BY <2>3
  <2>5. Len(w) = Len(s) - 1 /\ \A j \in 1 .. Len(s) - 1 : w[j] = s[IF j < i THEN j ELSE j + 1]
    BY <2>3, <2>4
  <2> QED BY <2>1, <2>4, <2>5
<1>5. PICK g : g = [heap EXCEPT ![c].items = w]
  OBVIOUS
<1>6. heap' = Release(g, H!One(x))
  <2>1. g = [heap EXCEPT ![c].items = SubSeq(@, 1, i - 1) \o SubSeq(@, i + 1, Len(@))]
    BY <1>4, <1>5 DEF TakenOut
  <2> QED BY <1>3, <2>1 DEF RemoveNode
<1>7. /\ \A y \in Id \ {c} : g[y] = heap[y]
      /\ g[c] = [heap[c] EXCEPT !.items = w] /\ g = [y \in Id |-> g[y]]
  BY <1>1, <1>5 DEF Heaps
<1>8. /\ g[c].kind = heap[c].kind /\ g[c].refs = heap[c].refs /\ g[c].sealed = heap[c].sealed
      /\ g[c].items = w /\ g[c] \in Cell
  BY <1>2, <1>4, <1>7 DEF Cell, Pointer
<1>9. g \in Heaps /\ \A y \in Id \ {c} : Alike(g, heap, y)
  BY <1>1, <1>7, <1>8, Replaced
<1>10. Unlinked(g, heap, c, i)
  BY <1>4, <1>8, <1>9 DEF Unlinked
<1>11. Good(g, Plus(held, x)) /\ x \in Id
  BY <1>1, <1>2, <1>3, <1>9, <1>10, GoodUnlink
<1>12. PICK drop \in [Id -> Nat] : drop = H!One(x) /\ \A y \in Id : drop[y] = HP!Is(x, y)
  BY <1>11, OneDrop
<1>13. PICK more \in [Id -> Nat] : more = Plus(held, x) /\ \A y \in Id : more[y] = held[y] + HP!Is(x, y)
  BY <1>1, <1>11, PlusMinus
<1>14. ASSUME NEW y \in Id PROVE drop[y] <= more[y] /\ held[y] = more[y] - drop[y]
  <2>1. held[y] \in Nat /\ HP!Is(x, y) \in Nat
    BY <1>1, IsType
  <2> QED BY <1>12, <1>13, <2>1
<1>15. Good(heap', held)
  BY <1>1, <1>6, <1>11, <1>12, <1>13, <1>14, GoodRelease
<1> QED BY <1>1, <1>15 DEF IInv

-----------------------------------------------------------------------------

LEMMA IInvKept == IInv /\ [Next]_vars => IInv'
<1>1. SUFFICES ASSUME IInv, [Next]_vars PROVE IInv'
  OBVIOUS
<1>2. ASSUME NEW n \in Node, NEW t \in NodeType, NodeNew(n, t) PROVE IInv'
  BY <1>1, <1>2, NodeNewGood
<1>3. ASSUME NEW n \in Node, NEW t \in NodeType, NodeInit(n, t) PROVE IInv'
  BY <1>1, <1>3, NodeInitGood
<1>4. ASSUME NEW n \in Node, NEW m \in Node, NodeCopy(n, m) PROVE IInv'
  BY <1>1, <1>4, NodeCopyGood
<1>5. ASSUME NEW n \in Node, NEW c \in Container, SetContainer(n, c) PROVE IInv'
  BY <1>1, <1>5, SetContainerGood
<1>6. ASSUME NEW n \in Node, NEW c \in Container, TakeContainer(n, c) PROVE IInv'
  BY <1>1, <1>6, TakeContainerGood
<1>7. ASSUME NEW n \in Node, NEW c \in Container, AddNode(c, n) PROVE IInv'
  BY <1>1, <1>7, AddNodeGood
<1>8. ASSUME NEW n \in Node, NEW d \in Datum, SetScalar(n, d) PROVE IInv'
  BY <1>1, <1>8, SetScalarGood
<1>9. ASSUME NEW c \in Container, ContainerNew(c) PROVE IInv'
  BY <1>1, <1>9, ContainerNewGood
<1>10. ASSUME NEW c \in Container, NEW i \in 1 .. MaxItems, RemoveNode(c, i) PROVE IInv'
  BY <1>1, <1>10, RemoveNodeGood
<1>11. ASSUME NEW x \in Id, Ref(x) PROVE IInv'
  BY <1>1, <1>11, RefGood
<1>12. ASSUME NEW x \in Id, Unref(x) PROVE IInv'
  BY <1>1, <1>12, UnrefGood
<1>13. ASSUME NEW x \in Id, Seal(x) PROVE IInv'
  BY <1>1, <1>13, SealGood
<1>14. CASE UNCHANGED vars
  BY <1>1, <1>14 DEF vars, IInv
<1>15. CASE Next
  BY <1>2, <1>3, <1>4, <1>5, <1>6, <1>7, <1>8, <1>9, <1>10, <1>11, <1>12, <1>13, <1>15 DEF Next
<1> QED BY <1>1, <1>14, <1>15

LEMMA IInvAlways == Spec => []IInv
<1>1. Init => IInv
  BY InitGood
<1>2. IInv /\ [Next]_vars => IInv'
  BY IInvKept
<1> QED BY <1>1, <1>2, PTL DEF Spec

(* Everything has its type and every reference count is the number of      *)
(* holders there are, whatever the client does with nodes, copies,         *)
(* containers and values.                                                  *)
THEOREM CountsExact == Spec => []RefsExact
<1>1. IInv => RefsExact
  <2>1. SUFFICES ASSUME IInv PROVE RefsExact
    OBVIOUS
  <2>2. heap \in [Id -> Cell] /\ held \in [Id -> Nat]
    BY <2>1 DEF IInv, Good, Heaps
  <2>3. ASSUME NEW n \in Node, Live(n)
        PROVE  /\ heap[n].kind \in NodeType /\ Len(heap[n].items) <= 1
               /\ Data(n) # NULL => CASE heap[n].kind = "CONTAINER" -> Data(n) \in Container
                                      [] heap[n].kind = "VALUE"     -> Data(n) \in Value
                                      [] heap[n].kind = "NULL"      -> FALSE
    <3>1. heap[n].kind \in NodeType /\ Len(heap[n].items) <= 1
      BY <2>1, <2>3, Ids DEF IInv, Good, CellOK, Fits, Live
    <3>2. Data(n) # NULL => \/ heap[n].kind = "CONTAINER" /\ Data(n) \in Container
                            \/ heap[n].kind = "VALUE" /\ Data(n) \in Value
      BY <2>1, <2>3, DataFacts DEF Live
    <3> QED BY <3>1, <3>2
  <2>4. TypeOK
    BY <2>2, <2>3 DEF TypeOK
  <2>5. ASSUME NEW x \in Id
        PROVE  heap[x].refs = held[x] + H!Edges(heap, {y \in Id : Live(y)}, x)
    <3>1. {y \in Id : Live(y)} = HP!Live(heap)
      BY DEF Live, HP!Live
    <3>2. heap[x].refs = held[x] + HP!Edges(heap, HP!Live(heap), x)
      BY <2>1 DEF IInv, Good, HP!Exact
    <3> QED BY <3>1, <3>2, SameHeap
  <2> QED BY <2>4, <2>5 DEF RefsExact
<1> QED BY <1>1, IInvAlways, PTL

(* What is alive and sealed holds nothing that is mutable.                 *)
THEOREM SealedAllTheWay == Spec => []SealedDown
<1>1. IInv => SealedDown
  <2>1. SUFFICES ASSUME IInv, NEW x \in Id, Live(x), heap[x].sealed,
                        NEW y \in H!Children(heap, x)
                 PROVE  heap[y].sealed
    BY DEF SealedDown
  <2>2. PICK i \in DOMAIN heap[x].items : y = heap[x].items[i].item
    BY <2>1 DEF H!Children
  <2> QED BY <2>1, <2>2 DEF IInv, Good, SealOK, Live
<1> QED BY <1>1, IInvAlways, PTL
=============================================================================
