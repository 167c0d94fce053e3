--------------------------- MODULE JsonHeapProofs ---------------------------
(***************************************************************************)
(* What the operators of JsonHeap preserve and bound: releasing references *)
(* never takes a count below zero and touches nothing else, sealing is     *)
(* exactly the least walk from a container, and storing an item leaves     *)
(* every other item alone.  And counting: when every reference count is    *)
(* the number of the holders, it is so after each of them, for what is     *)
(* held outside the heap then.  And values: in a heap without cycles every *)
(* container denotes one, which depends on what is below it only.          *)
(***************************************************************************)
EXTENDS JsonHeap, FiniteSetTheorems, SequenceTheorems, TLAPS

Heaps == [Cont -> Cell]

(* Nothing but the counts matters here: a heap of any kind of cell.        *)
Counted(h) == \A c \in Cont : h[c].refs \in Nat

(* The slots that hold c are finitely many, and fewer holders have fewer.  *)
LEMMA EdgesMonotone ==
  ASSUME NEW h, NEW T \in SUBSET Cont, NEW S \in SUBSET T, NEW c \in Cont
  PROVE  /\ Edges(h, S, c) \in Nat
         /\ Edges(h, T, c) \in Nat
         /\ Edges(h, S, c) <= Edges(h, T, c)
<1> DEFINE Slots(U) == {e \in U \X (1 .. MaxItems) :
                          /\ e[2] \in DOMAIN h[e[1]].items
                          /\ h[e[1]].items[e[2]].item = c}
<1>1. IsFiniteSet(T)
  BY HeapAssumption, FS_Subset
<1>2. IsFiniteSet(1 .. MaxItems)
  BY HeapAssumption, FS_Interval
<1>3. IsFiniteSet(T \X (1 .. MaxItems))
  BY <1>1, <1>2, FS_Product
<1>4. Slots(T) \subseteq T \X (1 .. MaxItems) /\ Slots(S) \subseteq Slots(T)
  OBVIOUS
<1>5. IsFiniteSet(Slots(T))
  BY <1>3, <1>4, FS_Subset
<1>6. /\ IsFiniteSet(Slots(S))
      /\ Cardinality(Slots(S)) <= Cardinality(Slots(T))
  BY <1>4, <1>5, FS_Subset
<1>7. Cardinality(Slots(S)) \in Nat /\ Cardinality(Slots(T)) \in Nat
  BY <1>5, <1>6, FS_CardinalityType
<1> QED
  BY <1>6, <1>7 DEF Edges

(* The dying containers are closed under dying: a container all of whose   *)
(* references are dropped or held by dying containers is one of them.      *)
LEMMA DeadClosed ==
  ASSUME NEW h, Counted(h), NEW drop \in [Cont -> Nat],
         NEW x \in Live(h), Dies(h, drop, Dead(h, drop), x)
  PROVE  x \in Dead(h, drop)
<1>1. SUFFICES ASSUME NEW T \in SUBSET Live(h),
                      \A y \in Live(h) : Dies(h, drop, T, y) => y \in T
               PROVE  x \in T
  BY DEF Dead
<1>2. Live(h) \subseteq Cont /\ x \in Cont /\ T \in SUBSET Cont
  BY DEF Live
<1>3. Dead(h, drop) \in SUBSET T
  BY <1>1 DEF Dead
<1>4. /\ Edges(h, Dead(h, drop), x) <= Edges(h, T, x)
      /\ Edges(h, Dead(h, drop), x) \in Nat /\ Edges(h, T, x) \in Nat
  BY <1>2, <1>3, EdgesMonotone
<1>5. h[x].refs \in Nat /\ drop[x] \in Nat
  BY <1>2 DEF Counted
<1>6. h[x].refs <= drop[x] + Edges(h, T, x)
  BY <1>4, <1>5 DEF Dies
<1> QED
  BY <1>1, <1>6 DEF Dies

(* Releasing references changes reference counts only, and no count falls  *)
(* below zero.                                                             *)
LEMMA ReleaseEffect ==
  ASSUME NEW h \in Heaps, NEW drop \in [Cont -> Nat]
  PROVE  /\ Release(h, drop) \in Heaps
         /\ \A c \in Cont : /\ Release(h, drop)[c].kind = h[c].kind
                            /\ Release(h, drop)[c].items = h[c].items
                            /\ Release(h, drop)[c].sealed = h[c].sealed
<1> DEFINE D == Dead(h, drop)
           n(c) == IF c \notin Live(h) \/ c \in D THEN 0
                   ELSE h[c].refs - (drop[c] + Edges(h, D, c))
<1>1. Release(h, drop) = [c \in Cont |-> [h[c] EXCEPT !.refs = n(c)]]
  BY DEF Release
<1>2. D \in SUBSET Cont
  BY DEF Dead, Live
<1>3. ASSUME NEW c \in Cont PROVE n(c) \in Nat
  <2>1. CASE c \notin Live(h) \/ c \in D
    BY <2>1
  <2>2. CASE c \in Live(h) /\ c \notin D
    <3>1. ~ Dies(h, drop, D, c)
      BY <2>2, DeadClosed DEF Counted, Heaps, Cell
    <3>2. Edges(h, D, c) \in Nat /\ drop[c] \in Nat /\ h[c].refs \in Nat
      BY <1>2, EdgesMonotone DEF Heaps, Cell
    <3> QED
      BY <2>2, <3>1, <3>2 DEF Dies
  <2> QED
    BY <2>1, <2>2
<1> HIDE DEF n
<1>4. ASSUME NEW c \in Cont
      PROVE  /\ [h[c] EXCEPT !.refs = n(c)] \in Cell
             /\ [h[c] EXCEPT !.refs = n(c)].kind = h[c].kind
             /\ [h[c] EXCEPT !.refs = n(c)].items = h[c].items
             /\ [h[c] EXCEPT !.refs = n(c)].sealed = h[c].sealed
  <2>1. h[c] \in Cell /\ n(c) \in Nat
    BY <1>3 DEF Heaps
  <2> QED
    BY <2>1 DEF Cell
<1> QED
  BY <1>1, <1>4 DEF Heaps

-----------------------------------------------------------------------------

(* Sealing c seals c, changes nothing but sealed flags, never unseals, and *)
(* goes on into the children of every container it seals.                  *)
LEMMA SealEffect ==
  ASSUME NEW h \in Heaps, NEW c \in Cont
  PROVE  /\ Seal(h, c) \in Heaps
         /\ \A d \in Cont : /\ Seal(h, c)[d].kind = h[d].kind
                            /\ Seal(h, c)[d].items = h[d].items
                            /\ Seal(h, c)[d].refs = h[d].refs
                            /\ Seal(h, c)[d].sealed <=> h[d].sealed \/ d \in SealSet(h, c)
         /\ c \in SealSet(h, c)
<1>1. Seal(h, c) = [d \in Cont |->
                     [h[d] EXCEPT !.sealed = h[d].sealed \/ d \in SealSet(h, c)]]
  BY DEF Seal
<1>2. ASSUME NEW d \in Cont, NEW b \in BOOLEAN
      PROVE  /\ [h[d] EXCEPT !.sealed = b] \in Cell
             /\ [h[d] EXCEPT !.sealed = b].kind = h[d].kind
             /\ [h[d] EXCEPT !.sealed = b].items = h[d].items
             /\ [h[d] EXCEPT !.sealed = b].refs = h[d].refs
             /\ [h[d] EXCEPT !.sealed = b].sealed = b
  <2>1. h[d] \in Cell
    BY DEF Heaps
  <2> QED
    BY <2>1 DEF Cell
<1>3. c \in SealSet(h, c)
  BY DEF SealSet
<1>4. \A d \in Cont : (h[d].sealed \/ d \in SealSet(h, c)) \in BOOLEAN
  OBVIOUS
<1> HIDE DEF SealSet
<1>5. Seal(h, c) \in Heaps
  BY <1>1, <1>2, <1>4, ZenonT(30) DEF Heaps
<1>6. ASSUME NEW d \in Cont
      PROVE  Seal(h, c)[d] =
               [h[d] EXCEPT !.sealed = h[d].sealed \/ d \in SealSet(h, c)]
  BY <1>1
<1>7. ASSUME NEW d \in Cont
      PROVE  /\ Seal(h, c)[d].kind = h[d].kind
             /\ Seal(h, c)[d].items = h[d].items
             /\ Seal(h, c)[d].refs = h[d].refs
             /\ Seal(h, c)[d].sealed <=> h[d].sealed \/ d \in SealSet(h, c)
  BY <1>2, <1>4, <1>6
<1> QED
  BY <1>3, <1>5, <1>7

(* SealSet is closed: the walk enters every container it reaches unsealed. *)
LEMMA SealSetClosed ==
  ASSUME NEW h, NEW c \in Cont, NEW d \in SealSet(h, c), ~ h[d].sealed
  PROVE  Children(h, d) \subseteq SealSet(h, c)
<1>1. SUFFICES ASSUME NEW e \in Children(h, d), NEW T \in SUBSET Cont,
                      c \in T, \A x \in T : h[x].sealed \/ Children(h, x) \subseteq T
               PROVE  e \in T
  BY DEF SealSet, Children
<1>2. d \in T
  BY <1>1 DEF SealSet
<1> QED
  BY <1>1, <1>2

(* SealSet is least: it stays inside every set of containers that contains *)
(* c and the children of its members.                                      *)
LEMMA SealSetLeast ==
  ASSUME NEW h \in Heaps, NEW c \in Cont, NEW T \in SUBSET Cont, c \in T,
         \A x \in T : Children(h, x) \subseteq T
  PROVE  SealSet(h, c) \subseteq T
BY DEF SealSet

(* The same of Reach. *)
LEMMA ReachLeast ==
  ASSUME NEW h \in Heaps, NEW c \in Cont, NEW T \in SUBSET Cont, c \in T,
         \A x \in T : Children(h, x) \subseteq T
  PROVE  Reach(h, c) \subseteq T
BY DEF Reach

-----------------------------------------------------------------------------

(* What an item sequence holds after x has been put into it was there      *)
(* before, or is x.                                                        *)
LEMMA PutItemEffect ==
  ASSUME NEW items \in Seq(Slot), NEW n \in Name \cup {NULL}, NEW x \in Item
  PROVE  /\ PutItem(items, n, x) \in Seq(Slot)
         /\ \A i \in DOMAIN PutItem(items, n, x) :
              \/ PutItem(items, n, x)[i].item = x
              \/ \E j \in DOMAIN items : PutItem(items, n, x)[i].item = items[j].item
<1> DEFINE new == [name |-> n, item |-> x]
<1>1. new \in Slot /\ new.item = x
  BY DEF Slot
<1>2. CASE SameName(items, n) = {}
  <2>1. PutItem(items, n, x) = Append(items, new)
    BY <1>2 DEF PutItem
  <2>2. /\ Append(items, new) \in Seq(Slot)
        /\ Len(Append(items, new)) = Len(items) + 1
        /\ \A i \in 1 .. Len(items) : Append(items, new)[i] = items[i]
        /\ Append(items, new)[Len(items) + 1] = new
    BY <1>1, AppendProperties
  <2>3. DOMAIN Append(items, new) = 1 .. Len(items) + 1 /\ DOMAIN items = 1 .. Len(items)
    BY <2>2, LenProperties
  <2> HIDE DEF new
  <2> QED
    BY <1>1, <2>1, <2>2, <2>3, LenProperties
<1>3. CASE SameName(items, n) # {}
  <2>1. PutItem(items, n, x) =
          [i \in DOMAIN items |-> IF i \in SameName(items, n) THEN new ELSE items[i]]
    BY <1>3 DEF PutItem
  <2>2. DOMAIN items = 1 .. Len(items) /\ Len(items) \in Nat
    BY LenProperties
  <2>3. \A i \in 1 .. Len(items) :
          (IF i \in SameName(items, n) THEN new ELSE items[i]) \in Slot
    BY <1>1, <2>2, ElementOfSeq
  <2> HIDE DEF new
  <2>4. PutItem(items, n, x) \in [1 .. Len(items) -> Slot]
    BY <2>1, <2>2, <2>3
  <2>5. PutItem(items, n, x) \in Seq(Slot)
    BY <2>2, <2>4, SeqDef
  <2> QED
    BY <1>1, <2>1, <2>5
<1> QED
  BY <1>2, <1>3

(* Storing x in c changes no other container's items and no sealed flag,   *)
(* and leaves c with its old children and x at most.                       *)
LEMMA StoreEffect ==
  ASSUME NEW h \in Heaps, NEW c \in Cont, NEW n \in Name \cup {NULL}, NEW x \in Item
  PROVE  /\ Store(h, c, n, x) \in Heaps
         /\ \A d \in Cont : /\ Store(h, c, n, x)[d].kind = h[d].kind
                            /\ Store(h, c, n, x)[d].sealed = h[d].sealed
                            /\ d # c => Store(h, c, n, x)[d].items = h[d].items
         /\ Children(Store(h, c, n, x), c) \subseteq Children(h, c) \cup {x}
<1> DEFINE p == PutItem(h[c].items, n, x)
           g == [h EXCEPT ![c].items = p]
           old == {h[c].items[i].item : i \in SameName(h[c].items, n)} \cap Cont
           drop == [d \in Cont |-> IF d \in old THEN 1 ELSE 0]
<1>1. h[c] \in Cell /\ h[c].items \in Seq(Slot)
  BY DEF Heaps, Cell
<1>2. /\ p \in Seq(Slot)
      /\ \A i \in DOMAIN p : p[i].item = x \/ \E j \in DOMAIN h[c].items :
                                             p[i].item = h[c].items[j].item
  BY <1>1, PutItemEffect
<1>3. Store(h, c, n, x) = Release(g, drop)
  BY DEF Store
<1> HIDE DEF p
<1>4. /\ g \in Heaps
      /\ \A d \in Cont : g[d].kind = h[d].kind /\ g[d].sealed = h[d].sealed
      /\ \A d \in Cont : d # c => g[d].items = h[d].items
      /\ g[c].items = p
  BY <1>1, <1>2 DEF Heaps, Cell
<1>5. drop \in [Cont -> Nat]
  OBVIOUS
<1> HIDE DEF g, drop
<1>6. /\ Release(g, drop) \in Heaps
      /\ \A d \in Cont : /\ Release(g, drop)[d].kind = g[d].kind
                         /\ Release(g, drop)[d].items = g[d].items
                         /\ Release(g, drop)[d].sealed = g[d].sealed
  BY <1>4, <1>5, ReleaseEffect
<1>7. Children(Release(g, drop), c) \subseteq Children(h, c) \cup {x}
  BY <1>2, <1>4, <1>6 DEF Children
<1> QED
  BY <1>3, <1>4, <1>6, <1>7

-----------------------------------------------------------------------------
(* Counting the references: every count is the number of its holders.      *)
(* What holds a reference from outside the heap is in held.                *)

Slots(h, T, c) == {e \in T \X (1 .. MaxItems) :
                     /\ e[2] \in DOMAIN h[e[1]].items
                     /\ h[e[1]].items[e[2]].item = c}

Exact(h, held) ==
  \A c \in Cont : h[c].refs = held[c] + Edges(h, Live(h), c)

LEMMA SlotsFinite ==
  ASSUME NEW h, NEW T \in SUBSET Cont, NEW c
  PROVE  IsFiniteSet(Slots(h, T, c)) /\ Edges(h, T, c) = Cardinality(Slots(h, T, c))
         /\ Edges(h, T, c) \in Nat
<1>1. IsFiniteSet(T)
  BY HeapAssumption, FS_Subset
<1>2. IsFiniteSet(1 .. MaxItems)
  BY HeapAssumption, FS_Interval
<1>3. IsFiniteSet(T \X (1 .. MaxItems))
  BY <1>1, <1>2, FS_Product
<1>4. Slots(h, T, c) \in SUBSET (T \X (1 .. MaxItems))
  BY DEF Slots
<1>5. IsFiniteSet(Slots(h, T, c))
  BY <1>3, <1>4, FS_Subset
<1>6. Edges(h, T, c) = Cardinality(Slots(h, T, c))
  BY DEF Edges, Slots
<1> QED BY <1>5, <1>6, FS_CardinalityType

(* The holders may be counted apart.                                       *)
LEMMA EdgesSplit ==
  ASSUME NEW h, NEW T \in SUBSET Cont, NEW S \in SUBSET T, NEW c
  PROVE  Edges(h, T, c) = Edges(h, S, c) + Edges(h, T \ S, c)
<1>1. Slots(h, T, c) = Slots(h, S, c) \cup Slots(h, T \ S, c)
  BY DEF Slots
<1>2. Slots(h, S, c) \cap Slots(h, T \ S, c) = {}
  BY DEF Slots
<1>3. S \in SUBSET Cont /\ T \ S \in SUBSET Cont
  OBVIOUS
<1>4. /\ IsFiniteSet(Slots(h, S, c)) /\ Cardinality(Slots(h, S, c)) \in Nat
      /\ IsFiniteSet(Slots(h, T \ S, c)) /\ Cardinality(Slots(h, T \ S, c)) \in Nat
  BY <1>3, SlotsFinite, FS_CardinalityType
<1>5. Cardinality(Slots(h, S, c) \cap Slots(h, T \ S, c)) = 0
  BY <1>2, FS_EmptySet
<1>6. Cardinality(Slots(h, T, c)) = Cardinality(Slots(h, S, c)) + Cardinality(Slots(h, T \ S, c))
  <2>1. Cardinality(Slots(h, S, c) \cup Slots(h, T \ S, c))
          = Cardinality(Slots(h, S, c)) + Cardinality(Slots(h, T \ S, c))
            - Cardinality(Slots(h, S, c) \cap Slots(h, T \ S, c))
    BY <1>4, FS_Union
  <2> QED BY <1>1, <1>4, <1>5, <2>1
<1> QED BY <1>3, <1>6, SlotsFinite

(* Only the items of the holders count.                                    *)
LEMMA EdgesSameItems ==
  ASSUME NEW g, NEW h, NEW T \in SUBSET Cont, NEW c,
         \A x \in T : g[x].items = h[x].items
  PROVE  Edges(g, T, c) = Edges(h, T, c)
<1>1. Slots(g, T, c) = Slots(h, T, c)
  BY DEF Slots
<1> QED BY <1>1, SlotsFinite

LEMMA NoEdges ==
  ASSUME NEW h, NEW T \in SUBSET Cont, NEW c,
         \A x \in T : \A i \in DOMAIN h[x].items : h[x].items[i].item # c
  PROVE  Edges(h, T, c) = 0
<1>1. Slots(h, T, c) = {}
  BY DEF Slots
<1> QED BY <1>1, SlotsFinite, FS_EmptySet

Is(x, c) == IF x = c THEN 1 ELSE 0

(* One slot more: the i-th of t.                                           *)
SlotAdded(g, h, T, t, i) ==
  /\ t \in T /\ i \in 1 .. MaxItems
  /\ i \notin DOMAIN h[t].items /\ DOMAIN g[t].items = DOMAIN h[t].items \cup {i}
  /\ \A j \in DOMAIN h[t].items : g[t].items[j].item = h[t].items[j].item
  /\ \A y \in T \ {t} : g[y].items = h[y].items

LEMMA EdgeAdded ==
  ASSUME NEW g, NEW h, NEW T \in SUBSET Cont, NEW t, NEW i, NEW c,
         SlotAdded(g, h, T, t, i)
  PROVE  Edges(g, T, c) = Edges(h, T, c) + Is(g[t].items[i].item, c)
<1>0. /\ t \in T /\ i \in 1 .. MaxItems
      /\ i \notin DOMAIN h[t].items /\ DOMAIN g[t].items = DOMAIN h[t].items \cup {i}
      /\ \A j \in DOMAIN h[t].items : g[t].items[j].item = h[t].items[j].item
      /\ \A y \in T \ {t} : g[y].items = h[y].items
  BY DEF SlotAdded
<1>1. <<t, i>> \notin Slots(h, T, c)
  BY <1>0 DEF Slots
<1>2. ASSUME g[t].items[i].item = c PROVE Edges(g, T, c) = Edges(h, T, c) + 1
  <2>1. Slots(g, T, c) = Slots(h, T, c) \cup {<<t, i>>}
    <3>1. ASSUME NEW e \in T \X (1 .. MaxItems)
          PROVE  e \in Slots(g, T, c) <=> e \in Slots(h, T, c) \/ e = <<t, i>>
      <4>1. CASE e[1] # t
        BY <1>0, <4>1 DEF Slots
      <4>2. CASE e[1] = t /\ e[2] # i
        BY <1>0, <4>2 DEF Slots
      <4>3. CASE e[1] = t /\ e[2] = i
        <5>1. e = <<t, i>>
          BY <4>3
        <5> QED BY <1>0, <1>2, <5>1 DEF Slots
      <4> QED BY <4>1, <4>2, <4>3
    <3>2. <<t, i>> \in T \X (1 .. MaxItems)
      BY <1>0
    <3>3. Slots(g, T, c) \subseteq T \X (1 .. MaxItems) /\ Slots(h, T, c) \subseteq T \X (1 .. MaxItems)
      BY DEF Slots
    <3> QED BY <3>1, <3>2, <3>3
  <2>2. IsFiniteSet(Slots(h, T, c)) /\ Cardinality(Slots(h, T, c)) \in Nat
    BY SlotsFinite, FS_CardinalityType
  <2>3. Cardinality(Slots(g, T, c)) = Cardinality(Slots(h, T, c)) + 1
    BY <1>1, <2>1, <2>2, FS_AddElement
  <2> QED BY <2>3, SlotsFinite
<1>3. ASSUME g[t].items[i].item # c PROVE Edges(g, T, c) = Edges(h, T, c)
  <2>1. Slots(g, T, c) = Slots(h, T, c)
    <3>1. ASSUME NEW e \in T \X (1 .. MaxItems)
          PROVE  e \in Slots(g, T, c) <=> e \in Slots(h, T, c)
      <4>1. CASE e[1] # t
        BY <1>0, <4>1 DEF Slots
      <4>2. CASE e[1] = t /\ e[2] # i
        BY <1>0, <4>2 DEF Slots
      <4>3. CASE e[1] = t /\ e[2] = i
        BY <1>0, <1>3, <4>3 DEF Slots
      <4> QED BY <4>1, <4>2, <4>3
    <3>2. Slots(g, T, c) \subseteq T \X (1 .. MaxItems) /\ Slots(h, T, c) \subseteq T \X (1 .. MaxItems)
      BY DEF Slots
    <3> QED BY <3>1, <3>2
  <2> QED BY <2>1, SlotsFinite
<1>4. Edges(h, T, c) \in Nat
  BY SlotsFinite
<1>5. CASE g[t].items[i].item = c
  BY <1>2, <1>5 DEF Is
<1>6. CASE g[t].items[i].item # c
  BY <1>3, <1>4, <1>6 DEF Is
<1> QED BY <1>5, <1>6

(* The i-th slot of t holds another item than before.                      *)
SlotReplaced(g, h, T, t, i) ==
  /\ t \in T /\ i \in 1 .. MaxItems
  /\ i \in DOMAIN h[t].items /\ DOMAIN g[t].items = DOMAIN h[t].items
  /\ \A j \in DOMAIN h[t].items \ {i} : g[t].items[j].item = h[t].items[j].item
  /\ \A y \in T \ {t} : g[y].items = h[y].items

LEMMA EdgeReplaced ==
  ASSUME NEW g, NEW h, NEW T \in SUBSET Cont, NEW t, NEW i, NEW c,
         SlotReplaced(g, h, T, t, i)
  PROVE  Edges(g, T, c) + Is(h[t].items[i].item, c)
           = Edges(h, T, c) + Is(g[t].items[i].item, c)
<1> DEFINE without == [j \in DOMAIN h[t].items \ {i} |-> h[t].items[j]]
<1>0. PICK f : f = [x \in Cont |-> IF x = t THEN [items |-> without] ELSE [items |-> h[x].items]]
  OBVIOUS
<1>1. /\ DOMAIN f[t].items = DOMAIN h[t].items \ {i}
      /\ \A j \in DOMAIN f[t].items : f[t].items[j] = h[t].items[j]
      /\ \A y \in T \ {t} : f[y].items = h[y].items
  BY <1>0 DEF SlotReplaced
<1>2. SlotAdded(h, f, T, t, i)
  BY <1>1 DEF SlotReplaced, SlotAdded
<1>3. SlotAdded(g, f, T, t, i)
  BY <1>1 DEF SlotReplaced, SlotAdded
<1>4. Edges(h, T, c) = Edges(f, T, c) + Is(h[t].items[i].item, c)
  BY <1>2, EdgeAdded
<1>5. Edges(g, T, c) = Edges(f, T, c) + Is(g[t].items[i].item, c)
  BY <1>3, EdgeAdded
<1>6. Edges(f, T, c) \in Nat
  BY SlotsFinite
<1>7. \A x : Is(x, c) \in Nat
  BY DEF Is
<1> QED BY <1>4, <1>5, <1>6, <1>7

(* Every dying container has all of its references dropped or held by      *)
(* dying containers.                                                       *)
LEMMA DeadDies ==
  ASSUME NEW h, Counted(h), NEW drop \in [Cont -> Nat], NEW x \in Dead(h, drop)
  PROVE  Dies(h, drop, Dead(h, drop), x)
<1> DEFINE D == Dead(h, drop)
           T == {y \in D : Dies(h, drop, D, y)}
<1>1. D \in SUBSET Cont /\ D \subseteq Live(h) /\ Live(h) \subseteq Cont
  BY DEF Dead, Live
<1>2. T \in SUBSET D /\ T \in SUBSET Live(h)
  BY <1>1
<1>3. ASSUME NEW y \in Live(h), Dies(h, drop, T, y)
      PROVE  y \in T
  <2> HIDE DEF T, D
  <2>1. y \in Cont /\ h[y].refs \in Nat /\ drop[y] \in Nat
    BY <1>1 DEF Counted
  <2>2. /\ Edges(h, T, y) <= Edges(h, D, y)
        /\ Edges(h, T, y) \in Nat /\ Edges(h, D, y) \in Nat
    BY <1>1, <1>2, <2>1, EdgesMonotone
  <2>3. Dies(h, drop, D, y)
    BY <1>3, <2>1, <2>2 DEF Dies
  <2>4. y \in D
    BY <2>3, DeadClosed DEF D
  <2> QED BY <2>3, <2>4 DEF T
<1>4. x \in T
  <2> HIDE DEF T
  <2> QED BY <1>2, <1>3 DEF Dead
<1> QED BY <1>4

(* The count of c once the containers D are gone.                          *)
Balanced(h, drop, held, c, D) ==
  LET rest == Live(h) \ D
  IN  /\ c \in rest => /\ h[c].refs - (drop[c] + Edges(h, D, c)) \in Nat \ {0}
                       /\ h[c].refs - (drop[c] + Edges(h, D, c))
                             = held[c] - drop[c] + Edges(h, rest, c)
      /\ c \notin rest => held[c] - drop[c] = 0 /\ Edges(h, rest, c) = 0

(* If every count is exact and no more references are dropped than there   *)
(* are, then what dies has no holder left, and the counts of the others    *)
(* are exact without it.                                                   *)
LEMMA DeadExact ==
  ASSUME NEW h, Counted(h), NEW drop \in [Cont -> Nat], NEW held \in [Cont -> Nat],
         Exact(h, held), \A c \in Cont : drop[c] <= held[c], NEW c \in Cont
  PROVE  Balanced(h, drop, held, c, Dead(h, drop))
<1> DEFINE D == Dead(h, drop)
           rest == Live(h) \ D
<1>1. Live(h) \in SUBSET Cont /\ D \in SUBSET Live(h) /\ D \in SUBSET Cont /\ rest \in SUBSET Cont
  BY DEF Dead, Live
<1> HIDE DEF D, rest, Balanced
<1>2. Edges(h, Live(h), c) = Edges(h, D, c) + Edges(h, rest, c)
  BY <1>1, EdgesSplit DEF rest
<1>3. Edges(h, D, c) \in Nat /\ Edges(h, rest, c) \in Nat
  BY <1>1, SlotsFinite
<1>4. /\ h[c].refs = held[c] + Edges(h, Live(h), c)
      /\ h[c].refs \in Nat /\ drop[c] \in Nat /\ held[c] \in Nat /\ drop[c] <= held[c]
  BY DEF Exact, Counted
<1>5. CASE c \in rest
  <2>1. c \in Live(h) /\ c \notin D
    BY <1>5 DEF rest
  <2>2. ~ Dies(h, drop, D, c)
    BY <2>1, DeadClosed DEF D
  <2>3. h[c].refs > drop[c] + Edges(h, D, c)
    BY <1>3, <1>4, <2>2 DEF Dies
  <2> QED BY <1>2, <1>3, <1>4, <1>5, <2>3 DEF D, rest, Balanced
<1>6. CASE c \in D
  <2>1. Dies(h, drop, D, c)
    BY <1>6, DeadDies DEF D
  <2>2. h[c].refs <= drop[c] + Edges(h, D, c)
    BY <2>1 DEF Dies
  <2>3. held[c] - drop[c] = 0 /\ Edges(h, rest, c) = 0
    BY <1>2, <1>3, <1>4, <2>2
  <2>4. c \notin rest
    BY <1>6 DEF rest
  <2> QED BY <2>3, <2>4 DEF D, rest, Balanced
<1>7. CASE c \notin Live(h)
  <2>1. h[c].refs = 0
    BY <1>4, <1>7 DEF Live
  <2>2. held[c] - drop[c] = 0 /\ Edges(h, rest, c) = 0
    <3>1. Edges(h, Live(h), c) \in Nat
      BY <1>1, SlotsFinite
    <3>2. held[c] = 0 /\ Edges(h, Live(h), c) = 0
      BY <1>4, <2>1, <3>1
    <3> QED BY <1>2, <1>3, <1>4, <3>2
  <2>3. c \notin rest
    BY <1>7 DEF rest
  <2> QED BY <2>2, <2>3 DEF D, rest, Balanced
<1> QED BY <1>5, <1>6, <1>7 DEF rest

Less(held, drop) == [c \in Cont |-> held[c] - drop[c]]

(* Releasing references that are held leaves the counts exact.             *)
LEMMA ReleaseExact ==
  ASSUME NEW h \in Heaps, NEW drop \in [Cont -> Nat], NEW held \in [Cont -> Nat],
         Exact(h, held), \A c \in Cont : drop[c] <= held[c]
  PROVE  Exact(Release(h, drop), Less(held, drop))
<1> DEFINE D == Dead(h, drop)
           rest == Live(h) \ D
           r == Release(h, drop)
           n(c) == IF c \notin Live(h) \/ c \in D THEN 0
                   ELSE h[c].refs - (drop[c] + Edges(h, D, c))
<1>1. Counted(h)
  BY DEF Counted, Heaps, Cell
<1>2. \A c \in Cont : r[c].refs = n(c)
  <2>1. r = [c \in Cont |-> [h[c] EXCEPT !.refs = n(c)]]
    BY DEF Release
  <2> HIDE DEF n, r
  <2>2. \A c \in Cont : [h[c] EXCEPT !.refs = n(c)].refs = n(c)
    BY DEF Heaps, Cell
  <2> QED BY <2>1, <2>2
<1>3. \A c \in Cont : r[c].items = h[c].items
  BY ReleaseEffect
<1> HIDE DEF D, r
<1>4. ASSUME NEW c \in Cont
      PROVE  /\ c \in rest => r[c].refs \in Nat \ {0} /\ r[c].refs = held[c] - drop[c] + Edges(h, rest, c)
             /\ c \notin rest => r[c].refs = 0 /\ held[c] - drop[c] = 0 /\ Edges(h, rest, c) = 0
  <2>1. /\ c \in rest => /\ h[c].refs - (drop[c] + Edges(h, D, c)) \in Nat \ {0}
                         /\ h[c].refs - (drop[c] + Edges(h, D, c))
                               = held[c] - drop[c] + Edges(h, rest, c)
        /\ c \notin rest => held[c] - drop[c] = 0 /\ Edges(h, rest, c) = 0
    <3>1. Balanced(h, drop, held, c, D)
      BY <1>1, DeadExact DEF D
    <3> QED BY <3>1 DEF Balanced
  <2>2. c \in rest => r[c].refs = h[c].refs - (drop[c] + Edges(h, D, c))
    BY <1>2
  <2>3. c \notin rest => r[c].refs = 0
    BY <1>2
  <2> HIDE DEF rest
  <2> QED BY <2>1, <2>2, <2>3
<1>5. rest \in SUBSET Cont
  BY DEF Live
<1> HIDE DEF rest
<1>6. Live(r) = rest
  <2>1. \A c \in Cont : r[c].refs > 0 <=> c \in rest
    BY <1>4
  <2> QED BY <1>5, <2>1 DEF Live
<1>7. ASSUME NEW c \in Cont PROVE Edges(r, rest, c) = Edges(h, rest, c)
  BY <1>3, <1>5, EdgesSameItems
<1>8. ASSUME NEW c \in Cont PROVE r[c].refs = Less(held, drop)[c] + Edges(r, Live(r), c)
  <2>1. r[c].refs = held[c] - drop[c] + Edges(h, rest, c)
    BY <1>4
  <2> QED BY <1>6, <1>7, <2>1 DEF Less
<1> QED BY <1>8 DEF Exact, r

-----------------------------------------------------------------------------
(* Exact counts, operator by operator.                                     *)

LEMMA LiveType ==
  ASSUME NEW h
  PROVE  Live(h) \in SUBSET Cont
BY DEF Live

(* Only counts and items matter.                                           *)
LEMMA SameExact ==
  ASSUME NEW g, NEW h, NEW held, Exact(h, held),
         \A d \in Cont : g[d].refs = h[d].refs /\ g[d].items = h[d].items
  PROVE  Exact(g, held)
<1>1. Live(g) = Live(h)
  BY DEF Live
<1>2. ASSUME NEW d \in Cont PROVE Edges(g, Live(h), d) = Edges(h, Live(h), d)
  BY LiveType, EdgesSameItems
<1> QED BY <1>1, <1>2 DEF Exact

(* A new cell c: it takes over from held what its items hold.              *)
NewCell(g, h, held, rest, c) ==
  /\ h[c].refs = 0 /\ g[c].refs \in Nat \ {0}
  /\ \A d \in Cont \ {c} : g[d] = h[d] /\ rest[d] + Edges(g, {c}, d) = held[d]
  /\ rest[c] + Edges(g, {c}, c) = g[c].refs

LEMMA CellExact ==
  ASSUME NEW g, NEW h, NEW held \in [Cont -> Nat], NEW rest \in [Cont -> Nat],
         NEW c \in Cont, Exact(h, held), NewCell(g, h, held, rest, c)
  PROVE  Exact(g, rest)
<1>0. /\ h[c].refs = 0 /\ g[c].refs \in Nat \ {0}
      /\ \A d \in Cont \ {c} : g[d] = h[d] /\ rest[d] + Edges(g, {c}, d) = held[d]
      /\ rest[c] + Edges(g, {c}, c) = g[c].refs
  BY DEF NewCell
<1>1. /\ Live(h) \in SUBSET Cont /\ {c} \in SUBSET Cont /\ Live(g) \in SUBSET Cont
      /\ c \notin Live(h)
  BY <1>0 DEF Live
<1>2. Live(g) = Live(h) \cup {c}
  BY <1>0 DEF Live
<1>3. {c} \in SUBSET Live(g) /\ Live(g) \ {c} = Live(h)
  BY <1>1, <1>2
<1>4. ASSUME NEW d \in Cont
      PROVE  /\ Edges(g, Live(g), d) = Edges(g, {c}, d) + Edges(h, Live(h), d)
             /\ Edges(h, Live(h), d) \in Nat /\ Edges(g, {c}, d) \in Nat
  <2>1. Edges(g, Live(g), d) = Edges(g, {c}, d) + Edges(g, Live(h), d)
    BY <1>1, <1>3, EdgesSplit
  <2>2. \A x \in Live(h) : g[x].items = h[x].items
    BY <1>0, <1>1
  <2>3. Edges(g, Live(h), d) = Edges(h, Live(h), d)
    BY <1>1, <2>2, EdgesSameItems
  <2> QED BY <1>1, <2>1, <2>3, SlotsFinite
<1>5. Edges(h, Live(h), c) = 0
  <2>1. h[c].refs = held[c] + Edges(h, Live(h), c)
    BY DEF Exact
  <2> QED BY <1>0, <1>4, <2>1
<1>6. ASSUME NEW d \in Cont PROVE g[d].refs = rest[d] + Edges(g, Live(g), d)
  <2>1. CASE d = c
    <3>1. rest[c] \in Nat
      OBVIOUS
    <3>2. Edges(g, Live(g), c) = Edges(g, {c}, c) + 0 /\ Edges(g, {c}, c) \in Nat
      BY <1>4, <1>5, Zenon
    <3> QED BY <1>0, <2>1, <3>1, <3>2
  <2>2. CASE d # c
    <3>1. h[d].refs = held[d] + Edges(h, Live(h), d)
      BY DEF Exact
    <3>2. g[d].refs = h[d].refs /\ rest[d] + Edges(g, {c}, d) = held[d]
      BY <1>0, <2>2
    <3>3. rest[d] \in Nat
      OBVIOUS
    <3>4. PICK e \in Nat : e = Edges(g, {c}, d)
      BY <1>4
    <3>5. PICK l \in Nat : l = Edges(h, Live(h), d)
      BY <1>4
    <3>6. Edges(g, Live(g), d) = e + l
      BY <1>4, <3>4, <3>5
    <3> QED BY <3>1, <3>2, <3>3, <3>4, <3>5, <3>6
  <2> QED BY <2>1, <2>2
<1> QED BY <1>6 DEF Exact

(* One reference more, on a container that somebody holds.                 *)
OneMore(g, h, held, more, c) ==
  \A d \in Cont : /\ g[d].items = h[d].items
                  /\ g[d].refs = h[d].refs + Is(c, d)
                  /\ more[d] = held[d] + Is(c, d)

LEMMA MoreExact ==
  ASSUME NEW g, NEW h, NEW held \in [Cont -> Nat], NEW more, NEW c \in Cont,
         Exact(h, held), Counted(h), h[c].refs > 0, OneMore(g, h, held, more, c)
  PROVE  Exact(g, more)
<1>0. \A d \in Cont : /\ g[d].items = h[d].items
                     /\ g[d].refs = h[d].refs + Is(c, d)
                     /\ more[d] = held[d] + Is(c, d)
  BY DEF OneMore
<1>1. Live(g) = Live(h)
  <2>1. \A d \in Cont : g[d].refs > 0 <=> h[d].refs > 0
    BY <1>0 DEF Is, Counted
  <2> QED BY <2>1 DEF Live
<1>2. ASSUME NEW d \in Cont PROVE g[d].refs = more[d] + Edges(g, Live(g), d)
  <2>1. Edges(g, Live(h), d) = Edges(h, Live(h), d) /\ Edges(h, Live(h), d) \in Nat
    BY <1>0, LiveType, EdgesSameItems, SlotsFinite
  <2>2. h[d].refs = held[d] + Edges(h, Live(h), d)
    BY DEF Exact
  <2>3. /\ held[d] \in Nat /\ Is(c, d) \in Nat
        /\ g[d].refs = h[d].refs + Is(c, d) /\ more[d] = held[d] + Is(c, d)
    BY <1>0 DEF Is
  <2>4. Edges(g, Live(g), d) = Edges(h, Live(h), d)
    BY <1>1, <2>1
  <2> QED BY <2>1, <2>2, <2>3, <2>4
<1> QED BY <1>2 DEF Exact

LEMMA AddRefExact ==
  ASSUME NEW h \in Heaps, NEW held \in [Cont -> Nat], NEW c \in Cont,
         Exact(h, held), h[c].refs > 0
  PROVE  Exact(AddRef(h, c), [held EXCEPT ![c] = @ + 1])
<1>1. PICK g : g = AddRef(h, c)
  OBVIOUS
<1>2. PICK more : more = [held EXCEPT ![c] = @ + 1]
  OBVIOUS
<1>3. \A d \in Cont : g[d].items = h[d].items /\ g[d].refs = h[d].refs + Is(c, d)
  BY <1>1 DEF AddRef, Heaps, Cell, Is
<1>4. \A d \in Cont : more[d] = held[d] + Is(c, d)
  BY <1>2 DEF Is
<1>5. Counted(h)
  BY DEF Counted, Heaps, Cell
<1>6. Exact(g, more)
  BY <1>3, <1>4, <1>5, MoreExact DEF OneMore
<1> QED BY <1>1, <1>2, <1>6

LEMMA SealExact ==
  ASSUME NEW h \in Heaps, NEW c \in Cont, NEW held, Exact(h, held)
  PROVE  Exact(Seal(h, c), held)
BY SealEffect, SameExact

(* No member name twice.                                                   *)
Distinct(items) ==
  \A i, j \in DOMAIN items : items[i].name # NULL /\ items[i].name = items[j].name => i = j

LEMMA PutItemDistinct ==
  ASSUME NEW items \in Seq(Slot), NEW n \in Name \cup {NULL}, NEW x \in Item, Distinct(items)
  PROVE  Distinct(PutItem(items, n, x))
<1>1. PICK new \in Slot : new = [name |-> n, item |-> x]
  BY DEF Slot
<1>2. new.name = n
  BY <1>1
<1>3. CASE SameName(items, n) = {}
  <2>1. PutItem(items, n, x) = Append(items, new)
    BY <1>1, <1>3 DEF PutItem
  <2>2. /\ DOMAIN Append(items, new) = 1 .. Len(items) + 1 /\ DOMAIN items = 1 .. Len(items)
        /\ \A i \in 1 .. Len(items) : Append(items, new)[i] = items[i]
        /\ Append(items, new)[Len(items) + 1] = new
        /\ Len(items) \in Nat
    BY AppendProperties, LenProperties
  <2>3. \A i \in DOMAIN items : n # NULL => items[i].name # n
    BY <1>3 DEF SameName
  <2> QED BY <1>2, <2>1, <2>2, <2>3 DEF Distinct
<1>4. CASE SameName(items, n) # {}
  <2>1. PutItem(items, n, x) =
          [i \in DOMAIN items |-> IF i \in SameName(items, n) THEN new ELSE items[i]]
    BY <1>1, <1>4 DEF PutItem
  <2>2. \A i \in DOMAIN items : PutItem(items, n, x)[i].name = items[i].name
    BY <1>2, <2>1 DEF SameName
  <2>3. DOMAIN PutItem(items, n, x) = DOMAIN items
    BY <2>1
  <2> QED BY <2>2, <2>3 DEF Distinct
<1> QED BY <1>3, <1>4

(* What the container t gains and gives up when x is stored in it.         *)
Stored(g, h, t, n, x) == g = [h EXCEPT ![t].items = PutItem(@, n, x)]
Displaced(h, t, n) == {h[t].items[i].item : i \in SameName(h[t].items, n)}

LEMMA PutItemEdges ==
  ASSUME NEW h \in Heaps, NEW t \in Live(h), NEW n \in Name \cup {NULL}, NEW x \in Item,
         Len(h[t].items) < MaxItems, Distinct(h[t].items), NEW d \in Cont,
         NEW g, Stored(g, h, t, n, x)
  PROVE  Edges(g, Live(h), d) + (IF d \in Displaced(h, t, n) THEN 1 ELSE 0)
           = Edges(h, Live(h), d) + Is(x, d)
<1>1. PICK items \in Seq(Slot) : items = h[t].items
  BY LiveType DEF Heaps, Cell
<1>2. PICK p : p = PutItem(items, n, x)
  OBVIOUS
<1>4. t \in Cont /\ Live(h) \in SUBSET Cont
  BY LiveType
<1>3. g = [h EXCEPT ![t].items = p]
  BY <1>1, <1>2, <1>4 DEF Heaps, Stored
<1>5. /\ g[t].items = p
      /\ \A y \in Live(h) \ {t} : g[y].items = h[y].items
  BY <1>3, <1>4 DEF Heaps, Cell
<1>6. PICK new \in Slot : new = [name |-> n, item |-> x]
  BY DEF Slot
<1>7. Len(items) \in Nat /\ DOMAIN items = 1 .. Len(items) /\ MaxItems \in Nat /\ Len(items) < MaxItems
  BY <1>1, LenProperties, HeapAssumption
<1>8. new.item = x
  BY <1>6
<1>10. PICK old : old = Displaced(h, t, n) /\ old = {items[i].item : i \in SameName(items, n)}
  BY <1>1 DEF Displaced
<1>9. Edges(g, Live(h), d) + (IF d \in old THEN 1 ELSE 0) = Edges(h, Live(h), d) + Is(x, d)
  <2>0. Edges(g, Live(h), d) \in Nat /\ Edges(h, Live(h), d) \in Nat
    BY <1>4, SlotsFinite
  <2>1. CASE SameName(items, n) = {}
    <3>1. p = Append(items, new)
      BY <1>2, <1>6, <2>1 DEF PutItem
    <3>2. /\ DOMAIN p = 1 .. Len(items) + 1
          /\ \A i \in 1 .. Len(items) : p[i] = items[i]
          /\ p[Len(items) + 1] = new
      BY <3>1, AppendProperties, LenProperties
    <3>3. PICK i : i = Len(items) + 1
      OBVIOUS
    <3>4. SlotAdded(g, h, Live(h), t, i)
      <4>1. i \in 1 .. MaxItems /\ i \notin DOMAIN items /\ DOMAIN p = DOMAIN items \cup {i}
        BY <1>7, <3>2, <3>3
      <4>2. \A j \in DOMAIN items : p[j].item = items[j].item
        BY <1>7, <3>2
      <4> QED BY <1>1, <1>5, <4>1, <4>2 DEF SlotAdded
    <3>5. Edges(g, Live(h), d) = Edges(h, Live(h), d) + Is(g[t].items[i].item, d)
      BY <1>4, <3>4, EdgeAdded
    <3>6. g[t].items[i].item = x
      BY <1>5, <1>8, <3>2, <3>3
    <3>7. d \notin old
      BY <1>10, <2>1
    <3> QED BY <2>0, <3>5, <3>6, <3>7
  <2>2. ASSUME NEW i \in SameName(items, n)
        PROVE  Edges(g, Live(h), d) + (IF d \in old THEN 1 ELSE 0) = Edges(h, Live(h), d) + Is(x, d)
    <3>1. SameName(items, n) = {i}
      BY <1>1, <2>2 DEF SameName, Distinct
    <3>2. p = [j \in DOMAIN items |-> IF j = i THEN new ELSE items[j]]
      BY <1>2, <1>6, <3>1 DEF PutItem
    <3>3. i \in DOMAIN items
      BY DEF SameName
    <3>4. SlotReplaced(g, h, Live(h), t, i)
      <4>1. i \in 1 .. MaxItems
        BY <1>7, <3>3
      <4>2. DOMAIN p = DOMAIN items /\ \A j \in DOMAIN items \ {i} : p[j].item = items[j].item
        BY <3>2
      <4> QED BY <1>1, <1>5, <3>3, <4>1, <4>2 DEF SlotReplaced
    <3>5. Edges(g, Live(h), d) + Is(h[t].items[i].item, d)
            = Edges(h, Live(h), d) + Is(g[t].items[i].item, d)
      BY <1>4, <3>4, EdgeReplaced
    <3>6. g[t].items[i].item = x
      BY <1>5, <1>8, <3>2, <3>3
    <3>7. d \in old <=> items[i].item = d
      BY <1>10, <3>1
    <3>8. Is(h[t].items[i].item, d) = IF d \in old THEN 1 ELSE 0
      BY <1>1, <3>7 DEF Is
    <3> QED BY <3>5, <3>6, <3>8
  <2> QED BY <2>1, <2>2
<1> QED BY <1>9, <1>10

(* Storing x uses up one reference that is held outside the heap.          *)
LEMMA StoreExact ==
  ASSUME NEW h \in Heaps, NEW t \in Live(h), NEW n \in Name \cup {NULL}, NEW x \in Item,
         Len(h[t].items) < MaxItems, Distinct(h[t].items),
         NEW held \in [Cont -> Nat], Exact(h, held), x \in Cont => held[x] > 0
  PROVE  Exact(Store(h, t, n, x), [d \in Cont |-> held[d] - Is(x, d)])
<1>1. PICK g : g = [h EXCEPT ![t].items = PutItem(@, n, x)]
  OBVIOUS
<1>2. PICK old : old = Displaced(h, t, n)
  OBVIOUS
<1>3. PICK drop : drop = [d \in Cont |-> IF d \in old THEN 1 ELSE 0]
  OBVIOUS
<1>4. Store(h, t, n, x) = Release(g, drop)
  <2>1. drop = [d \in Cont |-> IF d \in old \cap Cont THEN 1 ELSE 0]
    BY <1>3
  <2> QED BY <1>1, <1>2, <2>1 DEF Store, Displaced
<1>5. t \in Cont
  BY LiveType
<1>6. /\ g \in Heaps
      /\ \A d \in Cont : g[d].refs = h[d].refs
  <2>1. h[t] \in Cell /\ h[t].items \in Seq(Slot)
    BY <1>5 DEF Heaps, Cell
  <2>2. PICK p \in Seq(Slot) : p = PutItem(h[t].items, n, x)
    BY <2>1, PutItemEffect
  <2>3. g = [h EXCEPT ![t].items = p]
    BY <1>1, <1>5, <2>2 DEF Heaps
  <2> QED BY <1>5, <2>1, <2>3 DEF Heaps, Cell
<1>7. Live(g) = Live(h)
  BY <1>6 DEF Live
<1>8. PICK more : more = [d \in Cont |-> held[d] - Is(x, d) + drop[d]]
  OBVIOUS
<1>9. \A d \in Cont : drop[d] \in Nat /\ held[d] - Is(x, d) \in Nat /\ held[d] \in Nat
                      /\ Is(x, d) \in Nat
  BY <1>3 DEF Is
<1>10. drop \in [Cont -> Nat] /\ more \in [Cont -> Nat]
  BY <1>3, <1>8, <1>9
<1>11. \A d \in Cont : drop[d] <= more[d]
  <2>1. ASSUME NEW d \in Cont PROVE drop[d] <= more[d]
    BY <1>8, <1>9
  <2> QED BY <2>1
<1>12. Exact(g, more)
  <2>1. ASSUME NEW d \in Cont PROVE g[d].refs = more[d] + Edges(g, Live(g), d)
    <3>0. Stored(g, h, t, n, x)
      BY <1>1 DEF Stored
    <3>1. Edges(g, Live(h), d) + (IF d \in old THEN 1 ELSE 0) = Edges(h, Live(h), d) + Is(x, d)
      BY <1>2, <3>0, PutItemEdges
    <3>2. Edges(g, Live(h), d) + drop[d] = Edges(h, Live(h), d) + Is(x, d)
      BY <1>3, <3>1
    <3>3. Edges(g, Live(h), d) \in Nat /\ Edges(h, Live(h), d) \in Nat
      BY LiveType, SlotsFinite
    <3>4. h[d].refs = held[d] + Edges(h, Live(h), d)
      BY DEF Exact
    <3>5. more[d] = held[d] - Is(x, d) + drop[d]
      BY <1>8
    <3>6. h[d].refs = more[d] + Edges(g, Live(h), d)
      BY <1>9, <3>2, <3>3, <3>4, <3>5, SMTT(30)
    <3> QED BY <1>6, <1>7, <3>6
  <2> QED BY <2>1 DEF Exact
<1>13. Exact(Release(g, drop), Less(more, drop))
  BY <1>6, <1>10, <1>11, <1>12, ReleaseExact
<1>14. Less(more, drop) = [d \in Cont |-> held[d] - Is(x, d)]
  <2>1. ASSUME NEW d \in Cont PROVE more[d] - drop[d] = held[d] - Is(x, d)
    BY <1>8, <1>9
  <2> QED BY <2>1 DEF Less
<1> QED BY <1>4, <1>13, <1>14

(* No object has a member name twice.                                      *)
Named(h) == \A c \in Cont : Distinct(h[c].items)

LEMMA SameNamed ==
  ASSUME NEW g, NEW h, Named(h), \A c \in Cont : g[c].items = h[c].items
  PROVE  Named(g)
BY DEF Named

LEMMA StoreNamed ==
  ASSUME NEW h \in Heaps, NEW c \in Cont, NEW n \in Name \cup {NULL}, NEW x \in Item,
         Named(h)
  PROVE  Named(Store(h, c, n, x))
<1>1. PICK p : p = PutItem(h[c].items, n, x)
  OBVIOUS
<1>2. PICK g : g = [h EXCEPT ![c].items = p]
  OBVIOUS
<1>3. PICK drop : drop = [d \in Cont |->
                            IF d \in {h[c].items[i].item : i \in SameName(h[c].items, n)} \cap Cont
                            THEN 1 ELSE 0]
  OBVIOUS
<1>4. Store(h, c, n, x) = Release(g, drop)
  BY <1>1, <1>2, <1>3 DEF Store, Heaps
<1>5. h[c].items \in Seq(Slot) /\ Distinct(h[c].items)
  BY DEF Heaps, Cell, Named
<1>6. p \in Seq(Slot) /\ Distinct(p)
  BY <1>1, <1>5, PutItemEffect, PutItemDistinct
<1>7. /\ g \in Heaps /\ g[c].items = p
      /\ \A d \in Cont : d # c => g[d].items = h[d].items
  BY <1>2, <1>6 DEF Heaps, Cell
<1>8. Named(g)
  BY <1>6, <1>7 DEF Named
<1>9. drop \in [Cont -> Nat]
  BY <1>3
<1>10. \A d \in Cont : Release(g, drop)[d].items = g[d].items
  BY <1>7, <1>9, ReleaseEffect
<1> QED BY <1>4, <1>8, <1>10, SameNamed


-----------------------------------------------------------------------------
(* Slots that come and go, in a heap of any kind of cell.                  *)

(* Who is held by a slot of a live container is alive.                     *)
LEMMA ChildLive ==
  ASSUME NEW h, NEW held \in [Cont -> Nat], Exact(h, held),
         NEW y \in Live(h), NEW i \in DOMAIN h[y].items \cap (1 .. MaxItems),
         h[y].items[i].item \in Cont
  PROVE  h[h[y].items[i].item].refs > 0
<1>1. PICK x \in Cont : x = h[y].items[i].item
  OBVIOUS
<1>2. <<y, i>> \in Slots(h, Live(h), x)
  BY <1>1 DEF Slots
<1>3. IsFiniteSet(Slots(h, Live(h), x)) /\ Edges(h, Live(h), x) = Cardinality(Slots(h, Live(h), x))
  BY LiveType, SlotsFinite
<1>4. Edges(h, Live(h), x) # 0 /\ Edges(h, Live(h), x) \in Nat
  BY <1>2, <1>3, LiveType, SlotsFinite, FS_EmptySet
<1>5. h[x].refs = held[x] + Edges(h, Live(h), x) /\ held[x] \in Nat
  BY DEF Exact
<1>6. h[x].refs > 0
  BY <1>4, <1>5
<1> QED BY <1>1, <1>6

(* A slot more takes over a reference to x that was held outside.          *)
OneLess(g, h, held, rest, x) ==
  \A d \in Cont : g[d].refs = h[d].refs /\ rest[d] = held[d] - Is(x, d)

LEMMA LinkExact ==
  ASSUME NEW g, NEW h, NEW held \in [Cont -> Nat], NEW rest, NEW t, NEW i, NEW x,
         Exact(h, held), SlotAdded(g, h, Live(h), t, i), x = g[t].items[i].item,
         OneLess(g, h, held, rest, x)
  PROVE  Exact(g, rest)
<1>0. \A d \in Cont : g[d].refs = h[d].refs /\ rest[d] = held[d] - Is(x, d)
  BY DEF OneLess
<1>1. Live(g) = Live(h)
  BY <1>0 DEF Live
<1>2. ASSUME NEW d \in Cont PROVE g[d].refs = rest[d] + Edges(g, Live(g), d)
  <2>1. Edges(g, Live(h), d) = Edges(h, Live(h), d) + Is(g[t].items[i].item, d)
    BY LiveType, EdgeAdded
  <2>2. Edges(h, Live(h), d) \in Nat
    BY LiveType, SlotsFinite
  <2>3. h[d].refs = held[d] + Edges(h, Live(h), d)
    BY DEF Exact
  <2>4. /\ held[d] \in Nat /\ Is(x, d) \in Nat
        /\ g[d].refs = h[d].refs /\ rest[d] = held[d] - Is(x, d)
    BY <1>0 DEF Is
  <2>5. Edges(g, Live(g), d) = Edges(h, Live(h), d) + Is(x, d)
    BY <1>1, <2>1
  <2> QED BY <2>2, <2>3, <2>4, <2>5
<1> QED BY <1>2 DEF Exact

(* g has not the i-th slot of t any more; those behind it move up.         *)
SlotRemoved(g, h, T, t, i) ==
  /\ t \in T
  /\ \E n \in 1 .. MaxItems :
       /\ i \in 1 .. n /\ DOMAIN h[t].items = 1 .. n /\ DOMAIN g[t].items = 1 .. n - 1
       /\ \A j \in 1 .. n - 1 :
            g[t].items[j].item = h[t].items[IF j < i THEN j ELSE j + 1].item
  /\ \A y \in T \ {t} : g[y].items = h[y].items

LEMMA EdgeRemoved ==
  ASSUME NEW g, NEW h, NEW T \in SUBSET Cont, NEW t, NEW i, NEW c,
         SlotRemoved(g, h, T, t, i)
  PROVE  Edges(h, T, c) = Edges(g, T, c) + Is(h[t].items[i].item, c)
<1>1. PICK n \in 1 .. MaxItems :
        /\ i \in 1 .. n /\ DOMAIN h[t].items = 1 .. n /\ DOMAIN g[t].items = 1 .. n - 1
        /\ \A j \in 1 .. n - 1 :
             g[t].items[j].item = h[t].items[IF j < i THEN j ELSE j + 1].item
  BY DEF SlotRemoved
<1>2. t \in T /\ \A y \in T \ {t} : g[y].items = h[y].items
  BY DEF SlotRemoved
(* f is h without that slot, the others where they were; moving them up is *)
(* a bijection.                                                            *)
<1>3. PICK f : f = [x \in Cont |-> IF x = t
                                   THEN [items |-> [j \in (1 .. n) \ {i} |-> h[t].items[j]]]
                                   ELSE [items |-> h[x].items]]
  OBVIOUS
<1>4. /\ DOMAIN f[t].items = (1 .. n) \ {i}
      /\ \A j \in (1 .. n) \ {i} : f[t].items[j] = h[t].items[j]
      /\ \A y \in T \ {t} : f[y].items = h[y].items
  BY <1>2, <1>3
<1>5. MaxItems \in Nat /\ n \in 1 .. MaxItems /\ i \in 1 .. n
  BY <1>1, HeapAssumption
<1>6. SlotAdded(h, f, T, t, i)
  BY <1>1, <1>2, <1>4, <1>5 DEF SlotAdded
<1>7. Edges(h, T, c) = Edges(f, T, c) + Is(h[t].items[i].item, c)
  BY <1>6, EdgeAdded
<1>8. Edges(f, T, c) = Edges(g, T, c)
  <2>1. PICK A : A = Slots(f, T, c)
    OBVIOUS
  <2>2. PICK B : B = Slots(g, T, c)
    OBVIOUS
  <2>3. /\ \A e : e \in A <=> /\ e \in T \X (1 .. MaxItems) /\ e[2] \in DOMAIN f[e[1]].items
                             /\ f[e[1]].items[e[2]].item = c
        /\ \A e : e \in B <=> /\ e \in T \X (1 .. MaxItems) /\ e[2] \in DOMAIN g[e[1]].items
                             /\ g[e[1]].items[e[2]].item = c
    BY <2>1, <2>2 DEF Slots
  <2> DEFINE Up(e) == IF e[1] = t /\ e[2] > i THEN <<e[1], e[2] - 1>> ELSE e
             up == [e \in A |-> Up(e)]
  <2>0. /\ \A e \in A : \E y \in T, k \in 1 .. MaxItems : e = <<y, k>>
        /\ \A e \in B : \E y \in T, k \in 1 .. MaxItems : e = <<y, k>>
    BY <2>3
  <2>4. \A y \in T, k \in 1 .. MaxItems :
          <<y, k>> \in A <=> IF y = t THEN k \in (1 .. n) \ {i} /\ h[t].items[k].item = c
                           ELSE k \in DOMAIN h[y].items /\ h[y].items[k].item = c
    BY <1>4, <2>3
  <2>5. \A y \in T, k \in 1 .. MaxItems :
          <<y, k>> \in B <=> IF y = t THEN /\ k \in 1 .. n - 1
                                         /\ h[t].items[IF k < i THEN k ELSE k + 1].item = c
                           ELSE k \in DOMAIN h[y].items /\ h[y].items[k].item = c
    <3>1. SUFFICES ASSUME NEW y \in T, NEW k \in 1 .. MaxItems
                   PROVE  <<y, k>> \in B <=>
                            IF y = t THEN /\ k \in 1 .. n - 1
                                          /\ h[t].items[IF k < i THEN k ELSE k + 1].item = c
                            ELSE k \in DOMAIN h[y].items /\ h[y].items[k].item = c
      OBVIOUS
    <3>2. <<y, k>> \in B <=> k \in DOMAIN g[y].items /\ g[y].items[k].item = c
      BY <2>3
    <3>3. CASE y = t
      BY <1>1, <3>2, <3>3
    <3>4. CASE y # t
      BY <1>2, <3>2, <3>4
    <3> QED BY <3>3, <3>4
  <2>6. \A e \in A : Up(e) \in B
    <3>0. SUFFICES ASSUME NEW e \in A PROVE Up(e) \in B
      OBVIOUS
    <3>1. PICK y \in T, k \in 1 .. MaxItems : e = <<y, k>> /\ <<y, k>> \in A
      BY <2>0
    <3>2. CASE y = t /\ k > i
      <4>1. k - 1 \in 1 .. n - 1 /\ k - 1 \in 1 .. MaxItems /\ ~ (k - 1 < i) /\ (k - 1) + 1 = k
        BY <1>5, <2>4, <3>1, <3>2
      <4>2. h[t].items[k].item = c
        BY <2>4, <3>1, <3>2
      <4>3. <<y, k - 1>> \in B
        BY <2>5, <3>2, <4>1, <4>2
      <4> QED BY <3>1, <3>2, <4>3
    <3>3. CASE y = t /\ k < i
      <4>1. k \in 1 .. n - 1 /\ ~ (k > i)
        BY <1>5, <2>4, <3>1, <3>3
      <4>2. h[t].items[k].item = c
        BY <2>4, <3>1, <3>3
      <4>3. <<y, k>> \in B
        BY <2>5, <3>3, <4>1, <4>2
      <4> QED BY <3>1, <3>3, <4>1, <4>3
    <3>4. CASE y # t
      BY <2>4, <2>5, <3>1, <3>4
    <3>5. y = t => k # i
      BY <2>4, <3>1
    <3> QED BY <1>5, <3>2, <3>3, <3>4, <3>5
  <2>7. \A d, e \in A : Up(d) = Up(e) => d = e
    <3>0. SUFFICES ASSUME NEW d \in A, NEW e \in A, Up(d) = Up(e) PROVE d = e
      OBVIOUS
    <3>9. PICK y \in T, k \in 1 .. MaxItems : d = <<y, k>> /\ <<y, k>> \in A
      BY <2>0
    <3>8. PICK z \in T, l \in 1 .. MaxItems : e = <<z, l>> /\ <<z, l>> \in A
      BY <2>0
    <3>1. /\ <<y, k>> \in A /\ <<z, l>> \in A /\ Up(<<y, k>>) = Up(<<z, l>>)
          /\ d = <<y, k>> /\ e = <<z, l>>
      BY <3>0, <3>8, <3>9
    <3>2. y = z
      BY <3>1
    <3>3. CASE y = t
      <4>1. k # i /\ l # i
        BY <2>4, <3>1, <3>2, <3>3
      <4> QED BY <1>5, <3>1, <3>2, <3>3, <4>1
    <3>4. CASE y # t
      BY <3>1, <3>2, <3>4
    <3> QED BY <3>1, <3>2, <3>3, <3>4
  <2>8. \A b \in B : \E e \in A : Up(e) = b
    <3>0. SUFFICES ASSUME NEW b \in B PROVE \E e \in A : Up(e) = b
      OBVIOUS
    <3>1. PICK y \in T, k \in 1 .. MaxItems : b = <<y, k>> /\ <<y, k>> \in B
      BY <2>0
    <3>2. CASE y = t /\ ~ (k < i)
      <4>1. k + 1 \in (1 .. n) \ {i} /\ k + 1 \in 1 .. MaxItems /\ k + 1 > i /\ (k + 1) - 1 = k
        BY <1>5, <2>5, <3>1, <3>2
      <4>2. h[t].items[k + 1].item = c
        BY <2>5, <3>1, <3>2
      <4>3. <<y, k + 1>> \in A
        BY <2>4, <3>2, <4>1, <4>2
      <4>4. Up(<<y, k + 1>>) = <<y, k>>
        BY <3>2, <4>1
      <4> QED BY <3>1, <4>3, <4>4
    <3>3. CASE y = t /\ k < i
      <4>1. k \in (1 .. n) \ {i} /\ ~ (k > i)
        BY <1>5, <2>5, <3>1, <3>3
      <4>2. h[t].items[k].item = c
        BY <2>5, <3>1, <3>3
      <4>3. <<y, k>> \in A
        BY <2>4, <3>3, <4>1, <4>2
      <4>4. Up(<<y, k>>) = <<y, k>>
        BY <4>1
      <4> QED BY <3>1, <4>3, <4>4
    <3>4. CASE y # t
      <4>1. <<y, k>> \in A
        BY <2>4, <2>5, <3>1, <3>4
      <4>2. Up(<<y, k>>) = <<y, k>>
        BY <3>4
      <4> QED BY <3>1, <4>1, <4>2
    <3> QED BY <3>2, <3>3, <3>4
  <2> HIDE DEF Up
  <2>9. up \in Bijection(A, B)
    BY <2>6, <2>7, <2>8 DEF Bijection, Injection, Surjection, IsInjective
  <2> HIDE DEF up
  <2>10. IsFiniteSet(A)
    BY <2>1, SlotsFinite
  <2>11. Cardinality(A) = Cardinality(B)
    BY <2>9, <2>10, FS_Bijection DEF ExistsBijection
  <2> QED BY <2>1, <2>2, <2>11, SlotsFinite
<1> QED BY <1>7, <1>8

(* What the slot that went held is held outside now.                       *)
LEMMA UnlinkExact ==
  ASSUME NEW g, NEW h, NEW held \in [Cont -> Nat], NEW more, NEW t, NEW i, NEW x,
         Exact(h, held), SlotRemoved(g, h, Live(h), t, i), h[t].items[i].item = x,
         \A d \in Cont : g[d].refs = h[d].refs /\ more[d] = held[d] + Is(x, d)
  PROVE  Exact(g, more)
<1>1. Live(g) = Live(h)
  BY DEF Live
<1>2. ASSUME NEW d \in Cont PROVE g[d].refs = more[d] + Edges(g, Live(g), d)
  <2>1. Edges(h, Live(h), d) = Edges(g, Live(h), d) + Is(h[t].items[i].item, d)
    BY LiveType, EdgeRemoved
  <2>2. Edges(g, Live(h), d) \in Nat
    BY LiveType, SlotsFinite
  <2>3. h[d].refs = held[d] + Edges(h, Live(h), d)
    BY DEF Exact
  <2>4. /\ held[d] \in Nat /\ Is(x, d) \in Nat
        /\ g[d].refs = h[d].refs /\ more[d] = held[d] + Is(x, d)
    BY DEF Is
  <2>5. Edges(h, Live(h), d) = Edges(g, Live(g), d) + Is(x, d)
    BY <1>1, <2>1
  <2>6. Edges(g, Live(g), d) \in Nat
    BY <1>1, <2>2
  <2> QED BY <2>3, <2>4, <2>5, <2>6
<1> QED BY <1>2 DEF Exact

-----------------------------------------------------------------------------
(* What a container denotes.  The value of a container is defined by       *)
(* recursion on what it holds; that the recursion has a solution, and only *)
(* one, follows from that no container is inside itself.                   *)

(* A container by what the containers in it denote (g): JsonBuilder's Val  *)
(* is the fixpoint of it.                                                  *)
Value(h, g, c) ==
  [kind  |-> h[c].kind,
   items |-> [i \in DOMAIN h[c].items |->
                [h[c].items[i] EXCEPT !.item = IF @ \in Cont THEN g[@] ELSE @]]]
Values(h) == CHOOSE g : g = [c \in Cont |-> Value(h, g, c)]

(* The value depends on the values of the children only.                   *)
LEMMA ValueSame ==
  ASSUME NEW h, NEW c \in Cont, NEW f, NEW g,
         \A d \in Children(h, c) : f[d] = g[d]
  PROVE  Value(h, f, c) = Value(h, g, c)
<1>1. ASSUME NEW i \in DOMAIN h[c].items
      PROVE  [h[c].items[i] EXCEPT !.item = IF @ \in Cont THEN f[@] ELSE @]
             = [h[c].items[i] EXCEPT !.item = IF @ \in Cont THEN g[@] ELSE @]
  BY DEF Children
<1> QED BY <1>1 DEF Value

(* No container is inside itself, in the form an induction takes: any      *)
(* nonempty set has a container with no child in the set.                  *)
Grounded(h) ==
  \A T \in SUBSET Cont : T # {} => \E c \in T : Children(h, c) \cap T = {}
Downward(h, D) == D \in SUBSET Cont /\ \A c \in D : Children(h, c) \subseteq D

(* g gives the containers of D, which hold only such, their values.        *)
Denotes(h, D, g) == Downward(h, D) /\ g = [c \in D |-> Value(h, g, c)]

(* Two heaps that agree on some containers and all below denote the same   *)
(* by them: one on which they differ would hold another one.               *)
LEMMA Agreement ==
  ASSUME NEW h, NEW k, Grounded(h), NEW D, NEW E, NEW f, NEW g,
         Denotes(h, D, f), Denotes(k, E, g),
         \A c \in D \cap E : k[c].kind = h[c].kind /\ k[c].items = h[c].items
  PROVE  \A c \in D \cap E : f[c] = g[c]
<1> DEFINE T == {c \in D \cap E : f[c] # g[c]}
<1>1. SUFFICES ASSUME T # {} PROVE FALSE
  OBVIOUS
<1>2. T \in SUBSET Cont
  BY DEF Denotes, Downward
<1>3. PICK c \in T : Children(h, c) \cap T = {}
  BY <1>1, <1>2 DEF Grounded
<1>4. c \in D /\ c \in E /\ c \in Cont /\ f[c] # g[c]
  BY <1>2
<1>5. Children(h, c) = Children(k, c)
  BY <1>4 DEF Children
<1>6. Children(h, c) \subseteq D \cap E
  BY <1>4, <1>5 DEF Denotes, Downward
<1>7. \A d \in Children(h, c) : f[d] = g[d]
  BY <1>3, <1>6
<1> HIDE DEF T
<1>8. Value(h, f, c) = Value(h, g, c)
  BY <1>4, <1>7, ValueSame
<1>9. Value(h, g, c) = Value(k, g, c)
  BY <1>4 DEF Value
<1>10. f = [x \in D |-> Value(h, f, x)] /\ g = [x \in E |-> Value(k, g, x)]
  BY DEF Denotes
<1>11. f[c] = Value(h, f, c)
  BY <1>4, <1>10
<1>12. g[c] = Value(k, g, c)
  BY <1>4, <1>10
<1> QED BY <1>4, <1>8, <1>9, <1>11, <1>12

(* In a heap without cycles the recursion has a solution: what the partial *)
(* solutions say is one, and a container it leaves out would have a child  *)
(* that is left out too.                                                   *)
LEMMA Unfolded ==
  ASSUME NEW h, Grounded(h)
  PROVE  Denotes(h, Cont, Values(h))
<1> DEFINE Good(c, D, g) == c \in D /\ Denotes(h, D, g)
           G == {c \in Cont : \E D, g : Good(c, D, g)}
           IsOf(v, c) == \E D, g : Good(c, D, g) /\ v = g[c]
           f == [c \in G |-> CHOOSE v : IsOf(v, c)]
<1>1. ASSUME NEW c, NEW D, NEW g, Good(c, D, g)
      PROVE  D \subseteq G /\ c \in G /\ f[c] = g[c]
  <2>1. \A x \in D : Good(x, D, g)
    BY <1>1
  <2>2. D \subseteq Cont
    BY <1>1 DEF Denotes, Downward
  <2>3. D \subseteq G /\ c \in G
    BY <1>1, <2>1, <2>2
  <2>4. IsOf(g[c], c)
    BY <1>1
  <2>5. PICK v : v = f[c]
    OBVIOUS
  <2>6. IsOf(v, c)
    <3>1. f[c] = CHOOSE w : IsOf(w, c)
      BY <2>3
    <3> HIDE DEF IsOf, f
    <3> QED BY <2>4, <2>5, <3>1
  <2>7. PICK E, e : Good(c, E, e) /\ v = e[c]
    BY <2>6
  <2>8. e[c] = g[c]
    BY <1>1, <2>7, Agreement
  <2> QED BY <2>3, <2>5, <2>7, <2>8
<1>2. Denotes(h, G, f)
  <2>1. ASSUME NEW c \in G
        PROVE  Children(h, c) \subseteq G /\ f[c] = Value(h, f, c)
    <3>1. PICK D, g : Good(c, D, g)
      OBVIOUS
    <3>2. Children(h, c) \subseteq D /\ g = [x \in D |-> Value(h, g, x)] /\ c \in D
      BY <3>1 DEF Denotes, Downward
    <3>3. f[c] = g[c] /\ D \subseteq G
      BY <1>1, <3>1
    <3>4. \A d \in Children(h, c) : Good(d, D, g)
      BY <3>1, <3>2
    <3>5. \A d \in Children(h, c) : f[d] = g[d]
      <4> HIDE DEF f, G, Good
      <4> QED BY <1>1, <3>4
    <3>6. g[c] = Value(h, g, c)
      <4> HIDE DEF f, G, Good
      <4> QED BY <3>2
    <3>7. c \in Cont
      OBVIOUS
    <3> HIDE DEF f, G, Good
    <3>8. Value(h, g, c) = Value(h, f, c)
      BY <3>5, <3>7, ValueSame
    <3> QED BY <3>2, <3>3, <3>6, <3>8
  <2>2. G \subseteq Cont
    OBVIOUS
  <2>3. f = [c \in G |-> f[c]]
    OBVIOUS
  <2> HIDE DEF f, G
  <2>4. f = [c \in G |-> Value(h, f, c)]
    BY <2>1, <2>3
  <2> QED BY <2>1, <2>2, <2>4 DEF Denotes, Downward
<1>3. G = Cont
  <2>1. SUFFICES ASSUME Cont \ G # {} PROVE FALSE
    OBVIOUS
  <2>2. PICK c \in Cont \ G : Children(h, c) \cap (Cont \ G) = {}
    <3> HIDE DEF G
    <3> QED BY <2>1 DEF Grounded
  <2>3. Children(h, c) \subseteq G /\ c \notin G /\ c \in Cont
    BY <2>2 DEF Children
  <2> DEFINE D == G \cup {c}
             g == [x \in D |-> IF x = c THEN Value(h, f, c) ELSE f[x]]
  <2>4. G \subseteq Cont
    OBVIOUS
  <2> HIDE DEF G, f
  <2>5. Downward(h, D)
    BY <1>2, <2>3, <2>4 DEF Denotes, Downward
  <2>6. ASSUME NEW x \in D PROVE g[x] = Value(h, g, x)
    <3>1. Children(h, x) \subseteq G /\ x \in Cont
      BY <1>2, <2>3, <2>4 DEF Denotes, Downward
    <3>2. \A d \in Children(h, x) : f[d] = g[d]
      BY <2>3, <3>1
    <3> HIDE DEF g
    <3>3. Value(h, f, x) = Value(h, g, x)
      BY <3>1, <3>2, ValueSame
    <3>4. CASE x = c
      BY <3>3, <3>4 DEF g
    <3>5. CASE x # c
      <4>1. x \in G /\ f = [y \in G |-> Value(h, f, y)]
        BY <1>2, <3>5 DEF Denotes
      <4>2. f[x] = Value(h, f, x)
        BY <4>1
      <4> QED BY <3>3, <3>5, <4>1, <4>2 DEF g
    <3> QED BY <3>4, <3>5
  <2>7. g = [x \in D |-> g[x]]
    OBVIOUS
  <2>8. c \in D
    OBVIOUS
  <2> HIDE DEF g, D
  <2>9. g = [x \in D |-> Value(h, g, x)]
    BY <2>6, <2>7
  <2>10. Good(c, D, g)
    BY <2>5, <2>8, <2>9 DEF Denotes
  <2> HIDE DEF Good
  <2> QED BY <1>1, <2>3, <2>10
<1> HIDE DEF G, f
<1>4. f = [c \in Cont |-> Value(h, f, c)]
  BY <1>2, <1>3 DEF Denotes
<1>5. Values(h) = [c \in Cont |-> Value(h, Values(h), c)]
  BY <1>4 DEF Values
<1>6. Downward(h, Cont)
  BY DEF Downward, Children
<1> QED BY <1>5, <1>6 DEF Denotes

(* A solution, narrowed to containers that hold only each other.           *)
LEMMA Narrowed ==
  ASSUME NEW h, NEW g, Denotes(h, Cont, g), NEW D, Downward(h, D)
  PROVE  Denotes(h, D, [c \in D |-> g[c]])
<1> DEFINE f == [c \in D |-> g[c]]
<1>1. ASSUME NEW c \in D PROVE f[c] = Value(h, f, c)
  <2>1. c \in Cont /\ g = [x \in Cont |-> Value(h, g, x)]
    BY DEF Denotes, Downward
  <2>2. \A d \in Children(h, c) : g[d] = f[d]
    BY DEF Downward
  <2>3. f[c] = g[c]
    OBVIOUS
  <2> HIDE DEF f
  <2>4. Value(h, g, c) = Value(h, f, c)
    BY <2>1, <2>2, ValueSame
  <2>5. g[c] = Value(h, g, c)
    BY <2>1
  <2> QED BY <2>3, <2>4, <2>5
<1>2. f = [c \in D |-> f[c]]
  OBVIOUS
<1> HIDE DEF f
<1>3. f = [c \in D |-> Value(h, f, c)]
  BY <1>1, <1>2
<1>4. f = [c \in D |-> g[c]]
  BY DEF f
<1> QED BY <1>3, <1>4 DEF Denotes

(* Putting into t what is in D, and t is not below D, makes no cycle.      *)
LEMMA GroundedMore ==
  ASSUME NEW h, NEW k, Grounded(h), NEW t \in Cont, NEW D, Downward(h, D), t \notin D,
         \A d \in Cont : d # t => Children(k, d) = Children(h, d),
         Children(k, t) \subseteq Children(h, t) \cup D
  PROVE  Grounded(k)
<1>1. SUFFICES ASSUME NEW T \in SUBSET Cont, T # {}
               PROVE  \E c \in T : Children(k, c) \cap T = {}
  BY DEF Grounded
<1>2. CASE T \cap D # {}
  <2>1. PICK c \in T \cap D : Children(h, c) \cap (T \cap D) = {}
    BY <1>2 DEF Grounded
  <2>2. Children(k, c) = Children(h, c) /\ Children(h, c) \subseteq D
    BY <2>1 DEF Downward
  <2> QED BY <2>1, <2>2
<1>3. CASE T \cap D = {}
  <2>1. PICK c \in T : Children(h, c) \cap T = {}
    BY <1>1 DEF Grounded
  <2>2. Children(k, c) \subseteq Children(h, c) \cup D
    BY <2>1
  <2> QED BY <1>3, <2>1, <2>2
<1> QED BY <1>2, <1>3

LEMMA GroundedSame ==
  ASSUME NEW h, NEW k, Grounded(h), \A d \in Cont : k[d].items = h[d].items
  PROVE  Grounded(k)
<1>1. \A d \in Cont : Children(k, d) = Children(h, d)
  BY DEF Children
<1> QED BY <1>1 DEF Grounded

(* The values are made of kinds and items.                                 *)
LEMMA SameValues ==
  ASSUME NEW h, NEW k,
         \A d \in Cont : k[d].kind = h[d].kind /\ k[d].items = h[d].items
  PROVE  Values(k) = Values(h)
<1>1. \A g : \A d \in Cont : Value(k, g, d) = Value(h, g, d)
  BY DEF Value
<1>2. \A g : [d \in Cont |-> Value(k, g, d)] = [d \in Cont |-> Value(h, g, d)]
  BY <1>1
<1> QED BY <1>2 DEF Values

(* What Store does to the items of the container it is given.              *)
LEMMA StoreItems ==
  ASSUME NEW h \in Heaps, NEW c \in Cont, NEW n \in Name \cup {NULL}, NEW x \in Item
  PROVE  Store(h, c, n, x)[c].items = PutItem(h[c].items, n, x)
<1> DEFINE p == PutItem(h[c].items, n, x)
           g == [h EXCEPT ![c].items = p]
           old == {h[c].items[i].item : i \in SameName(h[c].items, n)} \cap Cont
           drop == [d \in Cont |-> IF d \in old THEN 1 ELSE 0]
<1>1. p \in Seq(Slot)
  BY PutItemEffect DEF Heaps, Cell
<1>2. Store(h, c, n, x) = Release(g, drop)
  BY DEF Store
<1>3. drop \in [Cont -> Nat]
  OBVIOUS
<1> HIDE DEF p
<1>4. g \in Heaps /\ g[c].items = p
  BY <1>1 DEF Heaps, Cell
<1> HIDE DEF g, drop
<1> QED BY <1>2, <1>3, <1>4, ReleaseEffect DEF p
=============================================================================
