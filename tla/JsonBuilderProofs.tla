-------------------------- MODULE JsonBuilderProofs --------------------------
(***************************************************************************)
(* Proofs about JsonBuilder, for any sets of containers, names and scalars *)
(* and any bounds.                                                         *)
(*                                                                         *)
(* The inductive invariant says why sealing is complete and never hits an  *)
(* open container: the open containers form a chain, each one's only       *)
(* holders being its stack entry and the entry below, and neither a        *)
(* container outside the stack nor the client can reach one.  The next     *)
(* part adds to it that every reference count is exact, and the last one   *)
(* that the builder implements JsonDocument.                               *)
(***************************************************************************)
EXTENDS JsonBuilder, JsonHeapProofs

(* Only the next inner container of the stack is open among the children   *)
(* of an open one, and nothing open among those of any other container.    *)
OpenChain ==
  /\ \A i, j \in DOMAIN stack : stack[i].cont = stack[j].cont => i = j
  /\ \A i \in DOMAIN stack : \A j \in DOMAIN stack :
       stack[j].cont \in Children(heap, stack[i].cont) => j = i + 1
  /\ \A c \in Cont \ Open : Children(heap, c) \cap Open = {}

OpenUnsealed == \A c \in Open : ~ heap[c].sealed

HandedNotOpen == \A c \in Cont : handed[c] > 0 => c \notin Open

FreshUnused ==
  \A c \in Cont : Fresh(heap, c) =>
    /\ heap[c].items = <<>> /\ ~ heap[c].sealed
    /\ c \notin Open /\ handed[c] = 0
    /\ \A d \in Cont : c \notin Children(heap, d)

RootAllocated == root \in Cont => ~ Fresh(heap, root)

RootSealed == root # NULL => stack = <<>> /\ (immutable => heap[root].sealed)

IInv ==
  /\ TypeOK
  /\ OpenChain
  /\ OpenUnsealed
  /\ HandedNotOpen
  /\ FreshUnused
  /\ RootAllocated
  /\ RootSealed
  /\ SealedClosed

-----------------------------------------------------------------------------
(* The stack: its top, and what pushing, popping and relabelling leave.    *)

LEMMA TopFacts ==
  ASSUME TypeOK, stack # <<>>
  PROVE  /\ Len(stack) \in Nat /\ Len(stack) > 0
         /\ DOMAIN stack = 1 .. Len(stack)
         /\ Top = stack[Len(stack)] /\ Top \in Frame
         /\ Top.cont \in Open /\ Top.cont \in Cont
         /\ Popped \in Seq(Frame) /\ DOMAIN Popped = 1 .. Len(stack) - 1
         /\ Len(Popped) = Len(stack) - 1
         /\ \A i \in 1 .. Len(stack) - 1 : Popped[i] = stack[i]
<1>1. stack \in Seq(Frame)
  BY DEF TypeOK
<1>2. Len(stack) \in Nat /\ Len(stack) > 0 /\ DOMAIN stack = 1 .. Len(stack)
  BY <1>1, EmptySeq, LenProperties
<1>3. Top = stack[Len(stack)] /\ Top \in Frame
  BY <1>1, <1>2, ElementOfSeq DEF Top, Last
<1>4. Top.cont \in Open /\ Top.cont \in Cont
  BY <1>2, <1>3 DEF Open, Frame
<1>5. Popped = SubSeq(stack, 1, Len(stack) - 1)
  BY DEF Popped, Front
<1>6. \A i \in 1 .. Len(stack) - 1 : stack[i] \in Frame
  BY <1>1, <1>2, ElementOfSeq
<1>7. /\ Popped \in Seq(Frame) /\ Len(Popped) = Len(stack) - 1
      /\ \A i \in 1 .. Len(stack) - 1 : Popped[i] = stack[i]
  BY <1>1, <1>2, <1>5, <1>6, SubSeqProperties
<1>8. DOMAIN Popped = 1 .. Len(stack) - 1
  BY <1>7, LenProperties
<1> QED
  BY <1>2, <1>3, <1>4, <1>7, <1>8

(* Pushing a frame.                                                        *)
LEMMA PushFacts ==
  ASSUME NEW s \in Seq(Frame), NEW f \in Frame
  PROVE  /\ Append(s, f) \in Seq(Frame)
         /\ DOMAIN Append(s, f) = 1 .. Len(s) + 1
         /\ Len(Append(s, f)) = Len(s) + 1
         /\ Len(s) \in Nat /\ DOMAIN s = 1 .. Len(s)
         /\ \A i \in 1 .. Len(s) : Append(s, f)[i] = s[i]
         /\ Append(s, f)[Len(s) + 1] = f
BY AppendProperties, LenProperties

LEMMA OpenType ==
  ASSUME TypeOK
  PROVE  Open \subseteq Cont
<1>1. \A i \in 1 .. Len(stack) : stack[i] \in Frame
  BY ElementOfSeq DEF TypeOK
<1>2. DOMAIN stack = 1 .. Len(stack)
  BY LenProperties DEF TypeOK
<1> QED
  BY <1>1, <1>2 DEF Open, Frame

(* Replacing the top frame by another frame on the same container.         *)
LEMMA RelabelFacts ==
  ASSUME TypeOK, stack # <<>>, NEW f \in Frame, f.cont = Top.cont
  PROVE  /\ Append(Popped, f) \in Seq(Frame)
         /\ DOMAIN Append(Popped, f) = DOMAIN stack
         /\ Len(Append(Popped, f)) = Len(stack)
         /\ \A i \in DOMAIN stack : Append(Popped, f)[i].cont = stack[i].cont
<1>1. /\ Len(stack) \in Nat /\ Len(stack) > 0 /\ DOMAIN stack = 1 .. Len(stack)
      /\ Top = stack[Len(stack)]
      /\ Popped \in Seq(Frame) /\ Len(Popped) = Len(stack) - 1
      /\ \A i \in 1 .. Len(stack) - 1 : Popped[i] = stack[i]
  BY TopFacts
<1> DEFINE s == Append(Popped, f)
<1>2. /\ s \in Seq(Frame)
      /\ DOMAIN s = 1 .. Len(Popped) + 1
      /\ Len(s) = Len(Popped) + 1
      /\ \A i \in 1 .. Len(Popped) : s[i] = Popped[i]
      /\ s[Len(Popped) + 1] = f
  BY <1>1, PushFacts
<1> HIDE DEF s
<1>3. DOMAIN s = DOMAIN stack /\ Len(s) = Len(stack)
  BY <1>1, <1>2
<1>4. ASSUME NEW i \in DOMAIN stack PROVE s[i].cont = stack[i].cont
  <2>1. CASE i = Len(stack)
    BY <1>1, <1>2, <2>1
  <2>2. CASE i < Len(stack)
    BY <1>1, <1>2, <2>2
  <2> QED
    BY <1>1, <2>1, <2>2
<1> QED
  BY <1>2, <1>3, <1>4 DEF s

LEMMA AfterAddFacts ==
  ASSUME TypeOK, stack # <<>>
  PROVE  /\ AfterAdd \in Seq(Frame)
         /\ DOMAIN AfterAdd = DOMAIN stack /\ Len(AfterAdd) = Len(stack)
         /\ \A i \in DOMAIN stack : AfterAdd[i].cont = stack[i].cont
<1> DEFINE f == [cont |-> Top.cont, mode |-> "OBJECT", name |-> NULL]
<1>1. f \in Frame /\ f.cont = Top.cont
  BY TopFacts DEF Frame, Modes
<1>2. CASE Top.mode = "MEMBER"
  BY <1>1, <1>2, RelabelFacts DEF AfterAdd
<1>3. CASE Top.mode # "MEMBER"
  BY <1>3 DEF AfterAdd, TypeOK
<1> QED
  BY <1>2, <1>3

-----------------------------------------------------------------------------
(* Sealing: it keeps SealedClosed, and never reaches an open container but *)
(* the one end_object or end_array has just popped.                        *)

Closed(h) == \A c \in Cont : h[c].sealed => \A d \in Children(h, c) : h[d].sealed

LEMMA SealKeepsClosed ==
  ASSUME NEW h \in Heaps, NEW c \in Cont, Closed(h)
  PROVE  Closed(Seal(h, c))
<1>1. SUFFICES ASSUME NEW d \in Cont, Seal(h, c)[d].sealed,
                      NEW e \in Children(Seal(h, c), d)
               PROVE  Seal(h, c)[e].sealed
  BY DEF Closed
<1>2. e \in Children(h, d) /\ e \in Cont
  BY SealEffect DEF Children
<1>3. CASE h[d].sealed
  BY <1>2, <1>3, SealEffect DEF Closed
<1>4. CASE ~ h[d].sealed
  <2>1. d \in SealSet(h, c)
    BY <1>1, <1>4, SealEffect
  <2>2. e \in SealSet(h, c)
    BY <1>2, <1>4, <2>1, SealSetClosed
  <2> QED
    BY <1>2, <2>2, SealEffect
<1> QED
  BY <1>3, <1>4

LEMMA SealAvoidsOpen ==
  ASSUME TypeOK, OpenChain, NEW c \in Cont \ Open
  PROVE  SealSet(heap, c) \cap Open = {}
<1> DEFINE T == Cont \ Open
<1>1. heap \in Heaps
  BY DEF TypeOK, Heaps
<1>2. \A x \in T : Children(heap, x) \subseteq T
  BY DEF OpenChain, Children
<1>3. SealSet(heap, c) \subseteq T
  <2> HIDE DEF T
  <2>1. T \in SUBSET Cont /\ c \in T
    BY DEF T
  <2> QED
    BY <1>1, <1>2, <2>1, SealSetLeast
<1> QED
  BY <1>3

LEMMA SealTop ==
  ASSUME TypeOK, OpenChain, stack # <<>>
  PROVE  SealSet(heap, Top.cont) \cap Open \subseteq {Top.cont}
<1> DEFINE c == Top.cont
           T == (Cont \ Open) \cup {c}
<1>1. heap \in Heaps
  BY DEF TypeOK, Heaps
<1>2. /\ c \in Cont /\ c \in Open /\ c = stack[Len(stack)].cont
      /\ Len(stack) \in Nat /\ Len(stack) > 0 /\ DOMAIN stack = 1 .. Len(stack)
  BY TopFacts
<1>3. Children(heap, c) \cap Open = {}
  BY <1>2 DEF OpenChain, Open
<1>4. \A x \in T : Children(heap, x) \subseteq T
  BY <1>3 DEF OpenChain, Children
<1> HIDE DEF c
<1>5. T \in SUBSET Cont /\ c \in T
  BY <1>2
<1> HIDE DEF T
<1>6. SealSet(heap, c) \subseteq T
  BY <1>1, <1>2, <1>4, <1>5, SealSetLeast
<1> QED
  BY <1>6 DEF T, c

-----------------------------------------------------------------------------
(* Attaching a value that is not open to the innermost container of a heap *)
(* that has the items of the current one.                                  *)

LEMMA AttachEffect ==
  ASSUME IInv, stack # <<>>, NEW h \in Heaps, NEW x \in Item,
         \A d \in Cont : h[d].items = heap[d].items,
         \A d \in Open : ~ h[d].sealed, Closed(h)
  PROVE  /\ Attached(h, x) \in Heaps
         /\ \A d \in Cont : /\ Attached(h, x)[d].kind = h[d].kind
                            /\ Attached(h, x)[d].sealed = h[d].sealed
                            /\ d # Top.cont =>
                                 Attached(h, x)[d].items = heap[d].items
                            /\ d # Top.cont =>
                                 Children(Attached(h, x), d) = Children(heap, d)
         /\ Children(Attached(h, x), Top.cont)
              \subseteq Children(heap, Top.cont) \cup {x}
         /\ Closed(Attached(h, x))
<1> DEFINE c == Top.cont
           n == Top.name
           g == Store(h, c, n, x)
<1>1. /\ c \in Cont /\ c \in Open /\ n \in Name \cup {NULL}
      /\ g = Attached(h, x)
  BY TopFacts DEF IInv, Frame, Attached
<1> HIDE DEF c, n
<1>2. /\ g \in Heaps
      /\ \A d \in Cont : /\ g[d].kind = h[d].kind /\ g[d].sealed = h[d].sealed
                         /\ d # c => g[d].items = h[d].items
      /\ Children(g, c) \subseteq Children(h, c) \cup {x}
  BY <1>1, StoreEffect
<1> HIDE DEF g
<1>3. \A d \in Cont : Children(h, d) = Children(heap, d)
  BY DEF Children
<1>4. \A d \in Cont : d # c => Children(g, d) = Children(h, d)
  BY <1>2 DEF Children
<1>5. \A d \in Cont : Children(g, d) \subseteq Cont
  BY DEF Children
<1>6. Closed(g)
  BY <1>1, <1>2, <1>4, <1>5 DEF Closed
<1>7. /\ \A d \in Cont : d # c => g[d].items = heap[d].items
      /\ \A d \in Cont : d # c => Children(g, d) = Children(heap, d)
      /\ Children(g, c) \subseteq Children(heap, c) \cup {x}
  BY <1>1, <1>2, <1>3, <1>4
<1> QED
  BY <1>1, <1>2, <1>6, <1>7 DEF c

(* A step that keeps the open containers and links nothing open anywhere   *)
(* keeps the chain.                                                        *)
LEMMA ChainKept ==
  ASSUME OpenChain,
         DOMAIN stack' = DOMAIN stack,
         \A i \in DOMAIN stack : stack'[i].cont = stack[i].cont,
         \A c \in Cont : Children(heap', c) \cap Open \subseteq Children(heap, c),
         Open \subseteq Cont
  PROVE  OpenChain' /\ Open' = Open
<1>1. Open' = Open
  BY DEF Open
<1>2. \A i \in DOMAIN stack : stack[i].cont \in Open
  BY DEF Open
<1> QED
  BY <1>1, <1>2 DEF OpenChain

LEMMA AllocEffect ==
  ASSUME NEW h \in Heaps, NEW c \in Cont, NEW k \in {"object", "array"}, NEW n \in Nat
  PROVE  /\ Alloc(h, c, k, n) \in Heaps
         /\ \A d \in Cont : d # c => Alloc(h, c, k, n)[d] = h[d]
         /\ Alloc(h, c, k, n)[c].kind = k
         /\ Alloc(h, c, k, n)[c].items = <<>>
         /\ ~ Alloc(h, c, k, n)[c].sealed
<1>1. <<>> \in Seq(Slot)
  BY EmptySeq
<1> QED
  BY <1>1 DEF Alloc, Heaps, Cell

-----------------------------------------------------------------------------
(* Every step keeps the inductive invariant. *)

LEMMA BeginFirst ==
  ASSUME IInv, NEW k \in {"object", "array"}, NEW c \in Cont, Begin(k, c), stack = <<>>
  PROVE  IInv'
<1> DEFINE f == [cont |-> c, mode |-> IF k = "object" THEN "OBJECT" ELSE "ARRAY",
                 name |-> NULL]
<1>1. /\ Fresh(heap, c) /\ root = NULL
      /\ heap' = Alloc(heap, c, k, 1) /\ stack' = <<f>>
      /\ UNCHANGED <<root, immutable, handed, got>>
  BY DEF Begin
<1>2. f \in Frame
  BY DEF Frame, Modes
<1>3. f.cont = c
  OBVIOUS
<1> HIDE DEF f
<1>4. heap \in Heaps
  BY DEF IInv, TypeOK, Heaps
<1>5. /\ heap' \in Heaps
      /\ \A d \in Cont : d # c => heap'[d] = heap[d]
      /\ heap'[c].kind = k /\ heap'[c].items = <<>> /\ ~ heap'[c].sealed
  BY <1>1, <1>4, AllocEffect
<1>6. /\ \A d \in Cont : d # c => Children(heap', d) = Children(heap, d)
      /\ Children(heap', c) = {}
  BY <1>5 DEF Children
<1>7. Open = {} /\ Open' = {c} /\ DOMAIN stack' = {1} /\ stack'[1].cont = c
  BY <1>1, <1>3 DEF Open
<1>8. \A d \in Cont : c \notin Children(heap, d)
  BY <1>1 DEF IInv, FreshUnused
<1>9. TypeOK'
  <2>1. stack' \in Seq(Frame)
    BY <1>1, <1>2
  <2> QED
    BY <1>1, <1>5, <2>1 DEF IInv, TypeOK, Heaps
<1>10. OpenChain'
  BY <1>6, <1>7, <1>8 DEF OpenChain
<1>11. OpenUnsealed'
  BY <1>5, <1>7 DEF OpenUnsealed
<1>12. HandedNotOpen'
  BY <1>1, <1>7 DEF HandedNotOpen, IInv, FreshUnused, TypeOK
<1>13. FreshUnused'
  BY <1>1, <1>5, <1>6, <1>7 DEF IInv, FreshUnused, Fresh
<1>14. RootSealed'
  BY <1>1 DEF RootSealed
<1>15. SealedClosed'
  <2>1. SUFFICES ASSUME NEW d \in Cont, heap'[d].sealed,
                        NEW e \in Children(heap', d)
                 PROVE  heap'[e].sealed
    BY DEF SealedClosed
  <2>2. d # c /\ e \in Children(heap, d) /\ heap[d].sealed
    BY <1>5, <1>6, <2>1
  <2>3. heap[e].sealed /\ e # c /\ e \in Cont
    BY <1>8, <2>2 DEF IInv, SealedClosed, Children
  <2> QED
    BY <1>5, <2>3
<1>16. RootAllocated'
  BY <1>1, HeapAssumption DEF RootAllocated
<1> QED
  BY <1>9, <1>10, <1>11, <1>12, <1>13, <1>14, <1>15, <1>16 DEF IInv

LEMMA BeginNested ==
  ASSUME IInv, NEW k \in {"object", "array"}, NEW c \in Cont, Begin(k, c), stack # <<>>
  PROVE  IInv'
<1> DEFINE f == [cont |-> c, mode |-> IF k = "object" THEN "OBJECT" ELSE "ARRAY",
                 name |-> NULL]
           t == Top.cont
           n == Len(stack)
<1>0. PICK g : g = Alloc(heap, c, k, 2)
  OBVIOUS
<1>1. /\ Fresh(heap, c) /\ root = NULL
      /\ heap' = Attached(g, c) /\ stack' = Append(AfterAdd, f)
      /\ UNCHANGED <<root, immutable, handed, got>>
  BY <1>0 DEF Begin
<1>2. f \in Frame
  BY DEF Frame, Modes
<1>3. f.cont = c
  OBVIOUS
<1> HIDE DEF f
<1>4. heap \in Heaps
  BY DEF IInv, TypeOK, Heaps
<1>5. /\ g \in Heaps
      /\ \A d \in Cont : d # c => g[d] = heap[d]
      /\ g[c].kind = k /\ g[c].items = <<>> /\ ~ g[c].sealed
  <2>1. Alloc(heap, c, k, 2) \in Heaps
    BY <1>4, AllocEffect
  <2>2. \A d \in Cont : d # c => Alloc(heap, c, k, 2)[d] = heap[d]
    BY <1>4 DEF Alloc, Heaps
  <2>3. /\ Alloc(heap, c, k, 2)[c].kind = k
        /\ Alloc(heap, c, k, 2)[c].items = <<>>
        /\ ~ Alloc(heap, c, k, 2)[c].sealed
    BY <1>4, AllocEffect
  <2> QED
    BY <1>0, <2>1, <2>2, <2>3
<1>6. /\ heap[c].items = <<>> /\ c \notin Open /\ handed[c] = 0
      /\ \A d \in Cont : c \notin Children(heap, d)
  BY <1>1 DEF IInv, FreshUnused
<1>7. \A d \in Cont : g[d].items = heap[d].items
  BY <1>5, <1>6
<1>8. Open \subseteq Cont /\ \A d \in Open : ~ g[d].sealed
  <2> QED
    BY <1>5, <1>6, OpenType DEF IInv, OpenUnsealed
<1>9. Closed(g)
  <2>1. SUFFICES ASSUME NEW d \in Cont, g[d].sealed, NEW e \in Children(g, d)
                 PROVE  g[e].sealed
    BY DEF Closed
  <2>2. d # c /\ e \in Children(heap, d) /\ heap[d].sealed
    BY <1>5, <1>7, <2>1 DEF Children
  <2>3. heap[e].sealed /\ e # c /\ e \in Cont
    BY <1>6, <2>2 DEF IInv, SealedClosed, Children
  <2> QED
    BY <1>5, <2>3
<1>10. c \in Item
  BY DEF Item
<1>11. /\ heap' \in Heaps
       /\ \A d \in Cont : heap'[d].kind = g[d].kind /\ heap'[d].sealed = g[d].sealed
       /\ \A d \in Cont : d # t => heap'[d].items = heap[d].items
       /\ \A d \in Cont : d # t => Children(heap', d) = Children(heap, d)
       /\ Children(heap', t) \subseteq Children(heap, t) \cup {c}
       /\ Closed(heap')
  BY <1>1, <1>5, <1>7, <1>8, <1>9, <1>10, AttachEffect
<1>12. /\ n \in Nat /\ n > 0 /\ DOMAIN stack = 1 .. n
       /\ t = stack[n].cont /\ t \in Open /\ t \in Cont
  BY TopFacts DEF IInv
<1>13. /\ stack' \in Seq(Frame) /\ DOMAIN stack' = 1 .. n + 1
       /\ \A i \in 1 .. n : stack'[i].cont = stack[i].cont
       /\ stack'[n + 1].cont = c
  <2>1. /\ AfterAdd \in Seq(Frame) /\ Len(AfterAdd) = n
        /\ \A i \in 1 .. n : AfterAdd[i].cont = stack[i].cont
    BY <1>12, AfterAddFacts DEF IInv
  <2>2. /\ stack' \in Seq(Frame) /\ DOMAIN stack' = 1 .. n + 1
        /\ \A i \in 1 .. n : stack'[i] = AfterAdd[i]
        /\ stack'[n + 1] = f
    BY <1>1, <1>2, <2>1, PushFacts
  <2> QED
    BY <1>3, <2>1, <2>2
<1> HIDE DEF t, n
<1>14. Open' = Open \cup {c}
  BY <1>12, <1>13 DEF Open
<1>15. TypeOK'
  BY <1>1, <1>11, <1>13 DEF IInv, TypeOK, Heaps
<1>16. OpenChain'
  <2>1. \A i, j \in DOMAIN stack' : stack'[i].cont = stack'[j].cont => i = j
    BY <1>6, <1>12, <1>13 DEF IInv, OpenChain, Open
  <2>2. ASSUME NEW i \in DOMAIN stack', NEW j \in DOMAIN stack',
               stack'[j].cont \in Children(heap', stack'[i].cont)
        PROVE  j = i + 1
    <3>1. CASE i = n + 1
      <4>1. c # t /\ Children(heap', c) = {}
        BY <1>6, <1>11, <1>12 DEF Children
      <4> QED
        BY <1>13, <2>2, <3>1, <4>1
    <3>2. CASE i \in 1 .. n /\ j = n + 1
      <4>1. stack[i].cont \in Cont /\ stack[i].cont \in Open
        BY <1>8, <1>12, <3>2 DEF Open
      <4>2. stack[i].cont = t
        BY <1>6, <1>11, <1>13, <2>2, <3>2, <4>1
      <4> QED
        BY <1>12, <3>2, <4>2 DEF IInv, OpenChain
    <3>3. CASE i \in 1 .. n /\ j \in 1 .. n
      <4>1. stack[i].cont \in Cont /\ stack[j].cont \in Open
        BY <1>8, <1>12, <3>3 DEF Open
      <4>2. stack[j].cont \in Children(heap, stack[i].cont)
        BY <1>6, <1>11, <1>13, <2>2, <3>3, <4>1
      <4> QED
        BY <1>12, <3>3, <4>2 DEF IInv, OpenChain
    <3> QED
      BY <1>12, <1>13, <3>1, <3>2, <3>3
  <2>3. \A d \in Cont \ Open' : Children(heap', d) \cap Open' = {}
    BY <1>6, <1>11, <1>12, <1>14 DEF IInv, OpenChain
  <2> QED
    BY <2>1, <2>2, <2>3 DEF OpenChain
<1>17. OpenUnsealed'
  BY <1>5, <1>8, <1>11, <1>14 DEF OpenUnsealed
<1>18. HandedNotOpen'
  BY <1>1, <1>6, <1>14 DEF HandedNotOpen, IInv, TypeOK
<1>19. FreshUnused'
  <2>1. SUFFICES ASSUME NEW d \in Cont, heap'[d].kind = "none"
                 PROVE  /\ heap'[d].items = <<>> /\ ~ heap'[d].sealed
                        /\ d \notin Open' /\ handed'[d] = 0
                        /\ \A e \in Cont : d \notin Children(heap', e)
    BY DEF FreshUnused, Fresh
  <2>2. d # c /\ Fresh(heap, d) /\ heap'[d].sealed = heap[d].sealed
    BY <1>5, <1>11, <2>1 DEF Fresh
  <2>3. /\ heap[d].items = <<>> /\ ~ heap[d].sealed /\ d \notin Open /\ handed[d] = 0
        /\ \A e \in Cont : d \notin Children(heap, e)
    BY <2>2 DEF IInv, FreshUnused
  <2>4. \A e \in Cont : d \notin Children(heap', e)
    BY <1>11, <2>2, <2>3
  <2> QED
    BY <1>1, <1>11, <1>12, <1>14, <2>2, <2>3, <2>4
<1>20. RootSealed'
  BY <1>1 DEF RootSealed
<1>21. SealedClosed'
  BY <1>11 DEF SealedClosed, Closed
<1>22. RootAllocated'
  BY <1>1, HeapAssumption DEF RootAllocated
<1> QED
  BY <1>15, <1>16, <1>17, <1>18, <1>19, <1>20, <1>21, <1>22 DEF IInv

LEMMA AddRefEffect ==
  ASSUME NEW h \in Heaps, NEW c \in Cont
  PROVE  /\ AddRef(h, c) \in Heaps
         /\ \A d \in Cont : /\ AddRef(h, c)[d].kind = h[d].kind
                            /\ AddRef(h, c)[d].items = h[d].items
                            /\ AddRef(h, c)[d].sealed = h[d].sealed
BY DEF AddRef, Heaps, Cell

LEMMA OneType == ASSUME NEW c \in Cont PROVE One(c) \in [Cont -> Nat]
BY DEF One, NoDrop

(* What a step owes when it changes no items, kind or stack: only flags    *)
(* may have been set, on containers that are not open.                     *)
LEMMA FlagStep ==
  ASSUME IInv, heap' \in Heaps,
         stack' = stack, root' = root, immutable' = immutable,
         \A d \in Cont : /\ heap'[d].kind = heap[d].kind
                         /\ heap'[d].items = heap[d].items
                         /\ heap[d].sealed => heap'[d].sealed
                         /\ Fresh(heap, d) => ~ heap'[d].sealed,
         \A d \in Open : ~ heap'[d].sealed,
         Closed(heap'),
         handed' \in [Cont -> Nat], got' \in Cont \cup {NULL},
         \A d \in Cont : handed'[d] > 0 => d \notin Open /\ ~ Fresh(heap, d)
  PROVE  IInv'
<1>a. \A d \in Cont : Children(heap', d) = Children(heap, d)
  BY DEF Children
<1>b. Open' = Open
  BY DEF Open
<1>1. Open' = Open /\ \A d \in Cont : Children(heap', d) = Children(heap, d)
  BY <1>a, <1>b
<1>2. TypeOK'
  BY DEF IInv, TypeOK, Heaps
<1>3. OpenChain'
  BY <1>1, OpenType, ChainKept DEF IInv
<1>4. OpenUnsealed'
  BY <1>1 DEF OpenUnsealed
<1>5. HandedNotOpen'
  BY <1>1 DEF HandedNotOpen
<1>6. FreshUnused'
  <2>1. SUFFICES ASSUME NEW d \in Cont, heap'[d].kind = "none"
                 PROVE  /\ heap'[d].items = <<>> /\ ~ heap'[d].sealed
                        /\ d \notin Open /\ handed'[d] = 0
                        /\ \A e \in Cont : d \notin Children(heap', e)
    BY <1>1 DEF FreshUnused, Fresh
  <2>2. Fresh(heap, d)
    BY <2>1 DEF Fresh
  <2>3. ~ (handed'[d] > 0) /\ handed'[d] \in Nat
    BY <2>2
  <2> QED
    BY <1>1, <2>2, <2>3 DEF IInv, FreshUnused
<1>7. RootSealed'
  BY DEF IInv, RootSealed, TypeOK
<1>8. SealedClosed'
  BY DEF SealedClosed, Closed
<1>9. RootAllocated'
  BY DEF IInv, RootAllocated, Fresh
<1> QED
  BY <1>2, <1>3, <1>4, <1>5, <1>6, <1>7, <1>8, <1>9 DEF IInv

LEMMA EndStep ==
  ASSUME IInv, NEW mode, End(mode)
  PROVE  IInv'
<1> DEFINE n == Len(stack)
<1>1. PICK c : c = Top.cont
  OBVIOUS
<1>2. PICK h : h = IF immutable THEN Seal(heap, c) ELSE heap
  OBVIOUS
<1>3. PICK g : g = IF n = 1 THEN AddRef(h, c) ELSE h
  OBVIOUS
<1>4. /\ stack # <<>> /\ heap' = Release(g, One(c)) /\ stack' = Popped
      /\ root' = IF n = 1 THEN c ELSE root
      /\ UNCHANGED <<immutable, handed, got>>
  BY <1>1, <1>2, <1>3 DEF End, Ended, SealIfImmutable
<1>5. /\ n \in Nat /\ n > 0 /\ DOMAIN stack = 1 .. n
      /\ c = stack[n].cont /\ c \in Open /\ c \in Cont
      /\ Popped \in Seq(Frame) /\ DOMAIN Popped = 1 .. n - 1 /\ Len(Popped) = n - 1
      /\ \A i \in 1 .. n - 1 : Popped[i] = stack[i]
  BY <1>1, <1>4, TopFacts DEF IInv
<1> HIDE DEF n
<1>5a. Open \subseteq Cont
  BY OpenType DEF IInv
<1>6. heap \in Heaps /\ Closed(heap)
  BY DEF IInv, TypeOK, Heaps, SealedClosed, Closed
<1>7. /\ h \in Heaps /\ Closed(h)
      /\ \A d \in Cont : h[d].kind = heap[d].kind /\ h[d].items = heap[d].items
      /\ \A d \in Cont : h[d].sealed => heap[d].sealed \/ d \in SealSet(heap, c)
      /\ \A d \in Cont : heap[d].sealed => h[d].sealed
      /\ immutable => h[c].sealed
  <2>1. CASE immutable
    BY <1>2, <1>5, <1>6, <2>1, SealEffect, SealKeepsClosed
  <2>2. CASE ~ immutable
    BY <1>2, <1>6, <2>2
  <2> QED
    BY <2>1, <2>2
<1>8. /\ g \in Heaps
      /\ \A d \in Cont : /\ g[d].kind = h[d].kind /\ g[d].items = h[d].items
                         /\ g[d].sealed = h[d].sealed
  BY <1>3, <1>5, <1>7, AddRefEffect
<1>9. /\ heap' \in Heaps
      /\ \A d \in Cont : /\ heap'[d].kind = heap[d].kind
                         /\ heap'[d].items = heap[d].items
                         /\ heap'[d].sealed = h[d].sealed
  BY <1>4, <1>5, <1>7, <1>8, OneType, ReleaseEffect
<1>10. \A d \in Cont : Children(heap', d) = Children(heap, d) /\ Children(h, d) = Children(heap, d)
  BY <1>7, <1>9 DEF Children
<1>11. \A i \in 1 .. n : \A j \in 1 .. n : stack[i].cont = stack[j].cont => i = j
  BY <1>5 DEF IInv, OpenChain
<1>12. Open' = Open \ {c}
  BY <1>4, <1>5, <1>11 DEF Open
<1>13. SealSet(heap, c) \cap Open \subseteq {c}
  BY <1>1, <1>4, SealTop DEF IInv
<1>14. TypeOK'
  BY <1>4, <1>5, <1>9 DEF IInv, TypeOK, Heaps
<1>15. OpenChain'
  <2>1. \A i, j \in DOMAIN stack' : stack'[i].cont = stack'[j].cont => i = j
    BY <1>4, <1>5, <1>11
  <2>2. ASSUME NEW i \in DOMAIN stack', NEW j \in DOMAIN stack',
               stack'[j].cont \in Children(heap', stack'[i].cont)
        PROVE  j = i + 1
    <3>1. stack'[i] = stack[i] /\ stack'[j] = stack[j] /\ i \in 1 .. n /\ j \in 1 .. n
      BY <1>4, <1>5
    <3>2. stack[i].cont \in Cont
      BY <1>5, <1>5a, <3>1 DEF Open
    <3> QED
      BY <1>5, <1>10, <2>2, <3>1, <3>2 DEF IInv, OpenChain
  <2>3. \A d \in Cont \ Open' : Children(heap', d) \cap Open' = {}
    <3>1. Children(heap, c) \cap Open = {}
      BY <1>5 DEF IInv, OpenChain, Open
    <3> QED
      BY <1>10, <1>12, <3>1 DEF IInv, OpenChain
  <2> QED
    BY <2>1, <2>2, <2>3 DEF OpenChain
<1>16. OpenUnsealed'
  <2> QED
    BY <1>5a, <1>7, <1>9, <1>12, <1>13 DEF IInv, OpenUnsealed
<1>17. HandedNotOpen'
  BY <1>4, <1>12 DEF HandedNotOpen, IInv
<1>18. FreshUnused'
  <2>1. SUFFICES ASSUME NEW d \in Cont, heap'[d].kind = "none"
                 PROVE  /\ heap'[d].items = <<>> /\ ~ heap'[d].sealed
                        /\ d \notin Open' /\ handed'[d] = 0
                        /\ \A e \in Cont : d \notin Children(heap', e)
    BY DEF FreshUnused, Fresh
  <2>2. Fresh(heap, d)
    BY <1>9, <2>1 DEF Fresh
  <2>3. /\ heap[d].items = <<>> /\ ~ heap[d].sealed /\ d \notin Open /\ handed[d] = 0
        /\ \A e \in Cont : d \notin Children(heap, e)
    BY <2>2 DEF IInv, FreshUnused
  <2>4. d \notin SealSet(heap, c)
    <3> DEFINE T == Cont \ {d}
    <3>1. T \in SUBSET Cont /\ c \in T /\ \A x \in T : Children(heap, x) \subseteq T
      BY <1>5, <2>3 DEF Children
    <3> HIDE DEF T
    <3>2. SealSet(heap, c) \subseteq T
      BY <1>5, <1>6, <3>1, SealSetLeast
    <3> QED
      BY <3>2 DEF T
  <2> QED
    BY <1>4, <1>7, <1>9, <1>10, <1>12, <2>3, <2>4
<1>19. RootSealed'
  <2>1. CASE n = 1
    <3>1. stack' = <<>>
      BY <1>4, <1>5, <2>1, EmptySeq
    <3> QED
      BY <1>4, <1>5, <1>7, <1>9, <2>1, <3>1 DEF RootSealed
  <2>2. CASE n # 1
    BY <1>4, <2>2 DEF IInv, RootSealed
  <2> QED
    BY <2>1, <2>2
<1>20. SealedClosed'
  BY <1>7, <1>9, <1>10 DEF SealedClosed, Closed, Children
<1>21. RootAllocated'
  <2>1. ~ Fresh(heap, c)
    BY <1>5 DEF IInv, FreshUnused
  <2> QED
    BY <1>4, <1>9, <2>1 DEF IInv, RootAllocated, Fresh
<1> QED
  BY <1>14, <1>15, <1>16, <1>17, <1>18, <1>19, <1>20, <1>21 DEF IInv

(* The add functions: x goes into the innermost container; h is the heap   *)
(* after the node that carries x has been sealed, if it has been.          *)
LEMMA AddStep ==
  ASSUME IInv, stack # <<>>, NEW h \in Heaps, NEW x \in Item \ Open,
         Fresh(heap, x) => x \notin Cont,
         \A d \in Cont : h[d].kind = heap[d].kind /\ h[d].items = heap[d].items,
         \A d \in Cont : Fresh(heap, d) => ~ h[d].sealed,
         \A d \in Open : ~ h[d].sealed, Closed(h),
         heap' = Attached(h, x), stack' = AfterAdd,
         root' = root, immutable' = immutable, got' = got,
         handed' \in [Cont -> Nat],
         \A d \in Cont : handed'[d] > 0 => handed[d] > 0
  PROVE  IInv'
<1>1. PICK t : t = Top.cont
  OBVIOUS
<1>2. /\ heap' \in Heaps
      /\ \A d \in Cont : heap'[d].kind = h[d].kind /\ heap'[d].sealed = h[d].sealed
      /\ \A d \in Cont : d # t => heap'[d].items = heap[d].items
      /\ \A d \in Cont : d # t => Children(heap', d) = Children(heap, d)
      /\ Children(heap', t) \subseteq Children(heap, t) \cup {x}
      /\ Closed(heap')
  BY <1>1, AttachEffect
<1>3. /\ stack' \in Seq(Frame) /\ DOMAIN stack' = DOMAIN stack
      /\ \A i \in DOMAIN stack : stack'[i].cont = stack[i].cont
      /\ t \in Open /\ t \in Cont
  BY <1>1, AfterAddFacts, TopFacts DEF IInv
<1>4. OpenChain' /\ Open' = Open
  <2>1. \A c \in Cont : Children(heap', c) \cap Open \subseteq Children(heap, c)
    BY <1>2
  <2> QED
    BY <1>3, <2>1, OpenType, ChainKept DEF IInv
<1>5. TypeOK'
  BY <1>2, <1>3 DEF IInv, TypeOK, Heaps
<1>6. OpenUnsealed'
  BY <1>2, <1>4, OpenType DEF IInv, OpenUnsealed
<1>7. HandedNotOpen'
  BY <1>4 DEF IInv, HandedNotOpen
<1>8. FreshUnused'
  <2>1. SUFFICES ASSUME NEW d \in Cont, heap'[d].kind = "none"
                 PROVE  /\ heap'[d].items = <<>> /\ ~ heap'[d].sealed
                        /\ d \notin Open /\ handed'[d] = 0
                        /\ \A e \in Cont : d \notin Children(heap', e)
    BY <1>4 DEF FreshUnused, Fresh
  <2>2. Fresh(heap, d)
    BY <1>2, <2>1 DEF Fresh
  <2>3. /\ heap[d].items = <<>> /\ d \notin Open /\ handed[d] = 0
        /\ \A e \in Cont : d \notin Children(heap, e)
    BY <2>2 DEF IInv, FreshUnused
  <2>4. handed'[d] = 0
    <3>1. ~ (handed'[d] > 0) /\ handed'[d] \in Nat
      BY <2>3
    <3> QED
      BY <3>1
  <2> QED
    BY <1>2, <1>3, <2>2, <2>3, <2>4
<1>9. RootSealed'
  BY DEF IInv, RootSealed
<1>10. SealedClosed'
  BY <1>2 DEF SealedClosed, Closed
<1>11. RootAllocated'
  BY <1>2 DEF IInv, RootAllocated, Fresh
<1> QED
  BY <1>4, <1>5, <1>6, <1>7, <1>8, <1>9, <1>10, <1>11 DEF IInv

LEMMA AddScalarStep ==
  ASSUME IInv, NEW s \in Scalar, AddScalar(s)
  PROVE  IInv'
<1>1. /\ stack # <<>> /\ heap' = Attached(heap, s) /\ stack' = AfterAdd
      /\ root' = root /\ immutable' = immutable /\ got' = got /\ handed' = handed
  BY DEF AddScalar, ValidAddMode
<1>2. heap \in Heaps /\ handed \in [Cont -> Nat]
  BY DEF IInv, TypeOK, Heaps
<1>3. s \in Item \ Open /\ s \notin Cont
  BY HeapAssumption, OpenType DEF Item, IInv
<1>4. Closed(heap) /\ \A d \in Open : ~ heap[d].sealed
  BY DEF IInv, SealedClosed, Closed, OpenUnsealed
<1>5. \A d \in Cont : Fresh(heap, d) => ~ heap[d].sealed
  BY DEF IInv, FreshUnused
<1> QED
  BY <1>1, <1>2, <1>3, <1>4, <1>5, AddStep

(* Sealing a container the client holds sets flags on containers that are  *)
(* neither open nor fresh, and leaves the heap closed.                     *)
LEMMA SealHanded ==
  ASSUME IInv, NEW c \in Cont, handed[c] > 0
  PROVE  /\ Seal(heap, c) \in Heaps
         /\ \A d \in Cont : Seal(heap, c)[d].kind = heap[d].kind
         /\ \A d \in Cont : Seal(heap, c)[d].items = heap[d].items
         /\ \A d \in Cont : heap[d].sealed => Seal(heap, c)[d].sealed
         /\ \A d \in Cont : Fresh(heap, d) => ~ Seal(heap, c)[d].sealed
         /\ \A d \in Open : ~ Seal(heap, c)[d].sealed
         /\ Closed(Seal(heap, c))
         /\ ~ Fresh(heap, c)
<1>1. heap \in Heaps /\ Closed(heap)
  BY DEF IInv, TypeOK, Heaps, SealedClosed, Closed
<1>2. ~ Fresh(heap, c) /\ c \in Cont \ Open
  BY DEF IInv, FreshUnused, HandedNotOpen
<1>3. SealSet(heap, c) \cap Open = {}
  BY <1>2, SealAvoidsOpen DEF IInv
<1>4. ASSUME NEW d \in Cont, Fresh(heap, d) PROVE d \notin SealSet(heap, c)
  <2> DEFINE T == Cont \ {d}
  <2>1. \A x \in T : Children(heap, x) \subseteq T
    BY <1>4 DEF IInv, FreshUnused, Children
  <2>2. T \in SUBSET Cont /\ c \in T
    BY <1>2, <1>4
  <2> HIDE DEF T
  <2>3. SealSet(heap, c) \subseteq T
    BY <1>1, <2>1, <2>2, SealSetLeast
  <2> QED
    BY <2>3 DEF T
<1>5. /\ Seal(heap, c) \in Heaps
      /\ \A d \in Cont : /\ Seal(heap, c)[d].kind = heap[d].kind
                         /\ Seal(heap, c)[d].items = heap[d].items
                         /\ Seal(heap, c)[d].sealed <=>
                              heap[d].sealed \/ d \in SealSet(heap, c)
  BY <1>1, SealEffect
<1>6. Closed(Seal(heap, c))
  BY <1>1, SealKeepsClosed
<1>7. \A d \in Cont : Fresh(heap, d) => ~ Seal(heap, c)[d].sealed
  BY <1>4, <1>5 DEF IInv, FreshUnused
<1>8. \A d \in Open : ~ Seal(heap, c)[d].sealed
  BY <1>3, <1>5, OpenType DEF IInv, OpenUnsealed
<1> QED
  BY <1>2, <1>5, <1>6, <1>7, <1>8

LEMMA AddValueStep ==
  ASSUME IInv, NEW c \in Cont, AddValue(c)
  PROVE  IInv'
<1>1. PICK h : h = IF immutable THEN Seal(heap, c) ELSE heap
  OBVIOUS
<1>2. /\ stack # <<>> /\ handed[c] > 0
      /\ heap' = Attached(h, c) /\ stack' = AfterAdd
      /\ handed' = [handed EXCEPT ![c] = @ - 1]
      /\ root' = root /\ immutable' = immutable /\ got' = got
  BY <1>1 DEF AddValue, ValidAddMode, SealIfImmutable
<1>3. heap \in Heaps /\ handed \in [Cont -> Nat]
  BY DEF IInv, TypeOK, Heaps
<1>4. c \in Item \ Open /\ ~ Fresh(heap, c)
  BY <1>2 DEF IInv, HandedNotOpen, FreshUnused, Item
<1>5. /\ h \in Heaps /\ Closed(h)
      /\ \A d \in Cont : h[d].kind = heap[d].kind /\ h[d].items = heap[d].items
      /\ \A d \in Cont : Fresh(heap, d) => ~ h[d].sealed
      /\ \A d \in Open : ~ h[d].sealed
  <2>1. CASE immutable
    BY <1>1, <1>2, <2>1, SealHanded
  <2>2. CASE ~ immutable
    BY <1>1, <1>3, <2>2
       DEF IInv, SealedClosed, Closed, OpenUnsealed, FreshUnused
  <2> QED
    BY <2>1, <2>2
<1>6. /\ handed' \in [Cont -> Nat]
      /\ \A d \in Cont : handed'[d] > 0 => handed[d] > 0
  BY <1>2, <1>3
<1> QED
  BY <1>2, <1>4, <1>5, <1>6, AddStep

LEMMA SetMemberNameStep ==
  ASSUME IInv, NEW n \in Name, SetMemberName(n)
  PROVE  IInv'
<1>1. PICK f : f = [cont |-> Top.cont, mode |-> "MEMBER", name |-> n]
  OBVIOUS
<1>2. /\ stack # <<>> /\ stack' = Append(Popped, f)
      /\ heap' = heap /\ root' = root /\ immutable' = immutable
      /\ handed' = handed /\ got' = got
  BY <1>1 DEF SetMemberName
<1>3. f \in Frame /\ f.cont = Top.cont
  <2>1. Top.cont \in Cont /\ n # NULL
    BY <1>2, TopFacts, HeapAssumption DEF IInv, Frame
  <2> QED
    BY <1>1, <2>1 DEF Frame, Modes
<1>4. /\ stack' \in Seq(Frame) /\ DOMAIN stack' = DOMAIN stack
      /\ \A i \in DOMAIN stack : stack'[i].cont = stack[i].cont
  BY <1>2, <1>3, RelabelFacts DEF IInv
<1>5. OpenChain' /\ Open' = Open
  BY <1>2, <1>4, OpenType, ChainKept DEF IInv
<1>6. TypeOK'
  BY <1>2, <1>4 DEF IInv, TypeOK
<1>7. RootSealed'
  BY <1>2 DEF IInv, RootSealed
<1>8. OpenUnsealed' /\ HandedNotOpen' /\ SealedClosed'
  BY <1>2, <1>5 DEF IInv, OpenUnsealed, HandedNotOpen, SealedClosed
<1>9. FreshUnused'
  BY <1>2, <1>5 DEF IInv, FreshUnused
<1>10. RootAllocated'
  BY <1>2 DEF IInv, RootAllocated
<1> QED
  BY <1>5, <1>6, <1>7, <1>8, <1>9, <1>10 DEF IInv

(* Facts about the present that FlagStep asks of heap'.                    *)
LEMMA NowFacts ==
  ASSUME IInv
  PROVE  /\ heap \in Heaps /\ Closed(heap)
         /\ \A d \in Cont : Fresh(heap, d) => ~ heap[d].sealed
         /\ \A d \in Open : ~ heap[d].sealed
         /\ handed \in [Cont -> Nat] /\ got \in Cont \cup {NULL}
         /\ \A d \in Cont : handed[d] > 0 => d \notin Open /\ ~ Fresh(heap, d)
<1>1. heap \in Heaps /\ Closed(heap)
  BY DEF IInv, TypeOK, Heaps, SealedClosed, Closed
<1>2. /\ \A d \in Cont : Fresh(heap, d) => ~ heap[d].sealed
      /\ \A d \in Open : ~ heap[d].sealed
      /\ handed \in [Cont -> Nat] /\ got \in Cont \cup {NULL}
  BY DEF IInv, TypeOK, FreshUnused, OpenUnsealed
<1>3. \A d \in Cont : handed[d] > 0 => d \notin Open /\ ~ Fresh(heap, d)
  BY DEF IInv, HandedNotOpen, FreshUnused
<1> QED
  BY <1>1, <1>2, <1>3

LEMMA GetRootStep ==
  ASSUME IInv, GetRoot
  PROVE  IInv'
<1>1. /\ stack' = stack /\ root' = root /\ immutable' = immutable /\ got' = root
  BY DEF GetRoot, Return
<1>2. root \in Cont \cup {NULL}
  BY DEF IInv, TypeOK
<1>3. CASE root = NULL
  <2>1. heap' = heap /\ handed' = handed
    BY <1>3 DEF GetRoot, Return
  <2> QED
    BY <1>1, <1>2, <2>1, NowFacts, FlagStep
<1>4. CASE root \in Cont
  <2>1. /\ heap' = AddRef(heap, root)
        /\ handed' = [handed EXCEPT ![root] = @ + 1]
    BY <1>4, HeapAssumption DEF GetRoot, Return
  <2>2. /\ heap' \in Heaps
        /\ \A d \in Cont : /\ heap'[d].kind = heap[d].kind
                           /\ heap'[d].items = heap[d].items
                           /\ heap'[d].sealed = heap[d].sealed
    BY <1>4, <2>1, NowFacts, AddRefEffect
  <2>3. \A d \in Cont : Children(heap', d) = Children(heap, d)
    BY <2>2 DEF Children
  <2>4. Closed(heap')
    BY <2>2, <2>3, NowFacts DEF Closed, Children
  <2>5. root \notin Open /\ ~ Fresh(heap, root)
    <3>1. stack = <<>> /\ Open = {}
      BY <1>4, HeapAssumption DEF IInv, RootSealed, Open
    <3>2. ~ Fresh(heap, root)
      BY <1>4 DEF IInv, RootAllocated
    <3> QED
      BY <3>1, <3>2
  <2>6. /\ handed' \in [Cont -> Nat]
        /\ \A d \in Cont : handed'[d] > 0 => d \notin Open /\ ~ Fresh(heap, d)
    BY <1>4, <2>1, <2>5, NowFacts
  <2>7. \A d \in Open : ~ heap'[d].sealed
    BY <2>2, NowFacts, OpenType DEF IInv
  <2> QED
    BY <1>1, <1>2, <2>2, <2>4, <2>6, <2>7, NowFacts, FlagStep
<1> QED
  BY <1>2, <1>3, <1>4

LEMMA ClientUnrefStep ==
  ASSUME IInv, NEW c \in Cont, ClientUnref(c)
  PROVE  IInv'
<1>1. /\ heap' = Release(heap, One(c)) /\ handed[c] > 0
      /\ handed' = [handed EXCEPT ![c] = @ - 1]
      /\ stack' = stack /\ root' = root /\ immutable' = immutable /\ got' = got
  BY DEF ClientUnref
<1>2. /\ heap' \in Heaps
      /\ \A d \in Cont : /\ heap'[d].kind = heap[d].kind
                         /\ heap'[d].items = heap[d].items
                         /\ heap'[d].sealed = heap[d].sealed
  BY <1>1, NowFacts, OneType, ReleaseEffect
<1>3. \A d \in Cont : Children(heap', d) = Children(heap, d)
  BY <1>2 DEF Children
<1>4. Closed(heap')
  BY <1>2, <1>3, NowFacts DEF Closed, Children
<1>5. /\ handed' \in [Cont -> Nat]
      /\ \A d \in Cont : handed'[d] > 0 => d \notin Open /\ ~ Fresh(heap, d)
  BY <1>1, NowFacts
<1>6. \A d \in Open : ~ heap'[d].sealed
  BY <1>2, NowFacts, OpenType DEF IInv
<1> QED
  BY <1>1, <1>2, <1>4, <1>5, <1>6, NowFacts, FlagStep

LEMMA ClientSealStep ==
  ASSUME IInv, NEW c \in Cont, ClientSeal(c)
  PROVE  IInv'
<1>1. /\ heap' = Seal(heap, c) /\ handed[c] > 0
      /\ stack' = stack /\ root' = root /\ immutable' = immutable
      /\ handed' = handed /\ got' = got
  BY DEF ClientSeal
<1> QED
  BY <1>1, SealHanded, NowFacts, FlagStep

LEMMA ResetDropType ==
  ASSUME TypeOK
  PROVE  [c \in Cont |-> Cardinality({i \in DOMAIN stack : stack[i].cont = c})
                         + IF root = c THEN 1 ELSE 0] \in [Cont -> Nat]
<1>1. DOMAIN stack = 1 .. Len(stack) /\ Len(stack) \in Nat
  BY LenProperties DEF TypeOK
<1>2. IsFiniteSet(DOMAIN stack)
  BY <1>1, FS_Interval
<1>3. ASSUME NEW c \in Cont
      PROVE  Cardinality({i \in DOMAIN stack : stack[i].cont = c}) \in Nat
  <2>1. IsFiniteSet({i \in DOMAIN stack : stack[i].cont = c})
    BY <1>2, FS_Subset
  <2> QED
    BY <2>1, FS_CardinalityType
<1> QED
  BY <1>3

LEMMA ResetStep ==
  ASSUME IInv, Reset
  PROVE  IInv'
<1>1. PICK drop : drop = [c \in Cont |->
                            Cardinality({i \in DOMAIN stack : stack[i].cont = c})
                            + IF root = c THEN 1 ELSE 0]
  OBVIOUS
<1>2. /\ heap' = Release(heap, drop) /\ stack' = <<>> /\ root' = NULL
      /\ immutable' = immutable /\ handed' = handed /\ got' = got
  BY <1>1 DEF Reset
<1>3. drop \in [Cont -> Nat]
  BY <1>1, ResetDropType DEF IInv
<1>4. /\ heap' \in Heaps
      /\ \A d \in Cont : /\ heap'[d].kind = heap[d].kind
                         /\ heap'[d].items = heap[d].items
                         /\ heap'[d].sealed = heap[d].sealed
  BY <1>2, <1>3, NowFacts, ReleaseEffect
<1>5. \A d \in Cont : Children(heap', d) = Children(heap, d)
  BY <1>4 DEF Children
<1>6. Open' = {} /\ DOMAIN stack' = {}
  BY <1>2 DEF Open
<1>7. TypeOK'
  <2>1. stack' \in Seq(Frame)
    BY <1>2, EmptySeq
  <2> QED
    BY <1>2, <1>4, <2>1 DEF IInv, TypeOK, Heaps
<1>8. OpenChain' /\ OpenUnsealed' /\ HandedNotOpen'
  BY <1>6 DEF OpenChain, OpenUnsealed, HandedNotOpen
<1>9. FreshUnused'
  BY <1>2, <1>4, <1>5, <1>6 DEF IInv, FreshUnused, Fresh
<1>10. RootAllocated' /\ RootSealed'
  BY <1>2, HeapAssumption DEF RootAllocated, RootSealed
<1>11. SealedClosed'
  BY <1>4, <1>5 DEF IInv, SealedClosed, Children
<1> QED
  BY <1>7, <1>8, <1>9, <1>10, <1>11 DEF IInv

LEMMA ClientNewStep ==
  ASSUME IInv, NEW c \in Cont, NEW items \in ClientItems, ClientNew(c, "array", items)
  PROVE  IInv'
<1> DEFINE held == {items[i].item : i \in DOMAIN items} \cap Cont
<1>1. PICK h : h = Alloc(heap, c, "array", 1)
  OBVIOUS
<1>2. /\ Fresh(heap, c)
      /\ heap' = [h EXCEPT ![c].items = items]
      /\ handed' = [d \in Cont |-> IF d = c THEN 1
                                   ELSE IF \E i \in DOMAIN items : items[i].item = d
                                        THEN handed[d] - 1 ELSE handed[d]]
      /\ \A i \in DOMAIN items : items[i].item \in Cont => handed[items[i].item] > 0
      /\ stack' = stack /\ root' = root /\ immutable' = immutable /\ got' = got
  BY <1>1 DEF ClientNew
<1>3. items \in Seq(Slot)
  <2>1. CASE items = <<>>
    BY <2>1, EmptySeq
  <2>2. ASSUME NEW x \in Item, items = <<[name |-> NULL, item |-> x]>>
        PROVE  items \in Seq(Slot)
    <3>1. [name |-> NULL, item |-> x] \in Slot
      BY DEF Slot
    <3> QED
      BY <2>2, <3>1
  <2> QED
    BY <2>1, <2>2 DEF ClientItems
<1>4. /\ heap[c].items = <<>> /\ c \notin Open /\ handed[c] = 0
      /\ \A d \in Cont : c \notin Children(heap, d)
  BY <1>2 DEF IInv, FreshUnused
<1>5. /\ h \in Heaps /\ h[c].kind = "array" /\ ~ h[c].sealed
      /\ \A d \in Cont : d # c => h[d] = heap[d]
  <2>1. heap \in Heaps
    BY NowFacts
  <2>2. PICK k \in {"object", "array"} : k = "array"
    OBVIOUS
  <2>3. h = Alloc(heap, c, k, 1)
    BY <1>1, <2>2
  <2>4. h[c].kind = k
    BY <2>1, <2>3, AllocEffect
  <2>5. /\ h \in Heaps /\ ~ h[c].sealed
        /\ \A d \in Cont : d # c => h[d] = heap[d]
    BY <2>1, <2>3, AllocEffect
  <2> QED
    BY <2>2, <2>4, <2>5
<1>6. /\ heap' \in Heaps
      /\ \A d \in Cont : d # c => heap'[d] = heap[d]
      /\ heap'[c].kind = "array" /\ heap'[c].items = items /\ ~ heap'[c].sealed
  BY <1>2, <1>3, <1>5 DEF Heaps, Cell
<1>7. /\ \A d \in Cont : d # c => Children(heap', d) = Children(heap, d)
      /\ Children(heap', c) = held
  BY <1>6 DEF Children
<1>8. \A d \in held : /\ d \in Cont /\ handed[d] > 0 /\ d \notin Open
                      /\ ~ Fresh(heap, d) /\ d # c
  BY <1>2, <1>4, NowFacts
<1> HIDE DEF held
<1>9. OpenChain' /\ Open' = Open
  <2>1. \A d \in Cont : Children(heap', d) \cap Open \subseteq Children(heap, d)
    BY <1>7, <1>8
  <2> QED
    BY <1>2, <2>1, OpenType, ChainKept DEF IInv
<1>10. TypeOK'
  <2>1. \A d \in Cont : (\E i \in DOMAIN items : items[i].item = d) => handed[d] > 0
    BY <1>2
  <2>2. handed' \in [Cont -> Nat]
    BY <1>2, <2>1, NowFacts
  <2> QED
    BY <1>2, <1>6, <2>2 DEF IInv, TypeOK, Heaps
<1>11. OpenUnsealed'
  BY <1>4, <1>6, <1>9, OpenType DEF IInv, OpenUnsealed
<1>12. HandedNotOpen'
  <2>1. \A d \in Cont : handed'[d] > 0 => d = c \/ handed[d] > 0
    BY <1>2, NowFacts
  <2> QED
    BY <1>4, <1>9, <2>1 DEF IInv, HandedNotOpen
<1>13. FreshUnused'
  <2>1. SUFFICES ASSUME NEW d \in Cont, heap'[d].kind = "none"
                 PROVE  /\ heap'[d].items = <<>> /\ ~ heap'[d].sealed
                        /\ d \notin Open /\ handed'[d] = 0
                        /\ \A e \in Cont : d \notin Children(heap', e)
    BY <1>9 DEF FreshUnused, Fresh
  <2>2. d # c /\ Fresh(heap, d)
    BY <1>6, <2>1 DEF Fresh
  <2>3. /\ heap[d].items = <<>> /\ ~ heap[d].sealed /\ d \notin Open /\ handed[d] = 0
        /\ \A e \in Cont : d \notin Children(heap, e)
    BY <2>2 DEF IInv, FreshUnused
  <2>4. d \notin held
    BY <1>8, <2>2
  <2>5. handed'[d] = 0
    BY <1>2, <2>2, <2>3
  <2> QED
    BY <1>6, <1>7, <2>2, <2>3, <2>4, <2>5
<1>14. RootAllocated'
  BY <1>2, <1>6 DEF IInv, RootAllocated, Fresh
<1>15. RootSealed'
  <2>1. root # NULL => root \in Cont /\ root # c
    BY <1>2, HeapAssumption DEF IInv, TypeOK, RootAllocated
  <2> QED
    BY <1>2, <1>6, <2>1 DEF IInv, RootSealed
<1>16. SealedClosed'
  <2>1. SUFFICES ASSUME NEW d \in Cont, heap'[d].sealed,
                        NEW e \in Children(heap', d)
                 PROVE  heap'[e].sealed
    BY DEF SealedClosed
  <2>2. d # c /\ e \in Children(heap, d) /\ heap[d].sealed
    BY <1>6, <1>7, <2>1
  <2>3. heap[e].sealed /\ e # c /\ e \in Cont
    BY <1>4, <2>2 DEF IInv, SealedClosed, Children
  <2> QED
    BY <1>6, <2>3
<1> QED
  BY <1>9, <1>10, <1>11, <1>12, <1>13, <1>14, <1>15, <1>16 DEF IInv

-----------------------------------------------------------------------------

LEMMA InitInv == Init => IInv
<1> SUFFICES ASSUME Init PROVE IInv
  OBVIOUS
<1>1. /\ stack = <<>> /\ root = NULL /\ Open = {} /\ DOMAIN stack = {}
      /\ \A c \in Cont : /\ heap[c].items = <<>> /\ ~ heap[c].sealed
                         /\ handed[c] = 0
  BY DEF Init, NewHeap, Open
<1>2. \A c \in Cont : Children(heap, c) = {}
  BY <1>1 DEF Children
<1>3. TypeOK
  <2>1. <<>> \in Seq(Slot) /\ <<>> \in Seq(Frame)
    BY EmptySeq
  <2>2. heap \in [Cont -> Cell]
    BY <2>1 DEF Init, NewHeap, Cell
  <2> QED
    BY <1>1, <2>1, <2>2 DEF TypeOK, Init
<1>4. OpenChain /\ OpenUnsealed /\ HandedNotOpen
  BY <1>1, <1>2 DEF OpenChain, OpenUnsealed, HandedNotOpen
<1>5. FreshUnused /\ RootAllocated /\ RootSealed /\ SealedClosed
  BY <1>1, <1>2, HeapAssumption DEF FreshUnused, RootAllocated, RootSealed, SealedClosed
<1> QED
  BY <1>3, <1>4, <1>5 DEF IInv

LEMMA NextInv == IInv /\ [Next]_vars => IInv'
<1> SUFFICES ASSUME IInv, [Next]_vars PROVE IInv'
  OBVIOUS
<1>1. CASE UNCHANGED vars
  <2>1. /\ heap' = heap /\ stack' = stack /\ root' = root
        /\ immutable' = immutable /\ handed' = handed /\ got' = got
    BY <1>1 DEF vars
  <2> QED
    BY <2>1, NowFacts, FlagStep
<1>2. ASSUME NEW c \in Cont, BeginObject(c) \/ BeginArray(c) PROVE IInv'
  <2>1. PICK k \in {"object", "array"} : Begin(k, c)
    BY <1>2 DEF BeginObject, BeginArray
  <2> QED
    BY <2>1, BeginFirst, BeginNested
<1>3. ASSUME NEW c \in Cont, AddValue(c) PROVE IInv'
  BY <1>3, AddValueStep
<1>4. ASSUME NEW c \in Cont, ClientUnref(c) PROVE IInv'
  BY <1>4, ClientUnrefStep
<1>5. ASSUME NEW c \in Cont, ClientSeal(c) PROVE IInv'
  BY <1>5, ClientSealStep
<1>6. ASSUME NEW c \in Cont, NEW items \in ClientItems, ClientNew(c, "array", items)
      PROVE  IInv'
  BY <1>6, ClientNewStep
<1>7. CASE EndObject \/ EndArray
  BY <1>7, EndStep DEF EndObject, EndArray
<1>8. CASE GetRoot
  BY <1>8, GetRootStep
<1>9. CASE Reset
  BY <1>9, ResetStep
<1>10. ASSUME NEW n \in Name, SetMemberName(n) PROVE IInv'
  BY <1>10, SetMemberNameStep
<1>11. ASSUME NEW s \in Scalar, AddScalar(s) PROVE IInv'
  BY <1>11, AddScalarStep
<1> QED
  BY <1>1, <1>2, <1>3, <1>4, <1>5, <1>6, <1>7, <1>8, <1>9, <1>10, <1>11 DEF Next

THEOREM Inductive == Spec => []IInv
  BY InitInv, NextInv, PTL DEF Spec

(* Every reachable state has its types, in particular no reference count   *)
(* ever falls below zero, whatever the sets and bounds.                    *)
THEOREM TypeCorrect == Spec => []TypeOK
<1>1. IInv => TypeOK
  BY DEF IInv
<1> QED
  BY <1>1, Inductive, PTL

(* A sealed container holds sealed containers only.                        *)
THEOREM SealedIsClosed == Spec => []SealedClosed
<1>1. IInv => SealedClosed
  BY DEF IInv
<1> QED
  BY <1>1, Inductive, PTL

(* The tree of an immutable builder is immutable all the way down.         *)
THEOREM RootIsImmutable == Spec => []SealedTree
<1>1. ASSUME IInv, immutable, root # NULL, NEW c \in Reach(heap, root)
      PROVE  heap[c].sealed
  <2> DEFINE T == {d \in Cont : heap[d].sealed}
  <2>1. root \in Cont /\ heap[root].sealed
    BY <1>1 DEF IInv, TypeOK, RootSealed
  <2>2. \A x \in T : Children(heap, x) \subseteq T
    BY <1>1 DEF IInv, SealedClosed, Children
  <2>3. heap \in Heaps /\ T \in SUBSET Cont /\ root \in T
    BY <1>1, <2>1, NowFacts
  <2> HIDE DEF T
  <2>4. Reach(heap, root) \subseteq T
    BY <2>1, <2>2, <2>3, ReachLeast
  <2> QED
    BY <1>1, <2>4 DEF T
<1>2. IInv => SealedTree
  BY <1>1 DEF SealedTree
<1> QED
  BY <1>2, Inductive, PTL

(* The client cannot reach a container that is still being filled.         *)
THEOREM OpenIsPrivate == Spec => []OpenPrivate
<1>1. ASSUME IInv, NEW c \in Cont, handed[c] > 0
      PROVE  Reach(heap, c) \cap Open = {}
  <2> DEFINE T == Cont \ Open
  <2>1. \A x \in T : Children(heap, x) \subseteq T
    BY <1>1 DEF IInv, OpenChain, Children
  <2>2. heap \in Heaps /\ T \in SUBSET Cont /\ c \in T
    BY <1>1, NowFacts
  <2> HIDE DEF T
  <2>3. Reach(heap, c) \subseteq T
    BY <2>1, <2>2, ReachLeast
  <2> QED
    BY <2>3 DEF T
<1>2. IInv => OpenPrivate
  BY <1>1 DEF OpenPrivate, IInv, RootSealed
<1> QED
  BY <1>2, Inductive, PTL

-----------------------------------------------------------------------------

(* A heap g in which everything sealed in the current heap is still sealed *)
(* and has kept its items.                                                 *)
Keeps(g) ==
  \A c \in Cont : heap[c].sealed => g[c].sealed /\ g[c].items = heap[c].items

(* Attaching a value keeps the sealed containers, because the innermost    *)
(* container is not sealed.                                                *)
LEMMA AttachKeeps ==
  ASSUME IInv, stack # <<>>, NEW h \in Heaps, NEW x \in Item, Keeps(h)
  PROVE  Keeps(Attached(h, x))
<1>1. PICK t : t = Top.cont
  OBVIOUS
<1>2. PICK n : n = Top.name
  OBVIOUS
<1>3. PICK g : g = Store(h, t, n, x)
  OBVIOUS
<1>4. g = Attached(h, x)
  BY <1>1, <1>2, <1>3 DEF Attached
<1>5. t \in Cont /\ t \in Open /\ n \in Name \cup {NULL}
  BY <1>1, <1>2, TopFacts DEF IInv, Frame
<1>6. \A d \in Cont : /\ g[d].sealed = h[d].sealed
                      /\ d # t => g[d].items = h[d].items
  BY <1>3, <1>5, StoreEffect
<1>7. ~ heap[t].sealed
  BY <1>5 DEF IInv, OpenUnsealed
<1> QED
  BY <1>4, <1>6, <1>7 DEF Keeps

LEMMA AllocKeeps ==
  ASSUME IInv, NEW c \in Cont, Fresh(heap, c), NEW k \in {"object", "array"}, NEW n \in Nat
  PROVE  Keeps(Alloc(heap, c, k, n))
<1>1. PICK h : h = Alloc(heap, c, k, n)
  OBVIOUS
<1>0. heap \in Heaps
  BY NowFacts
<1>2. \A d \in Cont : d # c => h[d] = heap[d]
  BY <1>0, <1>1 DEF Alloc, Heaps
<1>3. ~ heap[c].sealed
  BY DEF IInv, FreshUnused
<1> QED
  BY <1>1, <1>2, <1>3 DEF Keeps

LEMMA ReleaseKeeps ==
  ASSUME NEW h \in Heaps, NEW drop \in [Cont -> Nat], Keeps(h)
  PROVE  Keeps(Release(h, drop))
BY ReleaseEffect DEF Keeps

LEMMA SealKeeps ==
  ASSUME IInv, NEW c \in Cont
  PROVE  Keeps(Seal(heap, c)) /\ Seal(heap, c) \in Heaps
BY NowFacts, SealEffect DEF Keeps

LEMMA FrozenStep == IInv /\ [Next]_vars => Keeps(heap')
<1> SUFFICES ASSUME IInv, [Next]_vars PROVE Keeps(heap')
  OBVIOUS
<1>1. heap \in Heaps /\ Keeps(heap)
  BY NowFacts DEF Keeps
<1>2. CASE heap' = heap
  BY <1>1, <1>2
<1>3. ASSUME NEW k \in {"object", "array"}, NEW c \in Cont, Begin(k, c)
      PROVE  Keeps(heap')
  <2>1. Fresh(heap, c)
    BY <1>3 DEF Begin
  <2>2. CASE stack = <<>>
    BY <1>3, <2>1, <2>2, AllocKeeps DEF Begin
  <2>3. CASE stack # <<>>
    <3>1. PICK h : h = Alloc(heap, c, k, 2)
      OBVIOUS
    <3>2. h \in Heaps
      BY <1>1, <3>1, AllocEffect
    <3>3. Keeps(h)
      BY <2>1, <3>1, AllocKeeps
    <3>4. heap' = Attached(h, c) /\ c \in Item
      BY <1>3, <2>3, <3>1 DEF Begin, Item
    <3> QED
      BY <2>3, <3>2, <3>3, <3>4, AttachKeeps
  <2> QED
    BY <2>2, <2>3
<1>4. ASSUME NEW mode, End(mode) PROVE Keeps(heap')
  <2>1. PICK c : c = Top.cont
    OBVIOUS
  <2>2. c \in Cont
    BY <1>4, <2>1, TopFacts DEF End, IInv
  <2>3. PICK h : h = IF immutable THEN Seal(heap, c) ELSE heap
    OBVIOUS
  <2>4. PICK g : g = IF Len(stack) = 1 THEN AddRef(h, c) ELSE h
    OBVIOUS
  <2>5. heap' = Release(g, One(c))
    BY <1>4, <2>1, <2>3, <2>4 DEF End, Ended, SealIfImmutable
  <2>6. h \in Heaps /\ Keeps(h)
    BY <1>1, <2>2, <2>3, SealKeeps
  <2>7. g \in Heaps /\ Keeps(g)
    BY <2>2, <2>4, <2>6, AddRefEffect DEF Keeps
  <2> QED
    BY <2>2, <2>5, <2>7, OneType, ReleaseKeeps
<1>5. ASSUME NEW s \in Scalar, AddScalar(s) PROVE Keeps(heap')
  BY <1>1, <1>5, AttachKeeps DEF AddScalar, ValidAddMode, Item
<1>6. ASSUME NEW c \in Cont, AddValue(c) PROVE Keeps(heap')
  <2>1. PICK h : h = IF immutable THEN Seal(heap, c) ELSE heap
    OBVIOUS
  <2>2. h \in Heaps /\ Keeps(h)
    BY <1>1, <2>1, SealKeeps
  <2>3. heap' = Attached(h, c) /\ stack # <<>> /\ c \in Item
    BY <1>6, <2>1 DEF AddValue, ValidAddMode, SealIfImmutable, Item
  <2> QED
    BY <2>2, <2>3, AttachKeeps
<1>7. CASE GetRoot
  <2>1. CASE root = NULL
    BY <1>1, <1>7, <2>1 DEF GetRoot, Return
  <2>2. CASE root # NULL
    <3>1. root \in Cont /\ heap' = AddRef(heap, root)
      BY <1>7, <2>2 DEF GetRoot, Return, IInv, TypeOK
    <3> QED
      BY <1>1, <3>1, AddRefEffect DEF Keeps
  <2> QED
    BY <2>1, <2>2
<1>8. CASE Reset
  <2>2. PICK drop : drop = [c \in Cont |->
                             Cardinality({i \in DOMAIN stack : stack[i].cont = c})
                             + IF root = c THEN 1 ELSE 0]
    OBVIOUS
  <2>3. drop \in [Cont -> Nat]
    BY <2>2, ResetDropType DEF IInv
  <2>4. heap' = Release(heap, drop)
    BY <1>8, <2>2 DEF Reset
  <2> QED
    BY <1>1, <2>3, <2>4, ReleaseKeeps
<1>9. ASSUME NEW c \in Cont, NEW items \in ClientItems, ClientNew(c, "array", items)
      PROVE  Keeps(heap')
  <2>1. PICK h : h = Alloc(heap, c, "array", 1)
    OBVIOUS
  <2>2. Fresh(heap, c) /\ heap' = [h EXCEPT ![c].items = items]
    BY <1>9, <2>1 DEF ClientNew
  <2>3. ~ heap[c].sealed
    BY <2>2 DEF IInv, FreshUnused
  <2>4. h = [heap EXCEPT ![c] = [kind |-> "array", items |-> <<>>,
                                 refs |-> 1, sealed |-> FALSE]]
    BY <2>1 DEF Alloc
  <2>5. \A d \in Cont : d # c => heap'[d] = heap[d]
    BY <1>1, <2>2, <2>4 DEF Heaps
  <2> QED
    BY <2>3, <2>5 DEF Keeps
<1>10. ASSUME NEW c \in Cont, ClientUnref(c) PROVE Keeps(heap')
  BY <1>1, <1>10, OneType, ReleaseKeeps DEF ClientUnref
<1>11. ASSUME NEW c \in Cont, ClientSeal(c) PROVE Keeps(heap')
  BY <1>11, SealKeeps DEF ClientSeal
<1>12. CASE UNCHANGED vars
  BY <1>2, <1>12 DEF vars
<1>13. ASSUME NEW n \in Name, SetMemberName(n) PROVE Keeps(heap')
  BY <1>2, <1>13 DEF SetMemberName
<1> QED
  BY <1>3, <1>4, <1>5, <1>6, <1>7, <1>8, <1>9, <1>10, <1>11, <1>12, <1>13
     DEF Next, BeginObject, BeginArray, EndObject, EndArray

(* The builder and its client's calls never change a sealed container.     *)
THEOREM SealedNeverChanges == Spec => SealedFrozen
<1>1. IInv /\ [Next]_vars =>
        [\A c \in Cont : heap[c].sealed =>
           heap'[c].sealed /\ heap'[c].items = heap[c].items]_vars
  BY FrozenStep DEF Keeps
<1> QED
  BY <1>1, Inductive, PTL DEF Spec, SealedFrozen

-----------------------------------------------------------------------------
(* Every reference count is exact.  To StoreExact this needs that no       *)
(* object has a name twice: the node a new value displaces is then one,    *)
(* and gives up one reference.                                             *)

Entries(s, c) == Cardinality({i \in DOMAIN s : s[i].cont = c})

(* What the builder and its client hold, outside the containers.           *)
Held == [c \in Cont |-> Entries(stack, c) + Is(root, c) + handed[c]]

CInv == IInv /\ Named(heap) /\ RefsExact

LEMMA ExactHeld == RefsExact <=> Exact(heap, Held)
<1>1. \A c \in Cont : Held[c] = Cardinality({i \in DOMAIN stack : stack[i].cont = c})
                                + (IF root = c THEN 1 ELSE 0) + handed[c]
  BY DEF Held, Entries, Is
<1> QED BY <1>1 DEF RefsExact, Exact

LEMMA EntriesType ==
  ASSUME NEW s \in Seq(Frame), NEW c
  PROVE  IsFiniteSet({i \in DOMAIN s : s[i].cont = c}) /\ Entries(s, c) \in Nat
<1>1. DOMAIN s = 1 .. Len(s) /\ Len(s) \in Nat
  BY LenProperties
<1>2. IsFiniteSet(DOMAIN s)
  BY <1>1, FS_Interval
<1>3. IsFiniteSet({i \in DOMAIN s : s[i].cont = c})
  BY <1>2, FS_Subset
<1> QED BY <1>3, FS_CardinalityType DEF Entries

LEMMA EntriesPush ==
  ASSUME NEW s \in Seq(Frame), NEW f \in Frame, NEW c
  PROVE  Entries(Append(s, f), c) = Entries(s, c) + Is(f.cont, c)
<1>1. PICK t : t = Append(s, f)
  OBVIOUS
<1>2. /\ DOMAIN t = 1 .. Len(s) + 1 /\ Len(s) \in Nat /\ DOMAIN s = 1 .. Len(s)
      /\ \A i \in 1 .. Len(s) : t[i] = s[i]
      /\ t[Len(s) + 1] = f
  BY <1>1, PushFacts
<1>3. PICK A : A = {i \in DOMAIN s : s[i].cont = c}
  OBVIOUS
<1>4. PICK B : B = {i \in DOMAIN t : t[i].cont = c}
  OBVIOUS
<1>5. IsFiniteSet(A) /\ Cardinality(A) \in Nat
  BY <1>3, EntriesType, FS_CardinalityType
<1>6. CASE f.cont = c
  <2>1. B = A \cup {Len(s) + 1} /\ Len(s) + 1 \notin A
    BY <1>2, <1>3, <1>4, <1>6
  <2>2. Cardinality(B) = Cardinality(A) + 1
    BY <1>5, <2>1, FS_AddElement
  <2> QED BY <1>1, <1>3, <1>4, <1>6, <2>2 DEF Entries, Is
<1>7. CASE f.cont # c
  <2>1. B = A
    BY <1>2, <1>3, <1>4, <1>7
  <2>2. Entries(t, c) = Entries(s, c) /\ Entries(s, c) \in Nat
    BY <1>3, <1>4, <1>5, <2>1 DEF Entries
  <2>3. Is(f.cont, c) = 0
    BY <1>7 DEF Is
  <2> QED BY <1>1, <2>2, <2>3
<1> QED BY <1>6, <1>7

LEMMA EntriesSame ==
  ASSUME NEW s, NEW t, DOMAIN t = DOMAIN s, \A i \in DOMAIN s : t[i].cont = s[i].cont, NEW c
  PROVE  Entries(t, c) = Entries(s, c)
<1>1. {i \in DOMAIN t : t[i].cont = c} = {i \in DOMAIN s : s[i].cont = c}
  OBVIOUS
<1> QED BY <1>1 DEF Entries

LEMMA EntriesEmpty == \A c : Entries(<<>>, c) = 0
<1>1. \A c : {i \in DOMAIN <<>> : (<<>>)[i].cont = c} = {}
  OBVIOUS
<1> QED BY <1>1, FS_EmptySet DEF Entries

LEMMA EntriesPop ==
  ASSUME TypeOK, stack # <<>>, NEW c
  PROVE  Entries(stack, c) = Entries(Popped, c) + Is(Top.cont, c)
<1>1. /\ Len(stack) \in Nat /\ Len(stack) > 0 /\ DOMAIN stack = 1 .. Len(stack)
      /\ Top = stack[Len(stack)] /\ Top \in Frame /\ Popped \in Seq(Frame)
      /\ Len(Popped) = Len(stack) - 1
      /\ \A i \in 1 .. Len(stack) - 1 : Popped[i] = stack[i]
  BY TopFacts
<1>2. PICK s : s = Append(Popped, Top)
  OBVIOUS
<1>3. /\ DOMAIN s = 1 .. Len(Popped) + 1
      /\ \A i \in 1 .. Len(Popped) : s[i] = Popped[i]
      /\ s[Len(Popped) + 1] = Top
  BY <1>1, <1>2, PushFacts
<1>4. DOMAIN s = DOMAIN stack
  BY <1>1, <1>3
<1>5. ASSUME NEW i \in DOMAIN stack PROVE s[i].cont = stack[i].cont
  <2>1. CASE i = Len(stack)
    BY <1>1, <1>3, <2>1
  <2>2. CASE i < Len(stack)
    <3>1. i \in 1 .. Len(Popped)
      BY <1>1, <2>2
    <3> QED BY <1>1, <1>3, <3>1
  <2> QED BY <1>1, <2>1, <2>2
<1>6. Entries(s, c) = Entries(stack, c)
  BY <1>4, <1>5, EntriesSame
<1> QED BY <1>1, <1>2, <1>6, EntriesPush

(* Something in the stack is open, and nothing else has entries there.     *)
LEMMA EntriesOpen ==
  ASSUME TypeOK, NEW c, c \notin Open
  PROVE  Entries(stack, c) = 0
<1>1. {i \in DOMAIN stack : stack[i].cont = c} = {}
  BY DEF Open
<1> QED BY <1>1, FS_EmptySet DEF Entries

LEMMA IsType == \A x, c : Is(x, c) \in Nat
BY DEF Is

LEMMA HeldType ==
  ASSUME TypeOK
  PROVE  /\ Held \in [Cont -> Nat]
         /\ \A c \in Cont : /\ Held[c] = Entries(stack, c) + Is(root, c) + handed[c]
                            /\ Entries(stack, c) \in Nat /\ Is(root, c) \in Nat
                            /\ handed[c] \in Nat
<1>1. \A c \in Cont : Entries(stack, c) \in Nat
  BY EntriesType DEF TypeOK
<1>2. \A c \in Cont : Is(root, c) \in Nat
  BY IsType
<1>3. \A c \in Cont : handed[c] \in Nat
  BY DEF TypeOK
<1> QED BY <1>1, <1>2, <1>3 DEF Held

(* What is held is alive, and a container that was never allocated is not  *)
(* held.                                                                   *)
LEMMA HeldLive ==
  ASSUME CInv, NEW c \in Cont
  PROVE  /\ heap \in Heaps /\ Exact(heap, Held) /\ TypeOK
         /\ Held[c] > 0 => heap[c].refs > 0
         /\ Fresh(heap, c) => /\ heap[c].refs = 0 /\ Held[c] = 0 /\ root # c
                              /\ Entries(stack, c) = 0 /\ handed[c] = 0
<1>1. heap \in Heaps /\ Exact(heap, Held) /\ TypeOK
  BY ExactHeld DEF CInv, IInv, TypeOK, Heaps
<1>2. /\ heap[c].refs = Held[c] + Edges(heap, Live(heap), c)
      /\ Held[c] \in Nat /\ Edges(heap, Live(heap), c) \in Nat
  BY <1>1, HeldType, SlotsFinite, LiveType DEF Exact
<1>3. Held[c] > 0 => heap[c].refs > 0
  BY <1>2
<1>4. ASSUME Fresh(heap, c)
      PROVE  /\ heap[c].refs = 0 /\ Held[c] = 0 /\ root # c
             /\ Entries(stack, c) = 0 /\ handed[c] = 0
  <2>1. c \notin Open /\ handed[c] = 0 /\ \A d \in Cont : c \notin Children(heap, d)
    BY <1>4 DEF CInv, IInv, FreshUnused
  <2>2. root # c
    BY <1>4 DEF CInv, IInv, RootAllocated
  <2>3. Entries(stack, c) = 0
    BY <1>1, <2>1, EntriesOpen
  <2>4. Held[c] = 0
    BY <1>1, <2>1, <2>2, <2>3, HeldType DEF Is
  <2>5. \A d \in Live(heap) : \A i \in DOMAIN heap[d].items : heap[d].items[i].item # c
    BY <2>1, LiveType DEF Children
  <2>6. Edges(heap, Live(heap), c) = 0
    BY <2>5, LiveType, NoEdges
  <2> QED BY <1>2, <2>1, <2>2, <2>3, <2>4, <2>6
<1> QED BY <1>1, <1>3, <1>4

(* The step keeps the counts exact when it changes what is held as the     *)
(* heap's operators account for.                                           *)
LEMMA CountsFrom ==
  ASSUME IInv', Named(heap'), NEW held, Exact(heap', held),
         \A c \in Cont : held[c] = Entries(stack', c) + Is(root', c) + handed'[c]
  PROVE  CInv'
<1>1. RefsExact'
  BY DEF RefsExact, Exact, Entries, Is
<1> QED BY <1>1 DEF CInv, Named, Distinct

-----------------------------------------------------------------------------

(* What is in the innermost container's slot was held before.              *)
LEMMA AttachCounts ==
  ASSUME CInv, ValidAddMode, HasRoom, NEW h \in Heaps, NEW x \in Item,
         \A d \in Cont : h[d].items = heap[d].items, h[Top.cont].refs > 0,
         NEW held \in [Cont -> Nat], Exact(h, held), x \in Cont => held[x] > 0
  PROVE  /\ Exact(Attached(h, x), [d \in Cont |-> held[d] - Is(x, d)])
         /\ Named(Attached(h, x))
<1>1. PICK t : t = Top.cont
  OBVIOUS
<1>2. PICK n : n = Top.name
  OBVIOUS
<1>3. Attached(h, x) = Store(h, t, n, x)
  BY <1>1, <1>2 DEF Attached
<1>4. t \in Cont /\ n \in Name \cup {NULL}
  BY <1>1, <1>2, TopFacts DEF CInv, IInv, ValidAddMode, Frame
<1>5. t \in Live(h)
  BY <1>1, <1>4 DEF Live
<1>6. Named(h)
  BY SameNamed DEF CInv
<1>7. Len(h[t].items) < MaxItems /\ Distinct(h[t].items)
  BY <1>1, <1>4, <1>6 DEF HasRoom, Named
<1>8. Exact(Store(h, t, n, x), [d \in Cont |-> held[d] - Is(x, d)])
  BY <1>4, <1>5, <1>7, StoreExact
<1>9. Named(Store(h, t, n, x))
  BY <1>4, <1>6, StoreNamed
<1> QED BY <1>3, <1>8, <1>9

LEMMA TopHeld ==
  ASSUME CInv, stack # <<>>
  PROVE  /\ Top.cont \in Cont /\ Held[Top.cont] > 0 /\ heap[Top.cont].refs > 0
         /\ root = NULL
<1>1. TypeOK /\ Top.cont \in Cont
  BY TopFacts DEF CInv, IInv
<1>2. PICK c \in Cont : c = Top.cont
  BY <1>1
<1>3. Entries(stack, c) = Entries(Popped, c) + 1 /\ Entries(Popped, c) \in Nat
  BY <1>1, <1>2, EntriesPop, TopFacts, EntriesType DEF Is
<1>4. Held[c] > 0
  BY <1>1, <1>3, HeldType
<1>5. heap[c].refs > 0
  BY <1>4, HeldLive
<1>6. root = NULL
  BY DEF CInv, IInv, RootSealed
<1> QED BY <1>1, <1>2, <1>4, <1>5, <1>6

LEMMA NullIsNone == \A c \in Cont : Is(NULL, c) = 0
BY HeapAssumption DEF Is

(* A new container with n references, which what holds it has.             *)
Allocated(g, rest, c, k, n) ==
  /\ Fresh(heap, c) /\ k \in {"object", "array"} /\ n \in Nat \ {0}
  /\ g = Alloc(heap, c, k, n) /\ rest = [Held EXCEPT ![c] = n]

LEMMA AllocCounts ==
  ASSUME CInv, NEW c \in Cont, NEW k, NEW n, NEW g, NEW rest, Allocated(g, rest, c, k, n)
  PROVE  /\ g \in Heaps /\ Exact(g, rest)
         /\ \A d \in Cont : g[d].items = heap[d].items
         /\ \A d \in Cont : d # c => g[d] = heap[d]
<1>1. /\ Fresh(heap, c) /\ k \in {"object", "array"} /\ n \in Nat \ {0} /\ n \in Nat
      /\ g = Alloc(heap, c, k, n) /\ rest = [Held EXCEPT ![c] = n]
  BY DEF Allocated
<1>3. heap \in Heaps /\ Exact(heap, Held) /\ heap[c].refs = 0
  BY <1>1, HeldLive
<1>4. Held \in [Cont -> Nat] /\ rest \in [Cont -> Nat]
  BY <1>1, HeldType DEF CInv, IInv
<1>5. /\ g \in Heaps /\ g[c].items = <<>> /\ g[c].refs = n
      /\ \A d \in Cont : d # c => g[d] = heap[d]
  BY <1>1, <1>3, AllocEffect DEF Alloc, Heaps
<1>6. \A d \in Cont : Edges(g, {c}, d) = 0
  BY <1>5, NoEdges
<1>7. ASSUME NEW d \in Cont \ {c} PROVE g[d] = heap[d] /\ rest[d] + Edges(g, {c}, d) = Held[d]
  <2>1. g[d] = heap[d] /\ Edges(g, {c}, d) = 0
    BY <1>5, <1>6
  <2>2. rest[d] = Held[d] /\ Held[d] \in Nat
    BY <1>1, <1>4
  <2> QED BY <2>1, <2>2
<1>8. rest[c] + Edges(g, {c}, c) = g[c].refs
  <2>1. g[c].refs = n /\ Edges(g, {c}, c) = 0
    BY <1>5, <1>6
  <2>2. rest[c] = n /\ n \in Nat
    BY <1>1, <1>4
  <2> QED BY <2>1, <2>2
<1>9. Exact(g, rest)
  <2>1. heap[c].refs = 0 /\ g[c].refs \in Nat \ {0}
    BY <1>1, <1>3, <1>5
  <2>2. NewCell(g, heap, Held, rest, c)
    BY <1>7, <1>8, <2>1 DEF NewCell
  <2> QED BY <1>3, <1>4, <2>2, CellExact
<1>10. heap[c].items = <<>>
  BY <1>1 DEF CInv, IInv, FreshUnused
<1> QED BY <1>5, <1>9, <1>10

LEMMA BeginFirstCounts ==
  ASSUME CInv, IInv', NEW k \in {"object", "array"}, NEW c \in Cont, Begin(k, c), stack = <<>>
  PROVE  CInv'
<1>1. PICK f : f = [cont |-> c, mode |-> IF k = "object" THEN "OBJECT" ELSE "ARRAY",
                    name |-> NULL]
  OBVIOUS
<1>2. /\ Fresh(heap, c) /\ heap' = Alloc(heap, c, k, 1) /\ stack' = <<f>>
      /\ root' = root /\ handed' = handed
  BY <1>1 DEF Begin
<1>3. PICK held : held = [Held EXCEPT ![c] = 1]
  OBVIOUS
<1>0. PICK g : g = Alloc(heap, c, k, 1)
  OBVIOUS
<1>9. Exact(g, held) /\ \A d \in Cont : g[d].items = heap[d].items
  <2>1. Allocated(g, held, c, k, 1)
    BY <1>0, <1>2, <1>3 DEF Allocated
  <2> QED BY <2>1, AllocCounts
<1>4. Exact(heap', held)
  BY <1>0, <1>2, <1>9
<1>5. Named(heap')
  BY <1>0, <1>2, <1>9, SameNamed DEF CInv
<1>6. f \in Frame /\ f.cont = c
  BY <1>1 DEF Frame, Modes
<1>7. \A d \in Cont : Entries(stack', d) = Is(c, d) /\ Entries(stack, d) = 0
  <2>1. PICK e \in Seq(Frame) : e = stack
    BY DEF CInv, IInv, TypeOK
  <2>2. stack' = Append(e, f)
    BY <1>2, <2>1
  <2>3. \A d \in Cont : Entries(e, d) = 0
    BY <2>1, EntriesEmpty
  <2>4. \A d \in Cont : Entries(stack', d) = Entries(e, d) + Is(c, d)
    BY <1>6, <2>2, EntriesPush
  <2> QED BY <2>1, <2>3, <2>4, IsType
<1>8. ASSUME NEW d \in Cont PROVE held[d] = Entries(stack', d) + Is(root', d) + handed'[d]
  <2>1. Held \in [Cont -> Nat] /\ Held[d] = Entries(stack, d) + Is(root, d) + handed[d]
        /\ Is(root, d) \in Nat /\ handed[d] \in Nat
    BY HeldType DEF CInv, IInv
  <2>2. CASE d = c
    <3>1. Is(root, c) = 0 /\ handed[c] = 0
      BY <1>2, HeldLive DEF Is
    <3>2. held[c] = 1
      BY <1>3, <2>1
    <3> QED BY <1>2, <1>7, <2>2, <3>1, <3>2 DEF Is
  <2>3. CASE d # c
    <3>1. held[d] = Held[d] /\ Is(c, d) = 0
      BY <1>3, <2>1, <2>3 DEF Is
    <3> QED BY <1>2, <1>7, <2>1, <3>1
  <2> QED BY <2>2, <2>3
<1> QED BY <1>4, <1>5, <1>8, CountsFrom

LEMMA BeginNestedCounts ==
  ASSUME CInv, IInv', NEW k \in {"object", "array"}, NEW c \in Cont, Begin(k, c), stack # <<>>
  PROVE  CInv'
<1>1. PICK f : f = [cont |-> c, mode |-> IF k = "object" THEN "OBJECT" ELSE "ARRAY",
                    name |-> NULL]
  OBVIOUS
<1>2. PICK g : g = Alloc(heap, c, k, 2)
  OBVIOUS
<1>3. /\ Fresh(heap, c) /\ heap' = Attached(g, c) /\ stack' = Append(AfterAdd, f)
      /\ root' = root /\ handed' = handed /\ ValidAddMode /\ HasRoom
  BY <1>1, <1>2 DEF Begin
<1>4. PICK more : more = [Held EXCEPT ![c] = 2]
  OBVIOUS
<1>5. PICK held : held = [d \in Cont |-> more[d] - Is(c, d)]
  OBVIOUS
<1>6. Held \in [Cont -> Nat] /\ more \in [Cont -> Nat]
  BY <1>4, HeldType DEF CInv, IInv
<1>7. /\ g \in Heaps /\ Exact(g, more)
      /\ \A d \in Cont : g[d].items = heap[d].items
      /\ \A d \in Cont : d # c => g[d] = heap[d]
  <2>1. Allocated(g, more, c, k, 2)
    BY <1>2, <1>3, <1>4 DEF Allocated
  <2> QED BY <2>1, AllocCounts
<1>8. PICK t \in Cont : t = Top.cont /\ heap[t].refs > 0
  BY TopHeld
<1>9. t # c
  BY <1>3, <1>8, HeldLive
<1>10. g[Top.cont].refs > 0
  BY <1>7, <1>8, <1>9
<1>11. c \in Item /\ more[c] > 0
  BY <1>4, <1>6 DEF Item
<1>12. Exact(heap', held) /\ Named(heap')
  BY <1>3, <1>5, <1>6, <1>7, <1>10, <1>11, AttachCounts
<1>13. f \in Frame /\ f.cont = c
  BY <1>1 DEF Frame, Modes
<1>14. \A d \in Cont : Entries(stack', d) = Entries(stack, d) + Is(c, d)
  <2>1. /\ AfterAdd \in Seq(Frame) /\ DOMAIN AfterAdd = DOMAIN stack
        /\ \A i \in DOMAIN stack : AfterAdd[i].cont = stack[i].cont
    BY AfterAddFacts DEF CInv, IInv
  <2>2. \A d \in Cont : Entries(AfterAdd, d) = Entries(stack, d)
    BY <2>1, EntriesSame
  <2> QED BY <1>3, <1>13, <2>1, <2>2, EntriesPush
<1>15. ASSUME NEW d \in Cont PROVE held[d] = Entries(stack', d) + Is(root', d) + handed'[d]
  <2>1. Held[d] = Entries(stack, d) + Is(root, d) + handed[d]
        /\ Entries(stack, d) \in Nat /\ Is(root, d) \in Nat /\ handed[d] \in Nat
    BY HeldType DEF CInv, IInv
  <2>2. CASE d = c
    <3>1. Entries(stack, c) = 0 /\ Is(root, c) = 0 /\ handed[c] = 0
      BY <1>3, HeldLive DEF Is
    <3>2. held[c] = 1 /\ Is(c, c) = 1
      BY <1>4, <1>5, <1>6 DEF Is
    <3>3. Entries(stack', c) = 1
      BY <1>14, <3>1, <3>2
    <3> QED BY <1>3, <2>2, <3>1, <3>2, <3>3
  <2>3. CASE d # c
    <3>1. Is(c, d) = 0 /\ more[d] = Held[d]
      BY <1>4, <1>6, <2>3 DEF Is
    <3>2. held[d] = Held[d]
      BY <1>5, <1>6, <3>1
    <3>3. Entries(stack', d) = Entries(stack, d)
      BY <1>14, <2>1, <3>1
    <3> QED BY <1>3, <2>1, <3>2, <3>3
  <2> QED BY <2>2, <2>3
<1> QED BY <1>12, <1>15, CountsFrom

LEMMA EndCounts ==
  ASSUME CInv, IInv', NEW mode, End(mode)
  PROVE  CInv'
<1>1. PICK c \in Cont : c = Top.cont /\ heap[c].refs > 0 /\ Held[c] > 0 /\ root = NULL
  BY TopHeld DEF End
<1>2. PICK h : h = IF immutable THEN Seal(heap, c) ELSE heap
  OBVIOUS
<1>3. PICK last \in BOOLEAN : last <=> Len(stack) = 1
  OBVIOUS
<1>4. PICK g : g = IF last THEN AddRef(h, c) ELSE h
  OBVIOUS
<1>5. /\ heap' = Release(g, One(c)) /\ stack' = Popped /\ stack # <<>>
      /\ root' = (IF last THEN c ELSE NULL) /\ handed' = handed
  BY <1>1, <1>2, <1>3, <1>4 DEF End, Ended, SealIfImmutable
<1>6. heap \in Heaps /\ Exact(heap, Held) /\ Named(heap) /\ Held \in [Cont -> Nat]
  BY HeldLive, HeldType DEF CInv, IInv
<1>7. /\ h \in Heaps /\ Exact(h, Held) /\ h[c].refs > 0
      /\ \A d \in Cont : h[d].items = heap[d].items
  BY <1>1, <1>2, <1>6, SealEffect, SealExact
<1>8. PICK more : more = IF last THEN [Held EXCEPT ![c] = @ + 1] ELSE Held
  OBVIOUS
<1>9. /\ g \in Heaps /\ Exact(g, more) /\ more \in [Cont -> Nat]
      /\ \A d \in Cont : g[d].items = heap[d].items
  <2>1. CASE last
    <3>1. more = [Held EXCEPT ![c] = @ + 1] /\ g = AddRef(h, c)
      BY <1>4, <1>8, <2>1
    <3>2. Exact(g, more)
      BY <1>6, <1>7, <3>1, AddRefExact
    <3>3. g \in Heaps /\ \A d \in Cont : g[d].items = h[d].items
      BY <1>7, <3>1, AddRefEffect
    <3> QED BY <1>6, <1>7, <3>1, <3>2, <3>3
  <2>2. CASE ~ last
    BY <1>4, <1>6, <1>7, <1>8, <2>2
  <2> QED BY <2>1, <2>2
<1>10. One(c) \in [Cont -> Nat] /\ \A d \in Cont : One(c)[d] = Is(c, d)
  BY OneType DEF One, NoDrop, Is
<1>11. \A d \in Cont : /\ more[d] = Held[d] + (IF last THEN Is(c, d) ELSE 0)
                       /\ Held[d] \in Nat /\ Is(c, d) \in Nat /\ more[d] \in Nat
  BY <1>6, <1>8 DEF Is
<1>12. \A d \in Cont : One(c)[d] <= more[d]
  <2>1. \A d \in Cont : Is(c, d) <= Held[d]
    BY <1>1, <1>6 DEF Is
  <2> QED BY <1>10, <1>11, <2>1
<1>13. PICK held : held = Less(more, One(c))
  OBVIOUS
<1>14. Exact(heap', held)
  BY <1>5, <1>9, <1>10, <1>12, <1>13, ReleaseExact
<1>15. Named(heap')
  BY <1>5, <1>6, <1>9, <1>10, ReleaseEffect, SameNamed
<1>16. ASSUME NEW d \in Cont PROVE held[d] = Entries(stack', d) + Is(root', d) + handed'[d]
  <2>1. /\ Held[d] = Entries(stack, d) + Is(root, d) + handed[d]
        /\ handed[d] \in Nat
    BY HeldType DEF CInv, IInv
  <2>2. Is(root, d) = 0
    BY <1>1, NullIsNone
  <2>3. Entries(stack, d) = Entries(Popped, d) + Is(c, d) /\ Entries(Popped, d) \in Nat
    BY <1>1, <1>5, EntriesPop, TopFacts, EntriesType DEF CInv, IInv
  <2>4. Is(root', d) = IF last THEN Is(c, d) ELSE 0
    BY <1>5, NullIsNone
  <2>5. held[d] = more[d] - Is(c, d)
    BY <1>10, <1>13 DEF Less
  <2>6. CASE last
    BY <1>5, <1>11, <2>1, <2>2, <2>3, <2>4, <2>5, <2>6
  <2>7. CASE ~ last
    BY <1>5, <1>11, <2>1, <2>2, <2>3, <2>4, <2>5, <2>7
  <2> QED BY <2>6, <2>7
<1> QED BY <1>14, <1>15, <1>16, CountsFrom

(* The mode of the innermost container changes, and nothing else.          *)
LEMMA RelabelCounts ==
  ASSUME CInv, IInv', heap' = heap, root' = root, handed' = handed,
         DOMAIN stack' = DOMAIN stack, \A i \in DOMAIN stack : stack'[i].cont = stack[i].cont
  PROVE  CInv'
<1>1. Exact(heap', Held) /\ Named(heap')
  BY ExactHeld DEF CInv
<1>2. \A c \in Cont : Entries(stack', c) = Entries(stack, c)
  BY EntriesSame
<1>3. \A c \in Cont : Held[c] = Entries(stack', c) + Is(root', c) + handed'[c]
  BY <1>2, HeldType DEF CInv, IInv
<1> QED BY <1>1, <1>3, CountsFrom

LEMMA SetMemberNameCounts ==
  ASSUME CInv, IInv', NEW n \in Name, SetMemberName(n)
  PROVE  CInv'
<1>1. PICK f : f = [cont |-> Top.cont, mode |-> "MEMBER", name |-> n]
  OBVIOUS
<1>2. /\ stack' = Append(Popped, f) /\ stack # <<>>
      /\ heap' = heap /\ root' = root /\ handed' = handed
  BY <1>1 DEF SetMemberName
<1>3. f \in Frame /\ f.cont = Top.cont
  BY <1>1, <1>2, TopFacts, HeapAssumption DEF Frame, Modes, CInv, IInv
<1>4. /\ DOMAIN stack' = DOMAIN stack
      /\ \A i \in DOMAIN stack : stack'[i].cont = stack[i].cont
  BY <1>2, <1>3, RelabelFacts DEF CInv, IInv
<1> QED BY <1>2, <1>4, RelabelCounts

(* Adding x: the references to it that were held outside are one fewer.    *)
LEMMA AddCounts ==
  ASSUME CInv, IInv', ValidAddMode, HasRoom, NEW h \in Heaps, NEW x \in Item,
         \A d \in Cont : h[d].items = heap[d].items /\ h[d].refs = heap[d].refs,
         heap' = Attached(h, x), stack' = AfterAdd, root' = root,
         x \in Cont => handed[x] > 0,
         \A d \in Cont : handed'[d] = handed[d] - Is(x, d)
  PROVE  CInv'
<1>1. Exact(h, Held) /\ Held \in [Cont -> Nat]
  BY ExactHeld, SameExact, HeldType DEF CInv, IInv
<1>2. stack # <<>>
  BY DEF ValidAddMode
<1>3. h[Top.cont].refs > 0
  BY <1>2, TopHeld
<1>4. ASSUME x \in Cont PROVE Held[x] > 0
  <2>1. /\ Held[x] = Entries(stack, x) + Is(root, x) + handed[x]
        /\ Entries(stack, x) \in Nat /\ Is(root, x) \in Nat /\ handed[x] \in Nat
    BY <1>4, HeldType DEF CInv, IInv
  <2>2. handed[x] > 0
    BY <1>4
  <2> QED BY <2>1, <2>2
<1>5. PICK held : held = [d \in Cont |-> Held[d] - Is(x, d)]
  OBVIOUS
<1>6. Exact(heap', held) /\ Named(heap')
  BY <1>1, <1>3, <1>4, <1>5, AttachCounts
<1>7. \A d \in Cont : Entries(stack', d) = Entries(stack, d)
  BY <1>2, AfterAddFacts, EntriesSame DEF CInv, IInv
<1>8. ASSUME NEW d \in Cont PROVE held[d] = Entries(stack', d) + Is(root', d) + handed'[d]
  <2>1. /\ Held[d] = Entries(stack, d) + Is(root, d) + handed[d]
        /\ Entries(stack, d) \in Nat /\ Is(root, d) \in Nat /\ handed[d] \in Nat
    BY HeldType DEF CInv, IInv
  <2>2. held[d] = Held[d] - Is(x, d) /\ handed'[d] = handed[d] - Is(x, d) /\ Is(x, d) \in Nat
    BY <1>5, IsType
  <2>3. Entries(stack', d) = Entries(stack, d) /\ Is(root', d) = Is(root, d)
    BY <1>7
  <2> QED BY <2>1, <2>2, <2>3
<1> QED BY <1>6, <1>8, CountsFrom

LEMMA AddScalarCounts ==
  ASSUME CInv, IInv', NEW s \in Scalar, AddScalar(s)
  PROVE  CInv'
<1>1. /\ ValidAddMode /\ HasRoom /\ heap' = Attached(heap, s) /\ stack' = AfterAdd
      /\ root' = root /\ handed' = handed
  BY DEF AddScalar
<1>2. s \in Item /\ s \notin Cont /\ heap \in Heaps
  BY HeapAssumption, NowFacts DEF Item, CInv
<1>3. ASSUME NEW d \in Cont PROVE handed'[d] = handed[d] - Is(s, d)
  <2>1. Is(s, d) = 0 /\ handed[d] \in Nat
    BY <1>2, HeldType DEF Is, CInv, IInv
  <2> QED BY <1>1, <2>1
<1> QED BY <1>1, <1>2, <1>3, AddCounts

LEMMA AddValueCounts ==
  ASSUME CInv, IInv', NEW c \in Cont, AddValue(c)
  PROVE  CInv'
<1>1. PICK h : h = IF immutable THEN Seal(heap, c) ELSE heap
  OBVIOUS
<1>2. /\ ValidAddMode /\ HasRoom /\ heap' = Attached(h, c) /\ stack' = AfterAdd
      /\ root' = root /\ handed' = [handed EXCEPT ![c] = @ - 1] /\ handed[c] > 0
  BY <1>1 DEF AddValue, SealIfImmutable
<1>3. c \in Item /\ heap \in Heaps
  BY NowFacts DEF Item, CInv
<1>4. /\ h \in Heaps
      /\ \A d \in Cont : h[d].items = heap[d].items /\ h[d].refs = heap[d].refs
  BY <1>1, <1>3, SealEffect
<1>5. ASSUME NEW d \in Cont PROVE handed'[d] = handed[d] - Is(c, d)
  <2>1. handed[d] \in Nat /\ handed'[d] = IF d = c THEN handed[d] - 1 ELSE handed[d]
    BY <1>2 DEF CInv, IInv, TypeOK
  <2> QED BY <2>1 DEF Is
<1> QED BY <1>2, <1>3, <1>4, <1>5, AddCounts

LEMMA GetRootCounts ==
  ASSUME CInv, IInv', GetRoot
  PROVE  CInv'
<1>1. CASE root = NULL
  <2>1. heap' = heap /\ handed' = handed /\ stack' = stack /\ root' = root
    BY <1>1 DEF GetRoot, Return
  <2> QED BY <2>1, RelabelCounts
<1>2. CASE root # NULL
  <2>1. PICK r \in Cont : r = root
    BY <1>2 DEF CInv, IInv, TypeOK
  <2>2. /\ heap' = AddRef(heap, r) /\ handed' = [handed EXCEPT ![r] = @ + 1]
        /\ stack' = stack /\ root' = root
    BY <1>2, <2>1 DEF GetRoot, Return
  <2>3. heap \in Heaps /\ Exact(heap, Held) /\ Held \in [Cont -> Nat]
    BY HeldLive, HeldType DEF CInv, IInv
  <2>4. heap[r].refs > 0
    <3>1. /\ Held[r] = Entries(stack, r) + Is(root, r) + handed[r]
          /\ Entries(stack, r) \in Nat /\ handed[r] \in Nat /\ Is(root, r) = 1
      BY <2>1, HeldType DEF CInv, IInv, Is
    <3>2. Held[r] > 0
      BY <3>1
    <3> QED BY <3>2, HeldLive
  <2>5. PICK held : held = [Held EXCEPT ![r] = @ + 1]
    OBVIOUS
  <2>6. Exact(heap', held)
    BY <2>2, <2>3, <2>4, <2>5, AddRefExact
  <2>7. Named(heap')
    BY <2>2, <2>3, AddRefEffect, SameNamed DEF CInv
  <2>8. ASSUME NEW d \in Cont PROVE held[d] = Entries(stack', d) + Is(root', d) + handed'[d]
    <3>1. /\ Held[d] = Entries(stack, d) + Is(root, d) + handed[d]
          /\ Entries(stack, d) \in Nat /\ Is(root, d) \in Nat /\ handed[d] \in Nat
      BY HeldType DEF CInv, IInv
    <3>2. /\ held[d] = IF d = r THEN Held[d] + 1 ELSE Held[d]
          /\ handed'[d] = IF d = r THEN handed[d] + 1 ELSE handed[d]
      BY <2>2, <2>3, <2>5 DEF CInv, IInv, TypeOK
    <3> QED BY <2>2, <3>1, <3>2
  <2> QED BY <2>6, <2>7, <2>8, CountsFrom
<1> QED BY <1>1, <1>2

(* References that are held are given up, and nothing else changes.        *)
LEMMA DropCounts ==
  ASSUME CInv, IInv', NEW drop \in [Cont -> Nat], heap' = Release(heap, drop),
         \A d \in Cont : /\ drop[d] <= Held[d]
                         /\ Held[d] - drop[d] = Entries(stack', d) + Is(root', d) + handed'[d]
  PROVE  CInv'
<1>1. heap \in Heaps /\ Exact(heap, Held) /\ Held \in [Cont -> Nat]
  BY HeldLive, HeldType, ExactHeld, NowFacts DEF CInv, IInv
<1>2. PICK held : held = Less(Held, drop)
  OBVIOUS
<1>3. \A d \in Cont : drop[d] <= Held[d]
  OBVIOUS
<1>4. Exact(heap', held)
  BY <1>1, <1>2, <1>3, ReleaseExact
<1>5. Named(heap')
  BY <1>1, ReleaseEffect, SameNamed DEF CInv
<1>6. \A d \in Cont : held[d] = Entries(stack', d) + Is(root', d) + handed'[d]
  BY <1>2 DEF Less
<1> QED BY <1>4, <1>5, <1>6, CountsFrom

LEMMA ResetCounts ==
  ASSUME CInv, IInv', Reset
  PROVE  CInv'
<1>1. PICK drop : drop = [c \in Cont |-> Entries(stack, c) + Is(root, c)]
  OBVIOUS
<1>2. /\ heap' = Release(heap, drop) /\ stack' = <<>> /\ root' = NULL /\ handed' = handed
  BY <1>1 DEF Reset, Entries, Is
<1>3. drop \in [Cont -> Nat]
  BY <1>1, HeldType DEF CInv, IInv
<1>4. ASSUME NEW d \in Cont
      PROVE  /\ drop[d] <= Held[d]
             /\ Held[d] - drop[d] = Entries(stack', d) + Is(root', d) + handed'[d]
  <2>1. /\ Held[d] = Entries(stack, d) + Is(root, d) + handed[d]
        /\ Entries(stack, d) \in Nat /\ Is(root, d) \in Nat /\ handed[d] \in Nat
    BY HeldType DEF CInv, IInv
  <2>2. drop[d] = Entries(stack, d) + Is(root, d)
    BY <1>1
  <2>3. Entries(stack', d) = 0 /\ Is(root', d) = 0 /\ handed'[d] = handed[d]
    BY <1>2, EntriesEmpty, NullIsNone
  <2> QED BY <2>1, <2>2, <2>3
<1> QED BY <1>2, <1>3, <1>4, DropCounts

LEMMA ClientUnrefCounts ==
  ASSUME CInv, IInv', NEW c \in Cont, ClientUnref(c)
  PROVE  CInv'
<1>1. /\ heap' = Release(heap, One(c)) /\ stack' = stack /\ root' = root
      /\ handed' = [handed EXCEPT ![c] = @ - 1] /\ handed[c] > 0
  BY DEF ClientUnref
<1>2. One(c) \in [Cont -> Nat] /\ \A d \in Cont : One(c)[d] = Is(c, d)
  BY OneType DEF One, NoDrop, Is
<1>3. ASSUME NEW d \in Cont
      PROVE  /\ One(c)[d] <= Held[d]
             /\ Held[d] - One(c)[d] = Entries(stack', d) + Is(root', d) + handed'[d]
  <2>1. /\ Held[d] = Entries(stack, d) + Is(root, d) + handed[d]
        /\ Entries(stack, d) \in Nat /\ Is(root, d) \in Nat /\ handed[d] \in Nat
    BY HeldType DEF CInv, IInv
  <2>2. handed'[d] = IF d = c THEN handed[d] - 1 ELSE handed[d]
    BY <1>1 DEF CInv, IInv, TypeOK
  <2>3. One(c)[d] = IF d = c THEN 1 ELSE 0
    BY <1>2 DEF Is
  <2>4. CASE d = c
    BY <1>1, <2>1, <2>2, <2>3, <2>4
  <2>5. CASE d # c
    BY <1>1, <2>1, <2>2, <2>3, <2>5
  <2> QED BY <2>4, <2>5
<1> QED BY <1>1, <1>2, <1>3, DropCounts

LEMMA ClientSealCounts ==
  ASSUME CInv, IInv', NEW c \in Cont, ClientSeal(c)
  PROVE  CInv'
<1>1. heap' = Seal(heap, c) /\ stack' = stack /\ root' = root /\ handed' = handed
  BY DEF ClientSeal
<1>2. heap \in Heaps /\ Exact(heap, Held)
  BY HeldLive
<1>3. Exact(heap', Held)
  BY <1>1, <1>2, SealExact
<1>4. Named(heap')
  BY <1>1, <1>2, SealEffect, SameNamed DEF CInv
<1>5. \A d \in Cont : Held[d] = Entries(stack', d) + Is(root', d) + handed'[d]
  BY <1>1, HeldType DEF CInv, IInv
<1> QED BY <1>3, <1>4, <1>5, CountsFrom

LEMMA OneItemEdges ==
  ASSUME NEW g, NEW c \in Cont, NEW x, g[c].items = <<[name |-> NULL, item |-> x]>>, NEW d
  PROVE  Edges(g, {c}, d) = Is(x, d)
<1>1. PICK e : e = [y \in Cont |-> [items |-> <<>>]]
  OBVIOUS
<1>2. DOMAIN e[c].items = {} /\ {c} \in SUBSET Cont
  BY <1>1
<1>3. PICK s : s = g[c].items
  OBVIOUS
<1>4. DOMAIN s = {1} /\ s[1].item = x
  BY <1>3
<1>5. SlotAdded(g, e, {c}, c, 1)
  <2>1. 1 \in 1 .. MaxItems
    BY HeapAssumption
  <2> QED BY <1>2, <1>3, <1>4, <2>1 DEF SlotAdded
<1>6. Edges(g, {c}, d) = Edges(e, {c}, d) + Is(g[c].items[1].item, d)
  BY <1>2, <1>5, EdgeAdded
<1>7. \A y \in {c} : \A i \in DOMAIN e[y].items : e[y].items[i].item # d
  BY <1>2
<1>8. Edges(e, {c}, d) = 0
  BY <1>2, <1>7, NoEdges
<1>9. g[c].items[1].item = x
  BY <1>3, <1>4
<1> QED BY <1>6, <1>8, <1>9, IsType

LEMMA ClientNewCounts ==
  ASSUME CInv, IInv', NEW c \in Cont, NEW items \in ClientItems, ClientNew(c, "array", items)
  PROVE  CInv'
<1>1. PICK g : g = heap'
  OBVIOUS
<1>2. /\ Fresh(heap, c) /\ stack' = stack /\ root' = root
      /\ \A i \in DOMAIN items : items[i].item \in Cont => handed[items[i].item] > 0
      /\ handed' = [d \in Cont |-> IF d = c THEN 1
                                   ELSE IF \E i \in DOMAIN items : items[i].item = d
                                        THEN handed[d] - 1 ELSE handed[d]]
  BY DEF ClientNew
<1>3. heap \in Heaps /\ Exact(heap, Held) /\ heap[c].refs = 0 /\ Named(heap)
  BY <1>2, HeldLive DEF CInv
<1>4. /\ g[c].items = items /\ g[c].refs = 1
      /\ \A d \in Cont \ {c} : g[d] = heap[d]
  BY <1>1, <1>3 DEF ClientNew, Alloc, Heaps
<1> DEFINE Took(d) == IF \E i \in DOMAIN items : items[i].item = d THEN 1 ELSE 0
<1>5. /\ \A d \in Cont : Edges(g, {c}, d) = Took(d)
      /\ Distinct(items)
  <2>1. CASE items = <<>>
    <3>1. \A y \in {c} : \A d \in Cont : \A i \in DOMAIN g[y].items : g[y].items[i].item # d
      BY <1>4, <2>1
    <3>2. \A d \in Cont : Edges(g, {c}, d) = 0
      BY <3>1, NoEdges
    <3>3. DOMAIN items = {}
      BY <2>1
    <3>4. Distinct(items)
      BY <3>3 DEF Distinct
    <3>5. \A d \in Cont : Took(d) = 0
      BY <3>3
    <3> HIDE DEF Took
    <3> QED BY <3>2, <3>4, <3>5
  <2>2. ASSUME NEW x, items = <<[name |-> NULL, item |-> x]>>
        PROVE  /\ \A d \in Cont : Edges(g, {c}, d) = Took(d)
               /\ Distinct(items)
    <3>1. DOMAIN items = {1} /\ items[1].item = x
      BY <2>2
    <3>2. \A d \in Cont : Edges(g, {c}, d) = Is(x, d)
      BY <1>4, <2>2, OneItemEdges
    <3>3. \A d \in Cont : Is(x, d) = Took(d)
      BY <3>1 DEF Is
    <3>4. Distinct(items)
      BY <3>1 DEF Distinct
    <3> HIDE DEF Took
    <3> QED BY <3>2, <3>3, <3>4
  <2> QED BY <2>1, <2>2 DEF ClientItems
<1>6. \A d \in Cont : /\ Took(d) \in Nat /\ Took(d) <= handed[d]
                      /\ handed'[d] = IF d = c THEN 1 ELSE handed[d] - Took(d)
  <2>1. ASSUME NEW d \in Cont
        PROVE  /\ Took(d) \in Nat /\ Took(d) <= handed[d]
               /\ handed'[d] = IF d = c THEN 1 ELSE handed[d] - Took(d)
    <3>1. handed[d] \in Nat
      BY HeldType DEF CInv, IInv
    <3>2. CASE \E i \in DOMAIN items : items[i].item = d
      <4>1. handed[d] > 0 /\ Took(d) = 1
        BY <1>2, <3>2
      <4> QED BY <1>2, <3>1, <3>2, <4>1
    <3>3. CASE ~ \E i \in DOMAIN items : items[i].item = d
      <4>1. Took(d) = 0
        BY <3>3
      <4> QED BY <1>2, <3>1, <3>3, <4>1
    <3> QED BY <3>2, <3>3
  <2> HIDE DEF Took
  <2> QED BY <2>1
<1> HIDE DEF Took
<1>7. PICK held : held = [d \in Cont |-> Entries(stack', d) + Is(root', d) + handed'[d]]
  OBVIOUS
<1>8. Held \in [Cont -> Nat]
  BY HeldType DEF CInv, IInv
<1>9. ASSUME NEW d \in Cont
      PROVE  /\ held[d] \in Nat
             /\ d # c => held[d] + Edges(g, {c}, d) = Held[d]
             /\ d = c => held[d] + Edges(g, {c}, d) = 1
  <2>1. /\ Held[d] = Entries(stack, d) + Is(root, d) + handed[d]
        /\ Entries(stack, d) \in Nat /\ Is(root, d) \in Nat /\ handed[d] \in Nat
    BY HeldType DEF CInv, IInv
  <2>2. held[d] = Entries(stack, d) + Is(root, d) + handed'[d]
    BY <1>2, <1>7
  <2>3. /\ Took(d) \in Nat /\ Took(d) <= handed[d] /\ Edges(g, {c}, d) = Took(d)
        /\ handed'[d] = IF d = c THEN 1 ELSE handed[d] - Took(d)
    BY <1>5, <1>6
  <2>4. CASE d # c
    BY <2>1, <2>2, <2>3, <2>4
  <2>5. CASE d = c
    <3>1. Entries(stack, d) = 0 /\ Is(root, d) = 0 /\ handed[d] = 0
      BY <1>2, <2>5, HeldLive DEF Is
    <3> QED BY <2>1, <2>2, <2>3, <2>5, <3>1
  <2> QED BY <2>4, <2>5
<1>10. Exact(g, held)
  <2>1. held \in [Cont -> Nat]
    BY <1>7, <1>9
  <2>2. held[c] + Edges(g, {c}, c) = g[c].refs
    BY <1>4, <1>9
  <2>3. \A d \in Cont \ {c} : g[d] = heap[d] /\ held[d] + Edges(g, {c}, d) = Held[d]
    BY <1>4, <1>9
  <2>4. NewCell(g, heap, Held, held, c)
    BY <1>3, <1>4, <2>2, <2>3 DEF NewCell
  <2> QED BY <1>3, <1>8, <2>1, <2>4, CellExact
<1>11. Named(g)
  BY <1>3, <1>4, <1>5 DEF Named
<1>12. \A d \in Cont : held[d] = Entries(stack', d) + Is(root', d) + handed'[d]
  BY <1>7
<1> QED BY <1>1, <1>10, <1>11, <1>12, CountsFrom

LEMMA InitCounts == Init => CInv
<1> SUFFICES ASSUME Init PROVE CInv
  OBVIOUS
<1>1. IInv
  BY InitInv
<1>2. /\ heap = NewHeap /\ stack = <<>> /\ root = NULL
      /\ \A c \in Cont : handed[c] = 0 /\ heap[c].refs = 0 /\ heap[c].items = <<>>
  BY DEF Init, NewHeap
<1>3. Named(heap)
  BY <1>2 DEF Named, Distinct
<1>4. ASSUME NEW c \in Cont
      PROVE  heap[c].refs = Entries(stack, c) + Is(root, c) + handed[c]
                            + Edges(heap, Live(heap), c)
  <2>1. Live(heap) \in SUBSET Cont
        /\ \A x \in Live(heap) : \A i \in DOMAIN heap[x].items : heap[x].items[i].item # c
    BY <1>2, LiveType
  <2>2. Edges(heap, Live(heap), c) = 0
    BY <2>1, NoEdges
  <2>3. Entries(stack, c) = 0 /\ Is(root, c) = 0
    BY <1>2, EntriesEmpty, NullIsNone
  <2> QED BY <1>2, <2>2, <2>3
<1>5. RefsExact
  BY <1>4 DEF RefsExact, Entries, Is
<1> QED BY <1>1, <1>3, <1>5 DEF CInv

LEMMA NextCounts == CInv /\ [Next]_vars => CInv'
<1> SUFFICES ASSUME CInv, [Next]_vars PROVE CInv'
  OBVIOUS
<1>0. IInv'
  BY NextInv DEF CInv
<1>1. CASE UNCHANGED vars
  <2>1. heap' = heap /\ stack' = stack /\ root' = root /\ handed' = handed
    BY <1>1 DEF vars
  <2> QED BY <1>0, <2>1, RelabelCounts
<1>2. ASSUME NEW c \in Cont, BeginObject(c) \/ BeginArray(c) PROVE CInv'
  <2>1. PICK k \in {"object", "array"} : Begin(k, c)
    BY <1>2 DEF BeginObject, BeginArray
  <2> QED BY <1>0, <2>1, BeginFirstCounts, BeginNestedCounts
<1>3. ASSUME NEW c \in Cont, AddValue(c) PROVE CInv'
  BY <1>0, <1>3, AddValueCounts
<1>4. ASSUME NEW c \in Cont, ClientUnref(c) PROVE CInv'
  BY <1>0, <1>4, ClientUnrefCounts
<1>5. ASSUME NEW c \in Cont, ClientSeal(c) PROVE CInv'
  BY <1>0, <1>5, ClientSealCounts
<1>6. ASSUME NEW c \in Cont, NEW items \in ClientItems, ClientNew(c, "array", items)
      PROVE  CInv'
  BY <1>0, <1>6, ClientNewCounts
<1>7. CASE EndObject \/ EndArray
  BY <1>0, <1>7, EndCounts DEF EndObject, EndArray
<1>8. CASE GetRoot
  BY <1>0, <1>8, GetRootCounts
<1>9. CASE Reset
  BY <1>0, <1>9, ResetCounts
<1>10. ASSUME NEW n \in Name, SetMemberName(n) PROVE CInv'
  BY <1>0, <1>10, SetMemberNameCounts
<1>11. ASSUME NEW s \in Scalar, AddScalar(s) PROVE CInv'
  BY <1>0, <1>11, AddScalarCounts
<1> QED
  BY <1>1, <1>2, <1>3, <1>4, <1>5, <1>6, <1>7, <1>8, <1>9, <1>10, <1>11 DEF Next

(* Whatever is built, ended, shared, reset and released, in any order,     *)
(* every reference count is the number of its holders: nothing leaks and   *)
(* nothing is freed while it is pointed to.                                *)
THEOREM CountsExact == Spec => []RefsExact
<1>1. CInv => RefsExact
  BY DEF CInv
<1> QED
  BY <1>1, InitCounts, NextCounts, PTL DEF Spec

-----------------------------------------------------------------------------
(* The builder implements JsonDocument.  The values of finished containers *)
(* never change (ValuesKept), so a step changes what it does to the open   *)
(* ones; and no container is inside itself (Grounded), because only what   *)
(* is new or finished is put into an open one.                             *)

(* The containers that will not change: allocated, and not open.           *)
Finished == {c \in Cont \ Open : ~ Fresh(heap, c)}

(* JsonBuilder's OpenVal, and the whole stack of them, for any heap and    *)
(* stack and with the values given by V.                                   *)
Inner(s, i) == IF i < Len(s) THEN s[i + 1].cont ELSE NULL
Part(V, inner, x) == IF x = inner THEN Hole ELSE IF x \in Cont THEN V[x] ELSE x
Shown(V, items, inner) ==
  [j \in DOMAIN items |-> [items[j] EXCEPT !.item = Part(V, inner, @)]]
Row(h, V, f, inner) ==
  [kind |-> h[f.cont].kind, key |-> f.name, items |-> Shown(V, h[f.cont].items, inner)]
Rows(h, V, s) == [i \in DOMAIN s |-> Row(h, V, s[i], Inner(s, i))]

(* The hole of JsonDocument is no value.                                   *)
HoleApart == Hole \notin Scalar /\ \A k, s : Hole # [kind |-> k, items |-> s]

(* The state of JsonDocument.                                              *)
DocOpen == [i \in DOMAIN stack |-> OpenVal(i)]
DocDone == IF root = NULL THEN NULL ELSE Val[root]
DocGot == IF got = NULL THEN NULL ELSE Val[got]

(* It is made of Rows and Values, in this state and the next.              *)
LEMMA Mapped ==
  /\ DocOpen = Rows(heap, Values(heap), stack)
  /\ DocDone = IF root = NULL THEN NULL ELSE Values(heap)[root]
  /\ DocGot = IF got = NULL THEN NULL ELSE Values(heap)[got]
  /\ DocOpen' = Rows(heap', Values(heap'), stack')
  /\ DocDone' = IF root' = NULL THEN NULL ELSE Values(heap')[root']
  /\ DocGot' = IF got' = NULL THEN NULL ELSE Values(heap')[got']
<1>1. Val = Values(heap) /\ Val' = Values(heap')
  BY DEF Val, Values, Value
<1>2. DocOpen = Rows(heap, Val, stack)
  BY DEF DocOpen, OpenVal, Rows, Row, Shown, Part, Inner
<1>3. DocOpen' = Rows(heap', Val', stack')
  BY DEF DocOpen, OpenVal, Rows, Row, Shown, Part, Inner
<1> QED BY <1>1, <1>2, <1>3 DEF DocDone, DocGot

(* What is finished holds only what is finished.                           *)
LEMMA FinishedDown == ASSUME IInv PROVE Downward(heap, Finished)
<1>1. ASSUME NEW c \in Finished, NEW d \in Children(heap, c) PROVE d \in Finished
  <2>1. c \in Cont /\ c \notin Open /\ d \in Cont
    BY DEF Finished, Children
  <2>2. d \notin Open
    BY <1>1, <2>1 DEF IInv, OpenChain
  <2>3. ~ Fresh(heap, d)
    BY <1>1, <2>1 DEF IInv, FreshUnused
  <2> QED BY <2>1, <2>2, <2>3 DEF Finished
<1> QED BY <1>1 DEF Downward, Finished

(* A step that leaves the finished containers alone leaves their values.   *)
LEMMA ValuesKept ==
  ASSUME IInv, NEW h, Grounded(heap), Grounded(h),
         \A c \in Finished : h[c].kind = heap[c].kind /\ h[c].items = heap[c].items
  PROVE  \A c \in Finished : Values(h)[c] = Values(heap)[c]
<1>1. PICK g : g = [c \in Finished |-> Values(heap)[c]]
  OBVIOUS
<1>2. Denotes(heap, Finished, g)
  BY <1>1, Unfolded, Narrowed, FinishedDown
<1>3. Denotes(h, Cont, Values(h))
  BY Unfolded
<1>4. \A c \in Finished \cap Cont : g[c] = Values(h)[c]
  BY <1>2, <1>3, Agreement
<1> QED BY <1>1, <1>4 DEF Finished

(* What an open container holds is the container open inside it, or is     *)
(* finished, or a scalar.                                                  *)
LEMMA OpenParts ==
  ASSUME IInv, NEW i \in DOMAIN stack,
         NEW j \in DOMAIN heap[stack[i].cont].items
  PROVE  LET s == heap[stack[i].cont].items[j] IN
         /\ s \in Slot
         /\ s.item = Inner(stack, i) \/ s.item \in Finished \cup Scalar
<1>1. PICK s : s = heap[stack[i].cont].items[j]
  OBVIOUS
<1>2. stack[i].cont \in Open /\ stack[i].cont \in Cont
  BY OpenType DEF Open, IInv
<1>3. heap[stack[i].cont].items \in Seq(Slot)
  BY <1>2 DEF IInv, TypeOK, Cell
<1>4. s \in Slot
  BY <1>1, <1>3, LenProperties, ElementOfSeq
<1>5. CASE s.item \in Cont /\ s.item \in Open
  <2>1. PICK l \in DOMAIN stack : s.item = stack[l].cont
    BY <1>5 DEF Open
  <2>2. stack[l].cont \in Children(heap, stack[i].cont)
    BY <1>1, <1>5, <2>1 DEF Children
  <2>3. l = i + 1
    BY <2>2 DEF IInv, OpenChain
  <2>4. stack \in Seq(Frame)
    BY DEF IInv, TypeOK
  <2>5. DOMAIN stack = 1 .. Len(stack) /\ Len(stack) \in Nat
    BY <2>4, LenProperties
  <2>6. i < Len(stack)
    BY <2>3, <2>5
  <2> QED BY <1>1, <1>4, <2>1, <2>3, <2>6 DEF Inner
<1>6. CASE s.item \in Cont /\ s.item \notin Open
  <2>1. s.item \in Children(heap, stack[i].cont)
    BY <1>1, <1>6 DEF Children
  <2>2. ~ Fresh(heap, s.item)
    BY <1>2, <1>6, <2>1 DEF IInv, FreshUnused
  <2> QED BY <1>1, <1>4, <1>6, <2>2 DEF Finished
<1> QED BY <1>1, <1>4, <1>5, <1>6 DEF Slot, Item

(* Append, Front and Last, as functions of the place.                      *)
LEMMA AppendIs ==
  ASSUME NEW n \in Nat, NEW o, DOMAIN o = 1 .. n, o = [i \in 1 .. n |-> o[i]], NEW r
  PROVE  /\ Append(o, r) = [i \in 1 .. n + 1 |-> IF i = n + 1 THEN r ELSE o[i]]
         /\ Len(o) = n
<1> DEFINE S == {o[i] : i \in 1 .. n} \cup {r}
<1>1. o \in [1 .. n -> S] /\ r \in S
  OBVIOUS
<1> HIDE DEF S
<1>2. o \in Seq(S)
  BY <1>1, SeqDef
<1>3. Len(o) = n
  BY <1>2, LenProperties
<1>4. /\ Append(o, r) \in Seq(S) /\ Len(Append(o, r)) = n + 1
      /\ \A i \in 1 .. n : Append(o, r)[i] = o[i]
      /\ Append(o, r)[n + 1] = r
  BY <1>1, <1>2, <1>3, AppendProperties
<1>5. PICK a : a = Append(o, r)
  OBVIOUS
<1>6. a \in [1 .. n + 1 -> S]
  BY <1>4, <1>5, LenProperties
<1>7. a = [i \in 1 .. n + 1 |-> a[i]]
  BY <1>6
<1>8. \A i \in 1 .. n + 1 : a[i] = IF i = n + 1 THEN r ELSE o[i]
  BY <1>4, <1>5
<1> QED BY <1>3, <1>5, <1>7, <1>8

LEMMA FrontIs ==
  ASSUME NEW n \in Nat \ {0}, NEW o, DOMAIN o = 1 .. n, o = [i \in 1 .. n |-> o[i]]
  PROVE  /\ Front(o) = [i \in 1 .. n - 1 |-> o[i]]
         /\ Last(o) = o[n]
         /\ o # <<>>
<1> DEFINE S == {o[i] : i \in 1 .. n}
<1>1. o \in [1 .. n -> S]
  OBVIOUS
<1>2. \A i \in 1 .. n - 1 : o[i] \in S
  OBVIOUS
<1> HIDE DEF S
<1>3. o \in Seq(S)
  BY <1>1, SeqDef
<1>4. Len(o) = n
  BY <1>3, LenProperties
<1>5. PICK f : f = SubSeq(o, 1, n - 1)
  OBVIOUS
<1>6. n - 1 \in Nat /\ n - 1 \in Int
  OBVIOUS
<1>7. /\ f \in Seq(S) /\ Len(f) = n - 1
      /\ \A i \in 1 .. n - 1 : f[i] = o[i]
  BY <1>2, <1>5, <1>6, SubSeqProperties
<1>8. f \in [1 .. n - 1 -> S]
  BY <1>7, LenProperties
<1>9. f = [i \in 1 .. n - 1 |-> o[i]]
  BY <1>7, <1>8
<1>10. o # <<>>
  BY <1>3, <1>4, EmptySeq
<1> QED BY <1>4, <1>5, <1>9, <1>10 DEF Front, Last

(* Storing an item in a container is what With does to the members shown:  *)
(* a later value of a name takes its place.                                *)
LEMMA PutShown ==
  ASSUME NEW items \in Seq(Slot), NEW n \in Name \cup {NULL}, NEW x \in Item,
         NEW V, NEW W, NEW inner,
         \A j \in DOMAIN items :
           Part(W, inner, items[j].item) = Part(V, NULL, items[j].item)
  PROVE  Shown(W, PutItem(items, n, x), inner)
           = Doc!With(Shown(V, items, NULL), n, Part(W, inner, x))
<1> DEFINE l == Len(items)
           new == [name |-> n, item |-> x]
           P == Part(W, inner, x)
           old == Shown(V, items, NULL)
           row == [name |-> n, item |-> P]
<1>1. l \in Nat /\ DOMAIN items = 1 .. l /\ \A j \in 1 .. l : items[j] \in Slot
  BY LenProperties, ElementOfSeq
<1>2. /\ DOMAIN old = 1 .. l /\ old = [j \in 1 .. l |-> old[j]]
      /\ \A j \in 1 .. l : /\ old[j].name = items[j].name
                           /\ old[j] = [items[j] EXCEPT !.item = Part(W, inner, @)]
  <2>1. ASSUME NEW j \in 1 .. l
        PROVE  /\ old[j] = [items[j] EXCEPT !.item = Part(W, inner, @)]
               /\ old[j].name = items[j].name
    <3>1. items[j] \in Slot /\ old[j] = [items[j] EXCEPT !.item = Part(V, NULL, @)]
      BY <1>1 DEF Shown
    <3>2. Part(V, NULL, items[j].item) = Part(W, inner, items[j].item)
      BY <1>1
    <3> HIDE DEF old
    <3> QED BY <3>1, <3>2 DEF Slot
  <2> QED BY <1>1, <2>1 DEF Shown
<1>3. [new EXCEPT !.item = Part(W, inner, @)] = row
  OBVIOUS
<1>4. SameName(items, n) = Doc!SameKey(old, n)
  BY <1>1, <1>2 DEF SameName, Doc!SameKey
<1> HIDE DEF old, P
<1>5. CASE SameName(items, n) = {}
  <2>1. PICK a : a = PutItem(items, n, x)
    OBVIOUS
  <2>2. items = [i \in 1 .. l |-> items[i]]
    BY <1>1, LenProperties
  <2>3. a = [i \in 1 .. l + 1 |-> IF i = l + 1 THEN new ELSE items[i]]
    BY <1>1, <1>5, <2>1, <2>2, AppendIs DEF PutItem
  <2>4. Shown(W, a, inner) =
          [i \in 1 .. l + 1 |-> IF i = l + 1 THEN row ELSE old[i]]
    <3>1. DOMAIN a = 1 .. l + 1
      BY <2>3
    <3>2. ASSUME NEW i \in 1 .. l + 1
          PROVE  [a[i] EXCEPT !.item = Part(W, inner, @)]
                   = IF i = l + 1 THEN row ELSE old[i]
      <4>1. CASE i = l + 1
        BY <1>3, <2>3, <4>1
      <4>2. CASE i # l + 1
        <5>1. i \in 1 .. l
          BY <1>1, <4>2
        <5> QED BY <1>2, <2>3, <4>2, <5>1
      <4> QED BY <4>1, <4>2
    <3> QED BY <3>1, <3>2 DEF Shown
  <2>5. Append(old, row) = [i \in 1 .. l + 1 |-> IF i = l + 1 THEN row ELSE old[i]]
    BY <1>1, <1>2, AppendIs
  <2> QED BY <1>4, <1>5, <2>1, <2>4, <2>5 DEF Doc!With, P, old
<1>6. CASE SameName(items, n) # {}
  <2>1. PICK a : a = PutItem(items, n, x)
    OBVIOUS
  <2>2. a = [i \in 1 .. l |-> IF i \in SameName(items, n) THEN new ELSE items[i]]
    BY <1>1, <1>6, <2>1 DEF PutItem
  <2>3. Shown(W, a, inner) =
          [i \in 1 .. l |-> IF i \in SameName(items, n) THEN row ELSE old[i]]
    <3>1. DOMAIN a = 1 .. l
      BY <2>2
    <3>2. ASSUME NEW i \in 1 .. l
          PROVE  [a[i] EXCEPT !.item = Part(W, inner, @)]
                   = IF i \in SameName(items, n) THEN row ELSE old[i]
      BY <1>2, <1>3, <2>2
    <3> QED BY <3>1, <3>2 DEF Shown
  <2>4. Doc!With(old, n, P)
          = [i \in 1 .. l |-> IF i \in SameName(items, n) THEN row ELSE old[i]]
    BY <1>2, <1>4, <1>6 DEF Doc!With
  <2> QED BY <2>1, <2>3, <2>4 DEF P, old
<1> QED BY <1>5, <1>6 DEF P

(* An open container a step leaves alone looks as before.                  *)
LEMMA RowKept ==
  ASSUME IInv, NEW i \in DOMAIN stack, NEW h, NEW V, NEW W, NEW f,
         \A c \in Finished : W[c] = V[c],
         h[stack[i].cont].kind = heap[stack[i].cont].kind,
         h[stack[i].cont].items = heap[stack[i].cont].items,
         f.cont = stack[i].cont, f.name = stack[i].name
  PROVE  Row(h, W, f, Inner(stack, i)) = Row(heap, V, stack[i], Inner(stack, i))
<1> DEFINE items == heap[stack[i].cont].items
           inner == Inner(stack, i)
<1>1. ASSUME NEW j \in DOMAIN items
      PROVE  Part(W, inner, items[j].item) = Part(V, inner, items[j].item)
  <2>1. items[j].item = inner \/ items[j].item \in Finished \cup Scalar
    BY OpenParts
  <2>2. Finished \subseteq Cont /\ Scalar \cap Cont = {}
    BY HeapAssumption DEF Finished
  <2> HIDE DEF items, inner
  <2> QED BY <2>1, <2>2 DEF Part
<1>2. Shown(W, items, inner) = Shown(V, items, inner)
  <2> HIDE DEF items, inner
  <2> QED BY <1>1 DEF Shown
<1> QED BY <1>2 DEF Row

(* The mode of a stack entry goes with its container's kind; the client's  *)
(* last answer is finished.                                                *)
KindsFit ==
  \A i \in DOMAIN stack :
    heap[stack[i].cont].kind = IF stack[i].mode = "ARRAY" THEN "array" ELSE "object"
GotKept == got \in Cont => got \in Finished

(* The inductive invariant of the refinement.                              *)
DocInv == IInv /\ Grounded(heap) /\ KindsFit /\ GotKept

(* JsonDocument's Stored.                                                  *)
StoredIn(o, v) ==
  Append(Front(o), [kind |-> Last(o).kind, key |-> NULL,
                    items |-> Doc!With(Last(o).items, Last(o).key, v)])
Rowed(n, o) == DOMAIN o = 1 .. n /\ o = [i \in 1 .. n |-> o[i]]
StoredAt(n, o, v) ==
  [i \in 1 .. n |->
     IF i = n THEN [kind |-> o[n].kind, key |-> NULL,
                    items |-> Doc!With(o[n].items, o[n].key, v)]
     ELSE o[i]]

LEMMA StoredIs ==
  ASSUME NEW n \in Nat \ {0}, NEW o, Rowed(n, o), NEW v
  PROVE  StoredIn(o, v) = StoredAt(n, o, v)
<1> USE DEF Rowed, StoredAt
<1>1. PICK r : r = [kind |-> o[n].kind, key |-> NULL,
                    items |-> Doc!With(o[n].items, o[n].key, v)]
  OBVIOUS
<1>2. PICK f : f = Front(o)
  OBVIOUS
<1>3. f = [i \in 1 .. n - 1 |-> o[i]] /\ Last(o) = o[n]
  BY <1>2, FrontIs
<1>4. PICK m \in Nat : m = n - 1 /\ m + 1 = n
  OBVIOUS
<1>5. Append(f, r) = [i \in 1 .. m + 1 |-> IF i = m + 1 THEN r ELSE f[i]]
  BY <1>3, <1>4, AppendIs
<1>6. \A i \in 1 .. n : i # n => f[i] = o[i]
  BY <1>3
<1> QED BY <1>1, <1>2, <1>3, <1>4, <1>5, <1>6 DEF StoredIn

LEMMA RowsAre ==
  ASSUME TypeOK, NEW V
  PROVE  /\ Len(stack) \in Nat /\ DOMAIN stack = 1 .. Len(stack)
         /\ DOMAIN Rows(heap, V, stack) = 1 .. Len(stack)
         /\ Rows(heap, V, stack) = [i \in 1 .. Len(stack) |-> Rows(heap, V, stack)[i]]
         /\ \A i \in 1 .. Len(stack) :
              Rows(heap, V, stack)[i] = Row(heap, V, stack[i], Inner(stack, i))
BY LenProperties DEF TypeOK, Rows

(* What attaching a value to the innermost container does to kinds and     *)
(* items.                                                                  *)
LEMMA Attaching ==
  ASSUME TypeOK, stack # <<>>, NEW h \in Heaps, NEW x \in Item,
         \A d \in Cont : h[d].items = heap[d].items
  PROVE  /\ \A d \in Cont : /\ Attached(h, x)[d].kind = h[d].kind
                            /\ d # Top.cont => Attached(h, x)[d].items = heap[d].items
         /\ Attached(h, x)[Top.cont].items
              = PutItem(heap[Top.cont].items, Top.name, x)
<1>1. PICK t, n : t = Top.cont /\ n = Top.name
  OBVIOUS
<1>2. t \in Cont /\ n \in Name \cup {NULL}
  BY <1>1, TopFacts DEF Frame
<1>3. Attached(h, x) = Store(h, t, n, x)
  BY <1>1 DEF Attached
<1> QED BY <1>1, <1>2, <1>3, StoreEffect, StoreItems

(* The stack after a value: the name of the member is used up, and the     *)
(* rest is as it was.                                                      *)
LEMMA AfterAddRows ==
  ASSUME TypeOK, ValidAddMode
  PROVE  LET n == Len(stack) IN
         /\ n \in Nat \ {0} /\ stack # <<>>
         /\ AfterAdd[n].cont = Top.cont /\ AfterAdd[n].name = NULL
         /\ \A i \in 1 .. n - 1 : AfterAdd[i] = stack[i]
<1>1. stack # <<>> /\ Top.mode \in {"MEMBER", "ARRAY"}
  BY DEF ValidAddMode
<1>2. PICK n : n = Len(stack)
  OBVIOUS
<1>3. /\ n \in Nat \ {0} /\ Top = stack[n] /\ Top \in Frame
      /\ Popped \in Seq(Frame) /\ Len(Popped) = n - 1
      /\ \A i \in 1 .. n - 1 : Popped[i] = stack[i]
  BY <1>1, <1>2, TopFacts
<1>4. CASE Top.mode = "MEMBER"
  <2>1. PICK f : f = [cont |-> Top.cont, mode |-> "OBJECT", name |-> NULL]
    OBVIOUS
  <2>2. f \in Frame
    BY <1>3, <2>1 DEF Frame, Modes
  <2>3. AfterAdd = Append(Popped, f)
    BY <1>4, <2>1 DEF AfterAdd
  <2>4. /\ \A i \in 1 .. n - 1 : AfterAdd[i] = Popped[i]
        /\ AfterAdd[n - 1 + 1] = f
    BY <1>3, <2>2, <2>3, PushFacts
  <2>5. n - 1 + 1 = n
    BY <1>3
  <2> QED BY <1>1, <1>2, <1>3, <2>1, <2>4, <2>5
<1>5. CASE Top.mode = "ARRAY"
  <2>1. Top.name = NULL
    BY <1>3, <1>5 DEF Frame
  <2>2. AfterAdd = stack
    BY <1>5 DEF AfterAdd
  <2> QED BY <1>1, <1>2, <1>3, <2>1, <2>2
<1> QED BY <1>1, <1>4, <1>5

(* In heap h, x is attached to the innermost container.                    *)
Attaches(h, x) ==
  /\ \A d \in Cont : ~ Fresh(heap, d) =>
       /\ h[d].kind = heap[d].kind
       /\ d # Top.cont => h[d].items = heap[d].items
  /\ h[Top.cont].items = PutItem(heap[Top.cont].items, Top.name, x)

(* To the rows this is Stored, for a value or, where x is open itself, for *)
(* a hole.                                                                 *)
LEMMA AttachMapped ==
  ASSUME IInv, Grounded(heap), ValidAddMode, NEW x \in Item,
         NEW h, Grounded(h), Attaches(h, x),
         NEW inner, inner \notin Finished \cup Scalar
  PROVE  LET V == Values(heap)
             W == Values(h)
             n == Len(stack)
         IN
         /\ \A i \in 1 .. n - 1 :
              Row(h, W, AfterAdd[i], Inner(stack, i)) = Rows(heap, V, stack)[i]
         /\ Row(h, W, AfterAdd[n], inner) =
              [kind |-> heap[Top.cont].kind, key |-> NULL,
               items |-> Doc!With(Rows(heap, V, stack)[n].items,
                                  Rows(heap, V, stack)[n].key, Part(W, inner, x))]
         /\ Rows(heap, V, stack)[n].kind = heap[Top.cont].kind
         /\ \A c \in Finished : W[c] = V[c]
<1>1. PICK n, t, V, W, o : /\ n = Len(stack) /\ t = Top.cont
                           /\ V = Values(heap) /\ W = Values(h)
                           /\ o = Rows(heap, V, stack)
  OBVIOUS
<1>0. TypeOK
  BY DEF IInv
<1>2. /\ n \in Nat \ {0} /\ DOMAIN stack = 1 .. n /\ stack # <<>>
      /\ t = stack[n].cont /\ Top = stack[n] /\ t \in Cont /\ t \in Open
      /\ Top.name \in Name \cup {NULL}
      /\ AfterAdd[n].cont = t /\ AfterAdd[n].name = NULL
      /\ \A i \in 1 .. n - 1 : AfterAdd[i] = stack[i]
  BY <1>0, <1>1, AfterAddRows, TopFacts DEF Frame
<1>3. \A c \in Open : c \in Cont /\ ~ Fresh(heap, c)
  BY OpenType DEF IInv, FreshUnused
<1>4. \A c \in Finished : /\ c \in Cont /\ c # t
                          /\ h[c].kind = heap[c].kind /\ h[c].items = heap[c].items
  BY <1>1, <1>2 DEF Finished, Attaches
<1>5. \A c \in Finished : W[c] = V[c]
  BY <1>1, <1>4, ValuesKept
<1>6. ASSUME NEW i \in 1 .. n - 1
      PROVE  Row(h, W, AfterAdd[i], Inner(stack, i)) = o[i]
  <2>1. i \in DOMAIN stack /\ i \in 1 .. n /\ i # n
    BY <1>2
  <2>2. stack[i].cont \in Open
    BY <2>1 DEF Open
  <2>3. stack[i].cont # t
    BY <1>2, <2>1 DEF IInv, OpenChain
  <2>4. /\ h[stack[i].cont].kind = heap[stack[i].cont].kind
        /\ h[stack[i].cont].items = heap[stack[i].cont].items
    BY <1>1, <1>3, <2>2, <2>3 DEF Attaches
  <2>5. Row(h, W, AfterAdd[i], Inner(stack, i)) = Row(heap, V, stack[i], Inner(stack, i))
    BY <1>2, <1>5, <2>1, <2>4, RowKept
  <2> QED BY <1>0, <1>1, <2>1, <2>5, RowsAre
<1>7. PICK items : items = heap[t].items
  OBVIOUS
<1>8. items \in Seq(Slot)
  BY <1>2, <1>7 DEF IInv, TypeOK, Cell
<1>9. Inner(stack, n) = NULL
  BY <1>1, <1>2 DEF Inner
<1>10. o[n] = Row(heap, V, stack[n], NULL)
  BY <1>0, <1>1, <1>2, <1>9, RowsAre
<1>11. ASSUME NEW j \in DOMAIN items
       PROVE  Part(W, inner, items[j].item) = Part(V, NULL, items[j].item)
  <2>1. /\ items[j] \in Slot
        /\ items[j].item = NULL \/ items[j].item \in Finished \cup Scalar
    BY <1>2, <1>7, <1>9, OpenParts
  <2>2. items[j].item # NULL
    BY <2>1, HeapAssumption DEF Slot, Item
  <2>3. Finished \subseteq Cont /\ Scalar \cap Cont = {}
    BY HeapAssumption DEF Finished
  <2> QED BY <1>5, <2>1, <2>2, <2>3 DEF Part
<1>12. Shown(W, PutItem(items, Top.name, x), inner)
         = Doc!With(Shown(V, items, NULL), Top.name, Part(W, inner, x))
  BY <1>2, <1>8, <1>11, PutShown
<1>13. o[n].items = Shown(V, items, NULL) /\ o[n].key = Top.name /\ o[n].kind = heap[t].kind
  BY <1>2, <1>7, <1>10 DEF Row
<1>14. h[t].items = PutItem(items, Top.name, x) /\ h[t].kind = heap[t].kind
  BY <1>1, <1>2, <1>3, <1>7 DEF Attaches
<1>15. Row(h, W, AfterAdd[n], inner) =
         [kind |-> heap[t].kind, key |-> NULL,
          items |-> Doc!With(o[n].items, o[n].key, Part(W, inner, x))]
  BY <1>2, <1>12, <1>13, <1>14 DEF Row
<1> QED BY <1>1, <1>5, <1>6, <1>13, <1>15

LEMMA RootFinished == ASSUME IInv, root # NULL PROVE root \in Finished
<1>1. root \in Cont /\ stack = <<>> /\ ~ Fresh(heap, root)
  BY DEF IInv, TypeOK, RootSealed, RootAllocated
<1>2. Open = {}
  BY <1>1 DEF Open
<1> QED BY <1>1, <1>2 DEF Finished

(* While the finished values stay, so do the answers.                      *)
LEMMA AnswersKept ==
  ASSUME DocInv, \A c \in Finished : Values(heap')[c] = Values(heap)[c],
         root' = root, got' = got
  PROVE  DocDone' = DocDone /\ DocGot' = DocGot
<1>1. root # NULL => root \in Finished
  BY RootFinished DEF DocInv
<1>2. got # NULL => got \in Finished
  BY DEF DocInv, GotKept, IInv, TypeOK
<1> QED BY <1>1, <1>2, Mapped

(* A step that allocates and leaves all other containers alone changes no  *)
(* row.                                                                    *)
LEMMA Undisturbed ==
  ASSUME DocInv, Grounded(heap'),
         \A d \in Cont : ~ Fresh(heap, d) =>
           heap'[d].kind = heap[d].kind /\ heap'[d].items = heap[d].items
  PROVE  /\ \A c \in Finished : Values(heap')[c] = Values(heap)[c]
         /\ \A i \in DOMAIN stack : \A f :
              f.cont = stack[i].cont /\ f.name = stack[i].name =>
                Row(heap', Values(heap'), f, Inner(stack, i)) = DocOpen[i]
<1>1. IInv /\ TypeOK
  BY DEF DocInv, IInv
<1>2. \A c \in Finished : Values(heap')[c] = Values(heap)[c]
  BY <1>1, ValuesKept DEF DocInv, Finished
<1>3. ASSUME NEW i \in DOMAIN stack, NEW f, f.cont = stack[i].cont, f.name = stack[i].name
      PROVE  Row(heap', Values(heap'), f, Inner(stack, i)) = DocOpen[i]
  <2>1. stack[i].cont \in Open /\ stack[i].cont \in Cont
    BY <1>1, OpenType DEF Open
  <2>2. ~ Fresh(heap, stack[i].cont)
    BY <1>1, <2>1 DEF IInv, FreshUnused
  <2>3. /\ heap'[stack[i].cont].kind = heap[stack[i].cont].kind
        /\ heap'[stack[i].cont].items = heap[stack[i].cont].items
    BY <2>1, <2>2
  <2>4. PICK h, V, W : h = heap' /\ V = Values(heap) /\ W = Values(heap')
    OBVIOUS
  <2>5. Row(h, W, f, Inner(stack, i)) = Row(heap, V, stack[i], Inner(stack, i))
    BY <1>1, <1>2, <1>3, <2>3, <2>4, RowKept
  <2>6. DocOpen = Rows(heap, V, stack)
    BY <2>4, Mapped
  <2>7. DocOpen[i] = Row(heap, V, stack[i], Inner(stack, i))
    BY <1>1, <2>6, RowsAre
  <2> QED BY <2>4, <2>5, <2>7
<1> QED BY <1>2, <1>3

(* What JsonDocument sees: the innermost container by its mode and member  *)
(* name.                                                                   *)
LEMMA DocShape ==
  ASSUME DocInv
  PROVE  LET n == Len(stack) IN
         /\ n \in Nat /\ DOMAIN stack = 1 .. n
         /\ DOMAIN DocOpen = 1 .. n
         /\ DocOpen = [i \in 1 .. n |-> DocOpen[i]]
         /\ stack = <<>> => DocOpen = <<>> /\ n = 0
         /\ stack # <<>> =>
              /\ n > 0 /\ DocOpen # <<>> /\ Len(DocOpen) = n
              /\ Last(DocOpen) = DocOpen[n]
              /\ Front(DocOpen) = [i \in 1 .. n - 1 |-> DocOpen[i]]
              /\ DocOpen[n].kind = IF Top.mode = "ARRAY" THEN "array" ELSE "object"
              /\ DocOpen[n].kind = heap[Top.cont].kind
              /\ DocOpen[n].key = Top.name
              /\ DocOpen[n].items = Shown(Values(heap), heap[Top.cont].items, NULL)
<1>1. PICK n, o, V : n = Len(stack) /\ o = DocOpen /\ V = Values(heap)
  OBVIOUS
<1>0. TypeOK
  BY DEF DocInv, IInv
<1>2. o = Rows(heap, V, stack)
  BY <1>1, Mapped
<1>3. /\ n \in Nat /\ DOMAIN stack = 1 .. n
      /\ DOMAIN o = 1 .. n
      /\ o = [i \in 1 .. n |-> o[i]]
      /\ \A i \in 1 .. n : o[i] = Row(heap, V, stack[i], Inner(stack, i))
  BY <1>0, <1>1, <1>2, RowsAre
<1>4. CASE stack = <<>>
  <2>1. n = 0 /\ 1 .. n = {}
    BY <1>1, <1>4
  <2>2. o = <<>>
    BY <1>3, <2>1
  <2> QED BY <1>1, <1>3, <1>4, <2>1, <2>2
<1>5. CASE stack # <<>>
  <2>1. n > 0 /\ n \in Nat \ {0} /\ Top = stack[n]
    BY <1>0, <1>1, <1>5, TopFacts
  <2>2. Front(o) = [i \in 1 .. n - 1 |-> o[i]] /\ Last(o) = o[n] /\ o # <<>>
    BY <1>3, <2>1, FrontIs
  <2>3. Len(o) = n
    BY <1>3, AppendIs
  <2>4. o[n] = Row(heap, V, stack[n], NULL)
    BY <1>1, <1>3, <2>1 DEF Inner
  <2>5. heap[stack[n].cont].kind = IF stack[n].mode = "ARRAY" THEN "array" ELSE "object"
    BY <1>3, <2>1 DEF DocInv, KindsFit
  <2> QED BY <1>1, <1>3, <1>5, <2>1, <2>2, <2>3, <2>4, <2>5 DEF Row
<1> QED BY <1>4, <1>5

(* json_builder_is_valid_add_mode is Ready.                                *)
LEMMA DocReady == ASSUME DocInv, ValidAddMode PROVE Doc!Ready
<1>1. stack # <<>> /\ Top.mode \in {"MEMBER", "ARRAY"} /\ Top \in Frame
  BY TopFacts DEF ValidAddMode, DocInv, IInv
<1>2. Top.mode = "MEMBER" => Top.name # NULL
  BY <1>1 DEF Frame
<1>3. /\ DocOpen # <<>>
      /\ Last(DocOpen).kind = "array" \/ Last(DocOpen).key # NULL
  BY <1>1, <1>2, DocShape
<1> QED BY <1>3 DEF Doc!Ready, DocOpen, Doc!Last, Last

LEMMA DocStored == \A v : Doc!Stored(v) = StoredIn(DocOpen, v)
BY DEF Doc!Stored, StoredIn, DocOpen, Doc!Last, Doc!Front, Last, Front

(* Using up a member name keeps the modes with the kinds.                  *)
LEMMA KindsAdded ==
  ASSUME KindsFit, TypeOK, ValidAddMode, NEW h,
         \A i \in DOMAIN stack : h[stack[i].cont].kind = heap[stack[i].cont].kind
  PROVE  \A i \in DOMAIN stack :
           h[AfterAdd[i].cont].kind =
             IF AfterAdd[i].mode = "ARRAY" THEN "array" ELSE "object"
<1>1. PICK n : n = Len(stack)
  OBVIOUS
<1>2. /\ DOMAIN stack = 1 .. n /\ n \in Nat \ {0} /\ stack # <<>> /\ Top = stack[n]
      /\ \A i \in 1 .. n - 1 : AfterAdd[i] = stack[i]
  BY <1>1, AfterAddRows, TopFacts
<1>3. AfterAdd[n].cont = Top.cont /\ (AfterAdd[n].mode = "ARRAY" <=> Top.mode = "ARRAY")
  <2>1. CASE Top.mode = "MEMBER"
    <3>1. PICK f : f = [cont |-> Top.cont, mode |-> "OBJECT", name |-> NULL]
      OBVIOUS
    <3>2. f \in Frame /\ Popped \in Seq(Frame) /\ Len(Popped) + 1 = n
      BY <1>1, <1>2, <3>1, TopFacts DEF Frame, Modes
    <3>3. AfterAdd = Append(Popped, f)
      BY <2>1, <3>1 DEF AfterAdd
    <3>4. AfterAdd[n] = f
      BY <3>2, <3>3, PushFacts
    <3> QED BY <2>1, <3>1, <3>4
  <2>2. CASE Top.mode = "ARRAY"
    BY <1>2, <2>2 DEF AfterAdd
  <2> QED BY <2>1, <2>2 DEF ValidAddMode
<1>4. ASSUME NEW i \in DOMAIN stack
      PROVE  h[AfterAdd[i].cont].kind =
               IF AfterAdd[i].mode = "ARRAY" THEN "array" ELSE "object"
  <2>1. CASE i = n
    BY <1>2, <1>3, <2>1 DEF KindsFit
  <2>2. CASE i # n
    <3>1. AfterAdd[i] = stack[i]
      BY <1>2, <2>2
    <3> QED BY <3>1 DEF KindsFit
  <2> QED BY <2>1, <2>2
<1> QED BY <1>4

(* Adding a scalar, or a container the client had, is Add of its value.    *)
LEMMA DocAdd ==
  ASSUME DocInv, ValidAddMode, NEW x \in Scalar \cup Finished, NEW h \in Heaps,
         \A d \in Cont : h[d].kind = heap[d].kind /\ h[d].items = heap[d].items,
         heap' = Attached(h, x), stack' = AfterAdd,
         root' = root, got' = got
  PROVE  /\ Doc!Add(IF x \in Cont THEN Val[x] ELSE x)
         /\ (Grounded(heap) /\ KindsFit /\ GotKept)'
<1>1. PICK n, t, V : n = Len(stack) /\ t = Top.cont /\ V = Values(heap)
  OBVIOUS
<1>0. IInv /\ TypeOK /\ Grounded(heap) /\ stack # <<>>
  BY DEF DocInv, IInv, ValidAddMode
<1>2. /\ n \in Nat \ {0} /\ DOMAIN stack = 1 .. n /\ t \in Cont /\ t \in Open
      /\ AfterAdd[n].cont = t
      /\ \A i \in 1 .. n - 1 : AfterAdd[i] = stack[i]
      /\ DOMAIN AfterAdd = 1 .. n /\ Len(AfterAdd) = n
      /\ \A i \in 1 .. n : AfterAdd[i].cont = stack[i].cont
  BY <1>0, <1>1, AfterAddRows, TopFacts, AfterAddFacts
<1>3. x \in Item
  BY DEF Item, Finished
<1>4. /\ \A d \in Cont : /\ heap'[d].kind = heap[d].kind
                         /\ d # t => heap'[d].items = heap[d].items
      /\ heap'[t].items = PutItem(heap[t].items, Top.name, x)
  BY <1>0, <1>1, <1>3, Attaching
<1>5. Attaches(heap', x)
  BY <1>1, <1>4 DEF Attaches
<1>6. Grounded(heap')
  <2>1. Children(heap', t) \subseteq Children(heap, t) \cup (Finished \cup {})
    <3>1. Top.name \in Name \cup {NULL} /\ heap[t].items \in Seq(Slot)
      BY <1>0, <1>2, TopFacts DEF Frame, TypeOK, Cell
    <3>2. \A i \in DOMAIN heap'[t].items :
            \/ heap'[t].items[i].item = x
            \/ \E j \in DOMAIN heap[t].items : heap'[t].items[i].item = heap[t].items[j].item
      <4>1. PICK p, q, m : p = heap'[t].items /\ q = heap[t].items /\ m = Top.name
        OBVIOUS
      <4>2. q \in Seq(Slot) /\ m \in Name \cup {NULL} /\ p = PutItem(q, m, x)
        BY <1>4, <3>1, <4>1
      <4>3. \A i \in DOMAIN p : p[i].item = x \/ \E j \in DOMAIN q : p[i].item = q[j].item
        BY <1>3, <4>2, PutItemEffect
      <4> QED BY <4>1, <4>3
    <3>3. x \in Cont => x \in Finished
      BY HeapAssumption
    <3> QED BY <3>2, <3>3 DEF Children
  <2>2. t \notin Finished
    BY <1>2 DEF Finished
  <2>3. \A d \in Cont : d # t => Children(heap', d) = Children(heap, d)
    BY <1>4 DEF Children
  <2> QED BY <1>0, <1>2, <2>1, <2>2, <2>3, FinishedDown, GroundedMore
<1>7. PICK W, o, k : W = Values(heap') /\ o = DocOpen /\ k = heap'
  OBVIOUS
<1>8. o = Rows(heap, V, stack)
  BY <1>1, <1>7, Mapped
<1>9. NULL \notin Finished \cup Scalar
  BY HeapAssumption DEF Finished
<1>10. /\ \A i \in 1 .. n - 1 : Row(k, W, AfterAdd[i], Inner(stack, i)) = o[i]
       /\ Row(k, W, AfterAdd[n], NULL) =
            [kind |-> heap[t].kind, key |-> NULL,
             items |-> Doc!With(o[n].items, o[n].key, Part(W, NULL, x))]
       /\ o[n].kind = heap[t].kind
       /\ \A c \in Finished : W[c] = V[c]
  BY <1>0, <1>1, <1>3, <1>5, <1>6, <1>7, <1>8, <1>9, AttachMapped
<1>11. PICK v : v = IF x \in Cont THEN Val[x] ELSE x
  OBVIOUS
<1>12. Part(W, NULL, x) = v
  <2>1. Val = V
    BY <1>1 DEF Val, Values, Value
  <2>2. x # NULL /\ (x \in Cont => x \in Finished)
    BY <1>9, HeapAssumption
  <2> QED BY <1>10, <1>11, <2>1, <2>2 DEF Part
<1>13. /\ DOMAIN o = 1 .. n /\ o = [i \in 1 .. n |-> o[i]]
  BY <1>1, <1>7, DocShape
<1>14. StoredIn(o, v) = StoredAt(n, o, v)
  <2>1. Rowed(n, o)
    BY <1>13 DEF Rowed
  <2> QED BY <1>2, <2>1, StoredIs
<1>15. DocOpen' = Rows(k, W, AfterAdd)
  BY <1>7, Mapped
<1>16. Rows(k, W, AfterAdd) = [i \in 1 .. n |-> Row(k, W, AfterAdd[i], Inner(AfterAdd, i))]
  BY <1>2 DEF Rows
<1>17. ASSUME NEW i \in 1 .. n
       PROVE  Row(k, W, AfterAdd[i], Inner(AfterAdd, i)) = StoredIn(o, v)[i]
  <2>1. CASE i = n
    <3>1. Inner(AfterAdd, i) = NULL
      BY <1>2, <2>1 DEF Inner
    <3> QED BY <1>10, <1>12, <1>14, <2>1, <3>1 DEF StoredAt
  <2>2. CASE i # n
    <3>1. Inner(AfterAdd, i) = Inner(stack, i)
      BY <1>1, <1>2, <2>2 DEF Inner
    <3> QED BY <1>2, <1>10, <1>14, <2>2, <3>1 DEF StoredAt
  <2> QED BY <2>1, <2>2
<1>18. DocOpen' = StoredIn(o, v)
  BY <1>14, <1>15, <1>16, <1>17 DEF StoredAt
<1>19. DocDone' = DocDone /\ DocGot' = DocGot
  BY <1>1, <1>7, <1>10, AnswersKept
<1>20. Doc!Add(v)
  BY <1>7, <1>18, <1>19, DocReady, DocStored DEF Doc!Add, DocOpen, DocDone, DocGot
<1>21. KindsFit'
  BY <1>0, <1>2, <1>4, <1>7, OpenType, KindsAdded DEF DocInv, KindsFit, Open
<1>22. GotKept'
  <2>1. Open' = Open
    BY <1>2 DEF Open
  <2>2. \A d \in Cont : Fresh(heap', d) <=> Fresh(heap, d)
    BY <1>4 DEF Fresh
  <2> QED BY <2>1, <2>2 DEF DocInv, GotKept, Finished
<1> QED BY <1>6, <1>11, <1>20, <1>21, <1>22

(* Beginning the outermost container.                                      *)
LEMMA DocBeginFirst ==
  ASSUME DocInv, NEW k \in {"object", "array"}, NEW c \in Cont, Begin(k, c), stack = <<>>
  PROVE  Doc!Begin(k) /\ (Grounded(heap) /\ KindsFit /\ GotKept)'
<1>1. PICK f : f = [cont |-> c, mode |-> IF k = "object" THEN "OBJECT" ELSE "ARRAY",
                    name |-> NULL]
  OBVIOUS
<1>2. /\ Fresh(heap, c) /\ root = NULL
      /\ heap' = Alloc(heap, c, k, 1) /\ stack' = <<f>>
      /\ root' = root /\ got' = got
  BY <1>1 DEF Begin
<1>3. IInv /\ TypeOK /\ heap \in Heaps /\ Grounded(heap)
  BY NowFacts DEF DocInv, IInv
<1>4. heap[c].items = <<>> /\ c \notin Finished
  BY <1>2, <1>3 DEF IInv, FreshUnused, Finished
<1>5. /\ \A d \in Cont : d # c => heap'[d] = heap[d]
      /\ heap'[c].kind = k /\ heap'[c].items = <<>>
  BY <1>2, <1>3, AllocEffect
<1>6. Grounded(heap')
  BY <1>3, <1>4, <1>5, GroundedSame
<1>7. \A d \in Finished : Values(heap')[d] = Values(heap)[d]
  BY <1>2, <1>5, <1>6, Undisturbed
<1>8. DocDone' = DocDone /\ DocGot' = DocGot /\ DocDone = NULL
  BY <1>2, <1>7, AnswersKept, Mapped
<1>9. PICK W, h : W = Values(heap') /\ h = heap'
  OBVIOUS
<1>10. DocOpen' = Rows(h, W, <<f>>)
  BY <1>2, <1>9, Mapped
<1>11. PICK r : r = [kind |-> k, key |-> NULL, items |-> <<>>]
  OBVIOUS
<1>12. Row(h, W, f, NULL) = r
  <2>1. DOMAIN h[c].items = {}
    BY <1>5, <1>9
  <2>2. Shown(W, h[c].items, NULL) = <<>>
    BY <2>1 DEF Shown
  <2> QED BY <1>1, <1>5, <1>9, <1>11, <2>2 DEF Row
<1>13. Rows(h, W, <<f>>) = <<r>>
  <2>1. DOMAIN <<f>> = {1} /\ <<f>>[1] = f /\ Inner(<<f>>, 1) = NULL
    BY DEF Inner
  <2>2. Rows(h, W, <<f>>) = [i \in {1} |-> r]
    BY <1>12, <2>1 DEF Rows
  <2>3. <<r>> = [i \in {1} |-> r]
    OBVIOUS
  <2> QED BY <2>2, <2>3
<1>14. DocOpen = <<>> /\ DocOpen' = Append(<<>>, r)
  BY <1>10, <1>13, DocShape
<1>15. Doc!Begin(k)
  BY <1>8, <1>11, <1>14 DEF Doc!Begin, DocOpen, DocDone, DocGot
<1>16. KindsFit'
  <2>1. DOMAIN stack' = {1} /\ stack'[1] = f
    BY <1>2
  <2> QED BY <1>1, <1>5, <2>1 DEF KindsFit
<1>17. GotKept'
  <2>1. Open' = {c}
    BY <1>1, <1>2 DEF Open
  <2>2. \A d \in Finished : d \in Cont /\ ~ Fresh(heap', d) /\ d \notin Open'
    BY <1>4, <1>5, <2>1 DEF Finished, Fresh
  <2> QED BY <1>2, <2>2 DEF DocInv, GotKept, Finished
<1> QED BY <1>6, <1>15, <1>16, <1>17

(* Beginning one inside: the parent, which has the new container already,  *)
(* has a hole.                                                             *)
LEMMA DocBeginNested ==
  ASSUME DocInv, NEW k \in {"object", "array"}, NEW c \in Cont, Begin(k, c), stack # <<>>
  PROVE  Doc!Begin(k) /\ (Grounded(heap) /\ KindsFit /\ GotKept)'
<1>1. PICK f : f = [cont |-> c, mode |-> IF k = "object" THEN "OBJECT" ELSE "ARRAY",
                    name |-> NULL]
  OBVIOUS
<1>2. PICK g : g = Alloc(heap, c, k, 2)
  OBVIOUS
<1>3. /\ Fresh(heap, c) /\ root = NULL /\ ValidAddMode
      /\ heap' = Attached(g, c) /\ stack' = Append(AfterAdd, f)
      /\ root' = root /\ got' = got
  BY <1>1, <1>2 DEF Begin
<1>4. IInv /\ TypeOK /\ heap \in Heaps /\ Grounded(heap)
  BY NowFacts DEF DocInv, IInv
<1>5. /\ heap[c].items = <<>> /\ c \notin Finished /\ c \notin Open
      /\ \A d \in Cont : c \notin Children(heap, d)
  BY <1>3, <1>4 DEF IInv, FreshUnused, Finished
<1>6. /\ g \in Heaps /\ \A d \in Cont : d # c => g[d] = heap[d]
      /\ g[c].kind = k /\ g[c].items = <<>>
  <2>1. Alloc(heap, c, k, 2) \in Heaps
    BY <1>4, AllocEffect
  <2>2. \A d \in Cont : d # c => Alloc(heap, c, k, 2)[d] = heap[d]
    BY <1>4 DEF Alloc, Heaps
  <2>3. Alloc(heap, c, k, 2)[c].kind = k /\ Alloc(heap, c, k, 2)[c].items = <<>>
    BY <1>4, AllocEffect
  <2> QED BY <1>2, <2>1, <2>2, <2>3
<1>7. PICK n, t, V : n = Len(stack) /\ t = Top.cont /\ V = Values(heap)
  OBVIOUS
<1>8. /\ n \in Nat \ {0} /\ DOMAIN stack = 1 .. n /\ t \in Cont /\ t \in Open /\ t # c
      /\ AfterAdd[n].cont = t /\ AfterAdd \in Seq(Frame)
      /\ \A i \in 1 .. n - 1 : AfterAdd[i] = stack[i]
      /\ DOMAIN AfterAdd = 1 .. n /\ Len(AfterAdd) = n
      /\ \A i \in 1 .. n : AfterAdd[i].cont = stack[i].cont
  BY <1>3, <1>4, <1>5, <1>7, AfterAddRows, TopFacts, AfterAddFacts
<1>9. c \in Item
  BY DEF Item
<1>10. /\ \A d \in Cont : /\ heap'[d].kind = g[d].kind
                          /\ d # t => heap'[d].items = heap[d].items
       /\ heap'[t].items = PutItem(heap[t].items, Top.name, c)
  <2>1. \A d \in Cont : g[d].items = heap[d].items
    BY <1>5, <1>6
  <2> QED BY <1>3, <1>4, <1>6, <1>7, <1>8, <1>9, <2>1, Attaching
<1>11. Attaches(heap', c)
  BY <1>3, <1>6, <1>7, <1>10 DEF Attaches
<1>12. Grounded(heap')
  <2>1. Children(heap', t) \subseteq Children(heap, t) \cup {c}
    <3>1. PICK p, q, m : p = heap'[t].items /\ q = heap[t].items /\ m = Top.name
      OBVIOUS
    <3>2. Top.name \in Name \cup {NULL}
      BY <1>3, <1>4, TopFacts DEF Frame, ValidAddMode
    <3>3. q \in Seq(Slot) /\ m \in Name \cup {NULL} /\ p = PutItem(q, m, c)
      BY <1>4, <1>8, <1>10, <3>1, <3>2 DEF TypeOK, Cell
    <3>4. \A i \in DOMAIN p : p[i].item = c \/ \E j \in DOMAIN q : p[i].item = q[j].item
      BY <1>9, <3>3, PutItemEffect
    <3> QED BY <3>1, <3>4 DEF Children
  <2>2. Downward(heap, {c})
    BY <1>5 DEF Downward, Children
  <2>3. \A d \in Cont : d # t => Children(heap', d) = Children(heap, d)
    BY <1>10 DEF Children
  <2> QED BY <1>4, <1>8, <2>1, <2>2, <2>3, GroundedMore
<1>13. PICK W, o, h : W = Values(heap') /\ o = DocOpen /\ h = heap'
  OBVIOUS
<1>14. o = Rows(heap, V, stack)
  BY <1>7, <1>13, Mapped
<1>15. c \notin Finished \cup Scalar
  BY <1>5, HeapAssumption
<1>16. /\ \A i \in 1 .. n - 1 : Row(h, W, AfterAdd[i], Inner(stack, i)) = o[i]
       /\ Row(h, W, AfterAdd[n], c) =
            [kind |-> heap[t].kind, key |-> NULL,
             items |-> Doc!With(o[n].items, o[n].key, Hole)]
       /\ o[n].kind = heap[t].kind
       /\ \A d \in Finished : W[d] = V[d]
  <2>1. Part(W, c, c) = Hole
    BY DEF Part
  <2> QED BY <1>3, <1>4, <1>7, <1>9, <1>11, <1>12, <1>13, <1>14, <1>15, <2>1, AttachMapped
<1>17. /\ DOMAIN o = 1 .. n /\ o = [i \in 1 .. n |-> o[i]] /\ o # <<>>
  BY <1>3, <1>7, <1>13, DocShape DEF ValidAddMode
<1>18. PICK u : u = StoredIn(o, Hole)
  OBVIOUS
<1>19. u = StoredAt(n, o, Hole)
  <2>1. Rowed(n, o)
    BY <1>17 DEF Rowed
  <2> QED BY <1>8, <1>18, <2>1, StoredIs
<1>20. PICK r : r = [kind |-> k, key |-> NULL, items |-> <<>>]
  OBVIOUS
<1>21. DOMAIN u = 1 .. n /\ u = [i \in 1 .. n |-> u[i]]
  BY <1>19 DEF StoredAt
<1>22. Append(u, r) = [i \in 1 .. n + 1 |-> IF i = n + 1 THEN r ELSE u[i]]
  BY <1>8, <1>21, AppendIs
<1>23. PICK s : s = stack'
  OBVIOUS
<1>24. /\ DOMAIN s = 1 .. n + 1 /\ Len(s) = n + 1
       /\ \A i \in 1 .. n : s[i] = AfterAdd[i]
       /\ s[n + 1] = f
  <2>1. f \in Frame
    BY <1>1 DEF Frame, Modes
  <2> QED BY <1>3, <1>8, <1>23, <2>1, PushFacts
<1>25. DocOpen' = [i \in 1 .. n + 1 |-> Row(h, W, s[i], Inner(s, i))]
  BY <1>13, <1>23, <1>24, Mapped DEF Rows
<1>26. ASSUME NEW i \in 1 .. n + 1
       PROVE  Row(h, W, s[i], Inner(s, i)) = IF i = n + 1 THEN r ELSE u[i]
  <2>1. CASE i = n + 1
    <3>1. Inner(s, i) = NULL /\ s[i] = f
      BY <1>8, <1>24, <2>1 DEF Inner
    <3>2. h[c].kind = k /\ h[c].items = <<>>
      BY <1>5, <1>6, <1>8, <1>10, <1>13
    <3>3. Shown(W, h[c].items, NULL) = <<>>
      <4>1. DOMAIN h[c].items = {}
        BY <3>2
      <4> QED BY <4>1 DEF Shown
    <3> QED BY <1>1, <1>20, <2>1, <3>1, <3>2, <3>3 DEF Row
  <2>2. CASE i = n
    <3>1. Inner(s, i) = c /\ s[i] = AfterAdd[n] /\ i # n + 1
      BY <1>1, <1>8, <1>24, <2>2 DEF Inner
    <3> QED BY <1>8, <1>16, <1>19, <2>2, <3>1 DEF StoredAt
  <2>3. CASE i # n /\ i # n + 1
    <3>1. i \in 1 .. n - 1 /\ i + 1 \in 1 .. n /\ i \in 1 .. n
      BY <1>8, <2>3
    <3>2. s[i] = AfterAdd[i] /\ s[i + 1].cont = stack[i + 1].cont
      BY <1>8, <1>24, <3>1
    <3>3. i < Len(s) /\ i < Len(stack)
      BY <1>7, <1>8, <1>24, <3>1
    <3>4. Inner(s, i) = Inner(stack, i)
      BY <3>2, <3>3 DEF Inner
    <3> QED BY <1>16, <1>19, <2>3, <3>1, <3>2, <3>4 DEF StoredAt
  <2> QED BY <2>1, <2>2, <2>3
<1>27. DocOpen' = Append(u, r)
  BY <1>22, <1>25, <1>26
<1>28. DocDone' = DocDone /\ DocGot' = DocGot /\ DocDone = NULL
  BY <1>3, <1>7, <1>13, <1>16, AnswersKept, Mapped
<1>29. Doc!Begin(k)
  BY <1>3, <1>13, <1>17, <1>18, <1>20, <1>27, <1>28, DocReady, DocStored
     DEF Doc!Begin, DocOpen, DocDone, DocGot
<1>30. KindsFit'
  <2>1. \A i \in 1 .. n : stack[i].cont \in Open /\ stack[i].cont \in Cont
    BY <1>4, <1>8, OpenType DEF Open
  <2>2. \A i \in 1 .. n : stack[i].cont # c
    BY <1>5, <2>1
  <2>3. \A i \in DOMAIN stack : h[stack[i].cont].kind = heap[stack[i].cont].kind
    BY <1>6, <1>8, <1>10, <1>13, <2>1, <2>2
  <2>4. \A i \in 1 .. n : h[AfterAdd[i].cont].kind =
                            IF AfterAdd[i].mode = "ARRAY" THEN "array" ELSE "object"
    BY <1>3, <1>4, <1>8, <2>3, KindsAdded DEF DocInv
  <2>5. \A i \in 1 .. n + 1 : h[s[i].cont].kind =
                            IF s[i].mode = "ARRAY" THEN "array" ELSE "object"
    BY <1>1, <1>6, <1>8, <1>10, <1>13, <1>24, <2>4
  <2> QED BY <1>13, <1>23, <1>24, <2>5 DEF KindsFit
<1>31. GotKept'
  <2>1. Open' = Open \cup {c}
    BY <1>1, <1>8, <1>23, <1>24 DEF Open
  <2>2. \A d \in Finished : d \in Cont /\ ~ Fresh(heap', d) /\ d \notin Open'
    BY <1>5, <1>6, <1>10, <2>1 DEF Finished, Fresh
  <2> QED BY <1>3, <2>2 DEF DocInv, GotKept, Finished
<1> QED BY <1>12, <1>29, <1>30, <1>31

(* The value of a container is what is shown of it with nothing open       *)
(* inside.                                                                 *)
LEMMA ValueShown ==
  ASSUME IInv, Grounded(heap), NEW c \in Cont
  PROVE  Values(heap)[c] =
           [kind |-> heap[c].kind, items |-> Shown(Values(heap), heap[c].items, NULL)]
<1>1. PICK V, items : V = Values(heap) /\ items = heap[c].items
  OBVIOUS
<1>2. V = [x \in Cont |-> Value(heap, V, x)]
  BY <1>1, Unfolded DEF Denotes
<1>3. V[c] = Value(heap, V, c)
  BY <1>2
<1>4. items \in Seq(Slot)
  BY <1>1 DEF IInv, TypeOK, Cell
<1>5. ASSUME NEW j \in DOMAIN items
      PROVE  [items[j] EXCEPT !.item = IF @ \in Cont THEN V[@] ELSE @]
             = [items[j] EXCEPT !.item = Part(V, NULL, @)]
  <2>1. items[j] \in Slot
    BY <1>4, LenProperties, ElementOfSeq
  <2>2. items[j].item # NULL
    BY <2>1, HeapAssumption DEF Slot, Item
  <2> QED BY <2>2 DEF Part
<1>6. Value(heap, V, c) =
        [kind |-> heap[c].kind,
         items |-> [j \in DOMAIN items |->
                      [items[j] EXCEPT !.item = IF @ \in Cont THEN V[@] ELSE @]]]
  BY <1>1 DEF Value
<1>7. [j \in DOMAIN items |-> [items[j] EXCEPT !.item = IF @ \in Cont THEN V[@] ELSE @]]
        = Shown(V, items, NULL)
  BY <1>5 DEF Shown
<1> QED BY <1>1, <1>3, <1>6, <1>7

(* JsonDocument's Filled.                                                  *)
HoleFilled(items, v) ==
  [i \in DOMAIN items |-> IF items[i].item = Hole THEN [items[i] EXCEPT !.item = v]
                          ELSE items[i]]

LEMMA FilledIs ==
  ASSUME NEW f, NEW v
  PROVE  Doc!Filled(f, v)
           = Append(Front(f), [Last(f) EXCEPT !.items = HoleFilled(@, v)])
BY DEF Doc!Filled, HoleFilled, Doc!Front, Doc!Last, Front, Last

(* Filling the hole with the value of the closed container gives what the  *)
(* parent holds in memory all along: the new container is the only item    *)
(* that is shown as a hole.                                                *)
LEMMA HoleClosed ==
  ASSUME DocInv, HoleApart, NEW i \in DOMAIN stack, Inner(stack, i) \in Cont
  PROVE  LET V == Values(heap)
             items == heap[stack[i].cont].items
             c == Inner(stack, i)
         IN  HoleFilled(Shown(V, items, c), V[c]) = Shown(V, items, NULL)
<1>1. PICK V, items, c : /\ V = Values(heap) /\ items = heap[stack[i].cont].items
                         /\ c = Inner(stack, i)
  OBVIOUS
<1>0. IInv /\ Grounded(heap)
  BY DEF DocInv
<1>2. c \in Cont
  BY <1>1
<1>3. PICK old : old = Shown(V, items, c)
  OBVIOUS
<1>4. DOMAIN old = DOMAIN items
  BY <1>3 DEF Shown
<1>5. \A x \in Cont : V[x] # Hole
  BY <1>0, <1>1, ValueShown DEF HoleApart
<1>6. ASSUME NEW j \in DOMAIN items
      PROVE  (IF old[j].item = Hole THEN [old[j] EXCEPT !.item = V[c]] ELSE old[j])
               = [items[j] EXCEPT !.item = Part(V, NULL, @)]
  <2>1. PICK s : s = items[j]
    OBVIOUS
  <2>2. s \in Slot /\ s.item # NULL
    BY <1>0, <1>1, <2>1, OpenParts, HeapAssumption DEF Slot, Item
  <2>3. old[j] = [s EXCEPT !.item = Part(V, c, s.item)]
    BY <1>3, <2>1 DEF Shown
  <2>4. old[j].item = Part(V, c, s.item)
    BY <2>2, <2>3 DEF Slot
  <2>5. CASE s.item = c
    <3>1. old[j].item = Hole
      BY <2>4, <2>5 DEF Part
    <3>2. Part(V, NULL, s.item) = V[c]
      BY <1>2, <2>2, <2>5 DEF Part
    <3>3. [old[j] EXCEPT !.item = V[c]] = [s EXCEPT !.item = V[c]]
      BY <2>2, <2>3 DEF Slot
    <3> QED BY <2>1, <3>1, <3>2, <3>3
  <2>6. CASE s.item # c
    <3>1. Part(V, c, s.item) = Part(V, NULL, s.item)
      BY <2>2, <2>6 DEF Part
    <3>2. Part(V, c, s.item) # Hole
      BY <1>5, <2>2, <2>6 DEF Part, HoleApart, Slot, Item
    <3> QED BY <2>1, <2>3, <2>4, <3>1, <3>2
  <2> QED BY <2>5, <2>6
<1>7. HoleFilled(old, V[c]) = Shown(V, items, NULL)
  BY <1>4, <1>6 DEF HoleFilled, Shown
<1> QED BY <1>1, <1>3, <1>7

(* A step that changes no kind and no items keeps the values.              *)
LEMMA QuietStep ==
  ASSUME DocInv, \A d \in Cont : heap'[d].kind = heap[d].kind /\ heap'[d].items = heap[d].items
  PROVE  /\ Grounded(heap') /\ Values(heap') = Values(heap)
         /\ root' = root => DocDone' = DocDone
         /\ got' = got => DocGot' = DocGot
         /\ stack' = stack => DocOpen' = DocOpen /\ KindsFit'
         /\ \A d \in Cont : Fresh(heap', d) <=> Fresh(heap, d)
         /\ Open' \subseteq Open /\ got' = got => GotKept'
<1>0. IInv /\ TypeOK
  BY DEF DocInv, IInv
<1>1. Grounded(heap')
  BY GroundedSame DEF DocInv
<1>2. Values(heap') = Values(heap)
  BY SameValues
<1>3. ASSUME stack' = stack PROVE DocOpen' = DocOpen /\ KindsFit'
  <2>1. \A i \in DOMAIN stack : stack[i].cont \in Cont
    BY <1>0, OpenType DEF Open
  <2>2. PICK h, s, V : h = heap' /\ s = stack /\ V = Values(heap)
    OBVIOUS
  <2>3. \A i \in DOMAIN s : Row(h, V, s[i], Inner(s, i)) = Row(heap, V, s[i], Inner(s, i))
    BY <2>1, <2>2 DEF Row
  <2>4. Rows(h, V, s) = Rows(heap, V, s)
    BY <2>3 DEF Rows
  <2>5. DocOpen' = DocOpen
    BY <1>2, <1>3, <2>2, <2>4, Mapped
  <2>6. KindsFit'
    BY <1>3, <2>1 DEF DocInv, KindsFit
  <2> QED BY <2>5, <2>6
<1>4. \A d \in Cont : Fresh(heap', d) <=> Fresh(heap, d)
  BY DEF Fresh
<1>5. ASSUME Open' \subseteq Open, got' = got PROVE GotKept'
  BY <1>4, <1>5 DEF DocInv, GotKept, Finished
<1> QED BY <1>1, <1>2, <1>3, <1>4, <1>5, Mapped

(* Closing seals and counts, and changes nothing else.                     *)
LEMMA EndQuiet ==
  ASSUME IInv, NEW mode, End(mode)
  PROVE  \A d \in Cont : heap'[d].kind = heap[d].kind /\ heap'[d].items = heap[d].items
<1>1. PICK c : c = Top.cont
  OBVIOUS
<1>2. PICK h : h = IF immutable THEN Seal(heap, c) ELSE heap
  OBVIOUS
<1>3. PICK g : g = IF Len(stack) = 1 THEN AddRef(h, c) ELSE h
  OBVIOUS
<1>4. heap' = Release(g, One(c))
  BY <1>1, <1>2, <1>3 DEF End, Ended, SealIfImmutable
<1>5. heap \in Heaps /\ c \in Cont
  BY <1>1, NowFacts, TopFacts DEF IInv, End
<1>6. h \in Heaps /\ \A d \in Cont : h[d].kind = heap[d].kind /\ h[d].items = heap[d].items
  BY <1>2, <1>5, SealEffect
<1>7. g \in Heaps /\ \A d \in Cont : g[d].kind = h[d].kind /\ g[d].items = h[d].items
  BY <1>3, <1>5, <1>6, AddRefEffect
<1> QED BY <1>4, <1>5, <1>6, <1>7, OneType, ReleaseEffect

(* Closing a container: it is in its parent already, or it is the root.    *)
LEMMA DocEnd ==
  ASSUME DocInv, HoleApart, NEW mode \in {"OBJECT", "ARRAY"}, End(mode)
  PROVE  /\ Doc!End(IF mode = "ARRAY" THEN "array" ELSE "object")
         /\ (Grounded(heap) /\ KindsFit /\ GotKept)'
<1>0. IInv /\ TypeOK /\ Grounded(heap)
  BY DEF DocInv, IInv
<1>1. PICK n, c, V, o, k : /\ n = Len(stack) /\ c = Top.cont /\ V = Values(heap)
                           /\ o = DocOpen
                           /\ k = IF mode = "ARRAY" THEN "array" ELSE "object"
  OBVIOUS
<1>2. /\ stack # <<>> /\ Top.mode = mode /\ stack' = Popped
      /\ root' = IF n = 1 THEN c ELSE root
      /\ got' = got
  BY <1>1 DEF End
<1>3. /\ n \in Nat /\ n > 0 /\ DOMAIN stack = 1 .. n /\ Top \in Frame /\ Top = stack[n]
      /\ c = stack[n].cont /\ c \in Cont
      /\ DOMAIN Popped = 1 .. n - 1 /\ Len(Popped) = n - 1
      /\ \A i \in 1 .. n - 1 : Popped[i] = stack[i]
  BY <1>0, <1>1, <1>2, TopFacts
<1>4. Top.name = NULL
  BY <1>2, <1>3 DEF Frame
<1>5. /\ DOMAIN o = 1 .. n /\ o = [i \in 1 .. n |-> o[i]]
      /\ o # <<>> /\ Len(o) = n /\ Last(o) = o[n]
      /\ Front(o) = [i \in 1 .. n - 1 |-> o[i]]
      /\ o[n].kind = k /\ o[n].kind = heap[c].kind /\ o[n].key = NULL
      /\ o[n].items = Shown(V, heap[c].items, NULL)
  BY <1>1, <1>2, <1>4, DocShape
<1>6. \A d \in Cont : heap'[d].kind = heap[d].kind /\ heap'[d].items = heap[d].items
  BY <1>0, EndQuiet
<1>7. PICK s, h : s = Popped /\ h = heap'
  OBVIOUS
<1>8. V[c] = [kind |-> k, items |-> o[n].items]
  BY <1>0, <1>1, <1>3, <1>5, ValueShown
<1>9. /\ Grounded(heap') /\ Values(heap') = V
      /\ root' = root => DocDone' = DocDone
      /\ DocGot' = DocGot
  BY <1>1, <1>2, <1>6, QuietStep
<1>10. DocOpen' = [i \in 1 .. n - 1 |-> Row(h, V, s[i], Inner(s, i))]
  BY <1>2, <1>3, <1>7, <1>9, Mapped DEF Rows
<1>11. \A i \in 1 .. n : o[i] = Row(heap, V, stack[i], Inner(stack, i))
  BY <1>0, <1>1, Mapped, RowsAre
<1>12. \A i \in 1 .. n - 1 : \A inner :
         Row(h, V, s[i], inner) = Row(heap, V, stack[i], inner)
  <2>1. \A i \in 1 .. n : stack[i].cont \in Cont
    BY <1>0, <1>3, OpenType DEF Open
  <2> QED BY <1>3, <1>6, <1>7, <2>1 DEF Row
<1>13. ASSUME n = 1 PROVE Doc!End(k)
  <2>1. DocOpen' = <<>>
    BY <1>10, <1>13
  <2>2. c # NULL /\ root' = c
    BY <1>2, <1>3, <1>13, HeapAssumption
  <2>3. DocDone' = V[c]
    BY <1>9, <2>2, Mapped
  <2> QED BY <1>1, <1>5, <1>8, <1>9, <1>13, <2>1, <2>3
             DEF Doc!End, Doc!Last, Last, DocOpen, DocDone, DocGot
<1>14. ASSUME n # 1 PROVE Doc!End(k)
  <2>1. PICK m : m = n - 1
    OBVIOUS
  <2>2. m \in Nat \ {0} /\ m + 1 = n /\ m \in 1 .. n - 1 /\ m \in 1 .. n
    BY <1>3, <1>14, <2>1
  <2>3. Inner(stack, m) = c
    BY <1>1, <1>3, <2>2 DEF Inner
  <2>4. PICK f, v : f = Front(o) /\ v = V[c]
    OBVIOUS
  <2>5. DOMAIN f = 1 .. m /\ f = [i \in 1 .. m |-> f[i]] /\ \A i \in 1 .. m : f[i] = o[i]
    BY <1>3, <1>5, <2>1, <2>2, <2>4
  <2>6. PICK r : r = [o[m] EXCEPT !.items = HoleFilled(@, v)]
    OBVIOUS
  <2>7. Last(f) = o[m] /\ Front(f) = [i \in 1 .. m - 1 |-> f[i]]
    <3>1. m \in Nat \ {0} /\ DOMAIN f = 1 .. m /\ f = [i \in 1 .. m |-> f[i]]
      BY <2>2, <2>5
    <3>2. Last(f) = f[m] /\ Front(f) = [i \in 1 .. m - 1 |-> f[i]]
      BY <3>1, FrontIs
    <3> QED BY <2>2, <2>5, <3>2
  <2>8. PICK e : e = Front(f)
    OBVIOUS
  <2>9. Doc!Filled(f, v) = Append(e, r)
    BY <2>6, <2>7, <2>8, FilledIs
  <2>10. PICK l \in Nat : l = m - 1 /\ l + 1 = m
    BY <2>2
  <2>11. Append(e, r) = [i \in 1 .. m |-> IF i = m THEN r ELSE e[i]]
    BY <2>7, <2>8, <2>10, AppendIs
  <2>12. Row(heap, V, stack[m], NULL) = r
    <3>1. PICK items : items = heap[stack[m].cont].items
      OBVIOUS
    <3>2. o[m] = [kind |-> heap[stack[m].cont].kind, key |-> stack[m].name,
                  items |-> Shown(V, items, c)]
      BY <1>11, <2>2, <2>3, <3>1 DEF Row
    <3>3. HoleFilled(Shown(V, items, c), v) = Shown(V, items, NULL)
      BY <1>1, <1>3, <2>2, <2>3, <2>4, <3>1, HoleClosed
    <3>4. r = [kind |-> heap[stack[m].cont].kind, key |-> stack[m].name,
               items |-> HoleFilled(Shown(V, items, c), v)]
      BY <2>6, <3>2
    <3> QED BY <3>1, <3>3, <3>4 DEF Row
  <2>13. ASSUME NEW i \in 1 .. m
         PROVE  Row(h, V, s[i], Inner(s, i)) = IF i = m THEN r ELSE e[i]
    <3>0. i \in 1 .. n - 1 /\ i \in 1 .. n
      BY <1>3, <2>1
    <3>1. CASE i = m
      <4>1. Inner(s, i) = NULL
        BY <1>3, <1>7, <2>1, <2>2, <3>1 DEF Inner
      <4> QED BY <1>12, <2>12, <3>0, <3>1, <4>1
    <3>2. CASE i # m
      <4>1. i \in 1 .. m - 1 /\ i + 1 \in 1 .. n - 1
        BY <1>3, <2>1, <2>2, <3>2
      <4>2. Inner(s, i) = Inner(stack, i)
        BY <1>1, <1>3, <1>7, <2>1, <3>0, <4>1 DEF Inner
      <4>3. e[i] = o[i]
        BY <2>5, <2>7, <2>8, <4>1
      <4> QED BY <1>11, <1>12, <3>0, <3>2, <4>2, <4>3
    <3> QED BY <3>1, <3>2
  <2>14. DocOpen' = Doc!Filled(f, v)
    BY <1>10, <2>1, <2>9, <2>11, <2>13
  <2>15. DocDone' = DocDone
    BY <1>2, <1>9, <1>14
  <2>16. v = [kind |-> k, items |-> o[n].items]
    BY <1>8, <2>4
  <2> QED BY <1>1, <1>5, <1>9, <1>14, <2>4, <2>14, <2>15, <2>16
             DEF Doc!End, Doc!Last, Doc!Front, Last, Front, DocOpen, DocDone, DocGot
<1>15. Open' \subseteq Open
  BY <1>2, <1>3 DEF Open
<1>16. GotKept'
  BY <1>2, <1>6, <1>15, QuietStep
<1>17. KindsFit'
  <2>1. \A i \in 1 .. n : stack[i].cont \in Cont
    BY <1>0, <1>3, OpenType DEF Open
  <2> QED BY <1>2, <1>3, <1>6, <2>1 DEF DocInv, KindsFit
<1> QED BY <1>1, <1>9, <1>13, <1>14, <1>16, <1>17

(* Naming a member.                                                        *)
LEMMA DocMember ==
  ASSUME DocInv, NEW a \in Name, SetMemberName(a)
  PROVE  Doc!Member(a) /\ (Grounded(heap) /\ KindsFit /\ GotKept)'
<1>0. IInv /\ TypeOK
  BY DEF DocInv, IInv
<1>1. PICK n, f, V, o, s : /\ n = Len(stack) /\ V = Values(heap) /\ o = DocOpen
                           /\ f = [cont |-> Top.cont, mode |-> "MEMBER", name |-> a]
                           /\ s = Append(Popped, f)
  OBVIOUS
<1>2. /\ stack # <<>> /\ Top.mode = "OBJECT" /\ stack' = s
      /\ heap' = heap /\ root' = root /\ got' = got
  BY <1>1 DEF SetMemberName
<1>3. /\ n \in Nat /\ n > 0 /\ DOMAIN stack = 1 .. n /\ Top \in Frame /\ Top = stack[n]
      /\ Popped \in Seq(Frame) /\ Len(Popped) = n - 1
      /\ \A i \in 1 .. n - 1 : Popped[i] = stack[i]
  BY <1>0, <1>1, <1>2, TopFacts
<1>4. Top.name = NULL /\ a # NULL
  BY <1>2, <1>3, HeapAssumption DEF Frame
<1>5. f \in Frame
  BY <1>1, <1>3, <1>4 DEF Frame, Modes
<1>6. /\ DOMAIN s = 1 .. n /\ Len(s) = n /\ s[n] = f
      /\ \A i \in 1 .. n - 1 : s[i] = stack[i]
  <2>1. n - 1 + 1 = n
    BY <1>3
  <2> QED BY <1>1, <1>3, <1>5, <2>1, PushFacts
<1>7. /\ DOMAIN o = 1 .. n /\ o = [i \in 1 .. n |-> o[i]]
      /\ o # <<>> /\ Len(o) = n /\ Last(o) = o[n]
      /\ o[n].kind = "object" /\ o[n].key = NULL
  BY <1>1, <1>2, <1>4, DocShape
<1>8. \A i \in 1 .. n : o[i] = Row(heap, V, stack[i], Inner(stack, i))
  BY <1>0, <1>1, Mapped, RowsAre
<1>9. DocOpen' = [i \in 1 .. n |-> Row(heap, V, s[i], Inner(s, i))]
  BY <1>1, <1>2, <1>6, Mapped DEF Rows
<1>10. \A i \in 1 .. n : s[i].cont = stack[i].cont
  BY <1>1, <1>3, <1>6
<1>11. \A i \in 1 .. n : Inner(s, i) = Inner(stack, i)
  BY <1>1, <1>3, <1>6, <1>10 DEF Inner
<1>12. ASSUME NEW i \in 1 .. n
       PROVE  Row(heap, V, s[i], Inner(s, i)) = [o EXCEPT ![n].key = a][i]
  <2>1. CASE i = n
    <3>1. [o EXCEPT ![n].key = a][i] = [o[n] EXCEPT !.key = a]
      BY <1>7, <2>1
    <3>2. s[i].name = a
      BY <1>1, <1>6, <2>1
    <3>3. PICK h, u, items : /\ h = heap[stack[i].cont].kind /\ u = stack[i].name
                             /\ items = Shown(V, heap[stack[i].cont].items, Inner(stack, i))
      OBVIOUS
    <3>4. o[n] = [kind |-> h, key |-> u, items |-> items]
      BY <1>8, <2>1, <3>3 DEF Row
    <3>5. Row(heap, V, s[i], Inner(s, i)) = [kind |-> h, key |-> a, items |-> items]
      BY <1>10, <1>11, <3>2, <3>3 DEF Row
    <3> QED BY <3>1, <3>4, <3>5
  <2>2. CASE i # n
    <3>1. s[i] = stack[i]
      BY <1>3, <1>6, <2>2
    <3> QED BY <1>7, <1>8, <1>11, <2>2, <3>1
  <2> QED BY <2>1, <2>2
<1>13. DocOpen' = [o EXCEPT ![n].key = a]
  BY <1>7, <1>9, <1>12
<1>14. DocDone' = DocDone /\ DocGot' = DocGot /\ Grounded(heap')
  BY <1>2, QuietStep
<1>15. Doc!Member(a)
  BY <1>1, <1>7, <1>13, <1>14 DEF Doc!Member, Doc!Last, Last, DocOpen, DocDone, DocGot
<1>16. KindsFit'
  <2>1. \A i \in 1 .. n : s[i].mode = "ARRAY" <=> stack[i].mode = "ARRAY"
    BY <1>1, <1>2, <1>3, <1>6
  <2> QED BY <1>2, <1>3, <1>6, <1>10, <2>1 DEF DocInv, KindsFit
<1>17. GotKept'
  <2>1. Open' = Open
    BY <1>2, <1>3, <1>6, <1>10 DEF Open
  <2> QED BY <1>2, <2>1, QuietStep
<1> QED BY <1>14, <1>15, <1>16, <1>17

(* Returning the root, and starting over.                                  *)
LEMMA DocGetRoot ==
  ASSUME DocInv, GetRoot
  PROVE  Doc!GetRoot /\ (Grounded(heap) /\ KindsFit /\ GotKept)'
<1>0. IInv /\ heap \in Heaps
  BY NowFacts DEF DocInv
<1>1. stack' = stack /\ root' = root /\ got' = root
  BY DEF GetRoot, Return
<1>2. \A d \in Cont : heap'[d].kind = heap[d].kind /\ heap'[d].items = heap[d].items
  <2>1. CASE root = NULL
    BY <2>1 DEF GetRoot, Return
  <2>2. CASE root # NULL
    BY <1>0, <2>2, AddRefEffect DEF GetRoot, Return, IInv, TypeOK
  <2> QED BY <2>1, <2>2
<1>3. /\ Grounded(heap') /\ Values(heap') = Values(heap) /\ DocDone' = DocDone
      /\ DocOpen' = DocOpen /\ KindsFit'
      /\ \A d \in Cont : Fresh(heap', d) <=> Fresh(heap, d)
  BY <1>1, <1>2, QuietStep
<1>4. DocGot' = DocDone
  BY <1>1, <1>3, Mapped
<1>5. GotKept'
  <2>1. root # NULL => root \in Finished
    BY <1>0, RootFinished
  <2>2. Open' = Open
    BY <1>1 DEF Open
  <2> QED BY <1>1, <1>3, <2>1, <2>2, HeapAssumption DEF GotKept, Finished
<1> QED BY <1>3, <1>4, <1>5 DEF Doc!GetRoot, DocOpen, DocDone, DocGot

LEMMA DocReset ==
  ASSUME DocInv, Reset
  PROVE  Doc!Reset /\ (Grounded(heap) /\ KindsFit /\ GotKept)'
<1>0. IInv /\ TypeOK /\ heap \in Heaps
  BY NowFacts DEF DocInv, IInv
<1>1. PICK drop : drop = [c \in Cont |->
                            Cardinality({i \in DOMAIN stack : stack[i].cont = c})
                            + IF root = c THEN 1 ELSE 0]
  OBVIOUS
<1>2. /\ heap' = Release(heap, drop) /\ stack' = <<>> /\ root' = NULL /\ got' = got
  BY <1>1 DEF Reset
<1>3. drop \in [Cont -> Nat]
  BY <1>0, <1>1, ResetDropType
<1>4. \A d \in Cont : heap'[d].kind = heap[d].kind /\ heap'[d].items = heap[d].items
  BY <1>0, <1>2, <1>3, ReleaseEffect
<1>5. Open' = {} /\ DOMAIN stack' = {}
  BY <1>2 DEF Open
<1>6. Grounded(heap') /\ DocGot' = DocGot /\ GotKept'
  BY <1>2, <1>4, <1>5, QuietStep
<1>7. DocOpen' = <<>>
  BY <1>5, Mapped DEF Rows
<1>8. DocDone' = NULL
  BY <1>2, Mapped
<1>9. KindsFit'
  BY <1>5 DEF KindsFit
<1> QED BY <1>6, <1>7, <1>8, <1>9 DEF Doc!Reset, DocOpen, DocDone, DocGot

(* The client's own calls change no document.                              *)
LEMMA DocClientNew ==
  ASSUME DocInv, NEW c \in Cont, NEW items \in ClientItems, ClientNew(c, "array", items)
  PROVE  Doc!Client /\ (Grounded(heap) /\ KindsFit /\ GotKept)'
<1>0. IInv /\ TypeOK /\ heap \in Heaps /\ Grounded(heap)
  BY NowFacts DEF DocInv, IInv
<1>1. PICK h : h = Alloc(heap, c, "array", 1)
  OBVIOUS
<1>2. /\ Fresh(heap, c)
      /\ heap' = [h EXCEPT ![c].items = items]
      /\ \A i \in DOMAIN items : items[i].item \in Cont => handed[items[i].item] > 0
      /\ stack' = stack /\ root' = root /\ got' = got
  BY <1>1 DEF ClientNew
<1>3. h = [heap EXCEPT ![c] = [kind |-> "array", items |-> <<>>,
                               refs |-> 1, sealed |-> FALSE]]
  BY <1>1 DEF Alloc
<1>4. /\ \A d \in Cont : d # c => heap'[d] = heap[d]
      /\ heap'[c].items = items
  BY <1>0, <1>2, <1>3 DEF Heaps
<1>5. \A d \in Cont : ~ Fresh(heap, d) =>
        heap'[d].kind = heap[d].kind /\ heap'[d].items = heap[d].items
  BY <1>2, <1>4
<1>6. Grounded(heap')
  <2>1. Children(heap', c) \subseteq Finished
    BY <1>0, <1>2, <1>4, NowFacts DEF Children, Finished
  <2>2. \A d \in Cont : d # c => Children(heap', d) = Children(heap, d)
    BY <1>4 DEF Children
  <2>3. c \notin Finished
    BY <1>2 DEF Finished
  <2> QED BY <1>0, <2>1, <2>2, <2>3, FinishedDown, GroundedMore
<1>7. PICK W, k, s : W = Values(heap') /\ k = heap' /\ s = stack
  OBVIOUS
<1>8. /\ \A d \in Finished : W[d] = Values(heap)[d]
      /\ \A i \in DOMAIN s : Row(k, W, s[i], Inner(s, i)) = DocOpen[i]
  BY <1>5, <1>6, <1>7, Undisturbed
<1>9. DocOpen' = DocOpen
  <2>1. DocOpen' = [i \in DOMAIN s |-> Row(k, W, s[i], Inner(s, i))]
    BY <1>2, <1>7, Mapped DEF Rows
  <2>2. DocOpen = [i \in DOMAIN s |-> DocOpen[i]]
    BY <1>7, DocShape
  <2> QED BY <1>8, <2>1, <2>2
<1>10. DocDone' = DocDone /\ DocGot' = DocGot
  BY <1>2, <1>7, <1>8, AnswersKept
<1>11. KindsFit'
  <2>1. \A i \in DOMAIN stack : stack[i].cont \in Open /\ stack[i].cont \in Cont
    BY <1>0, OpenType DEF Open
  <2>2. \A i \in DOMAIN stack : ~ Fresh(heap, stack[i].cont)
    BY <1>0, <2>1 DEF IInv, FreshUnused
  <2> QED BY <1>2, <1>5, <2>1, <2>2 DEF DocInv, KindsFit
<1>12. GotKept'
  <2>1. Open' = Open
    BY <1>2 DEF Open
  <2>2. \A d \in Finished : ~ Fresh(heap', d)
    BY <1>5 DEF Finished, Fresh
  <2> QED BY <1>2, <2>1, <2>2 DEF DocInv, GotKept, Finished
<1> QED BY <1>6, <1>9, <1>10, <1>11, <1>12 DEF Doc!Client, DocOpen, DocDone, DocGot

LEMMA DocQuietClient ==
  ASSUME DocInv, stack' = stack, root' = root, got' = got,
         \A d \in Cont : heap'[d].kind = heap[d].kind /\ heap'[d].items = heap[d].items
  PROVE  Doc!Client /\ (Grounded(heap) /\ KindsFit /\ GotKept)'
<1>1. Open' = Open
  BY DEF Open
<1> QED BY <1>1, QuietStep DEF Doc!Client, DocOpen, DocDone, DocGot

(* Every step of the builder is one of JsonDocument.                       *)
LEMMA DocStep ==
  ASSUME DocInv, HoleApart, [Next]_vars
  PROVE  Doc!Next /\ DocInv'
<1>0. IInv /\ heap \in Heaps /\ IInv'
  BY NowFacts, NextInv DEF DocInv
<1> DEFINE Goal == Doc!Next /\ (Grounded(heap) /\ KindsFit /\ GotKept)'
<1> SUFFICES Goal
  BY <1>0 DEF DocInv
<1>1. CASE UNCHANGED vars
  <2>1. heap' = heap /\ stack' = stack /\ root' = root /\ got' = got
    BY <1>1 DEF vars
  <2> QED BY <2>1, DocQuietClient DEF Doc!Next
<1>2. ASSUME NEW c \in Cont, BeginObject(c) \/ BeginArray(c) PROVE Goal
  <2>1. PICK k \in {"object", "array"} : Begin(k, c)
    BY <1>2 DEF BeginObject, BeginArray
  <2>2. Doc!Begin(k) /\ (Grounded(heap) /\ KindsFit /\ GotKept)'
    BY <2>1, DocBeginFirst, DocBeginNested
  <2> QED BY <2>2 DEF Doc!Next
<1>3. ASSUME NEW c \in Cont, AddValue(c) PROVE Goal
  <2>1. PICK h : h = IF immutable THEN Seal(heap, c) ELSE heap
    OBVIOUS
  <2>2. /\ ValidAddMode /\ handed[c] > 0 /\ heap' = Attached(h, c) /\ stack' = AfterAdd
        /\ root' = root /\ got' = got
    BY <1>3, <2>1 DEF AddValue, SealIfImmutable
  <2>3. h \in Heaps /\ \A d \in Cont : h[d].kind = heap[d].kind /\ h[d].items = heap[d].items
    BY <1>0, <2>1, SealEffect
  <2>4. c \in Finished
    BY <1>0, <2>2, NowFacts DEF Finished
  <2>5. Doc!Add(Val[c]) /\ (Grounded(heap) /\ KindsFit /\ GotKept)'
    BY <2>2, <2>3, <2>4, DocAdd
  <2>6. Val[c] \in {Val[d] : d \in {e \in Cont : handed[e] > 0}}
    BY <2>2
  <2> QED BY <2>5, <2>6 DEF Doc!Next
<1>4. ASSUME NEW s \in Scalar, AddScalar(s) PROVE Goal
  <2>1. Doc!Add(s) /\ (Grounded(heap) /\ KindsFit /\ GotKept)'
    <3>1. /\ ValidAddMode /\ heap' = Attached(heap, s) /\ stack' = AfterAdd
          /\ root' = root /\ got' = got
      BY <1>4 DEF AddScalar
    <3>2. s \notin Cont
      BY HeapAssumption
    <3> QED BY <1>0, <3>1, <3>2, DocAdd
  <2> QED BY <2>1 DEF Doc!Next
<1>5. CASE EndObject \/ EndArray
  <2>1. PICK mode \in {"OBJECT", "ARRAY"} : End(mode)
    BY <1>5 DEF EndObject, EndArray
  <2>2. PICK k \in {"object", "array"} : k = IF mode = "ARRAY" THEN "array" ELSE "object"
    OBVIOUS
  <2>3. Doc!End(k) /\ (Grounded(heap) /\ KindsFit /\ GotKept)'
    BY <2>1, <2>2, DocEnd
  <2> QED BY <2>3 DEF Doc!Next
<1>6. CASE GetRoot
  BY <1>6, DocGetRoot DEF Doc!Next
<1>7. CASE Reset
  BY <1>7, DocReset DEF Doc!Next
<1>8. ASSUME NEW a \in Name, SetMemberName(a) PROVE Goal
  BY <1>8, DocMember DEF Doc!Next
<1>9. ASSUME NEW c \in Cont, ClientUnref(c) PROVE Goal
  BY <1>0, <1>9, OneType, ReleaseEffect, DocQuietClient DEF ClientUnref, Doc!Next
<1>10. ASSUME NEW c \in Cont, ClientSeal(c) PROVE Goal
  BY <1>0, <1>10, SealEffect, DocQuietClient DEF ClientSeal, Doc!Next
<1>11. ASSUME NEW c \in Cont, NEW items \in ClientItems, ClientNew(c, "array", items)
       PROVE  Goal
  BY <1>11, DocClientNew DEF Doc!Next
<1> HIDE DEF Goal
<1> QED
  BY <1>1, <1>2, <1>3, <1>4, <1>5, <1>6, <1>7, <1>8, <1>9, <1>10, <1>11 DEF Next

LEMMA DocInit == Init => DocInv /\ Doc!Init
<1> SUFFICES ASSUME Init PROVE DocInv /\ Doc!Init
  OBVIOUS
<1>1. /\ IInv /\ heap = NewHeap /\ stack = <<>> /\ root = NULL /\ got = NULL
      /\ DOMAIN stack = {}
  BY InitInv DEF Init
<1>2. \A d \in Cont : Children(heap, d) = {}
  BY <1>1 DEF NewHeap, Children
<1>3. Grounded(heap)
  BY <1>2 DEF Grounded
<1>4. KindsFit /\ GotKept
  BY <1>1, HeapAssumption DEF KindsFit, GotKept
<1>5. [i \in DOMAIN stack |-> OpenVal(i)] = <<>>
  BY <1>1
<1>6. {Val[c] : c \in {d \in Cont : handed[d] > 0}} = {}
  BY DEF Init
<1> QED BY <1>1, <1>3, <1>4, <1>5, <1>6 DEF DocInv, Doc!Init

(* The builder implements JsonDocument, whatever the client shares, seals  *)
(* and releases meanwhile: begun containers, which are linked in empty and *)
(* filled through the stack, are the values they are closed with; what     *)
(* get_root returns is the value the calls spell, and stays it.            *)
THEOREM ImplementsDocument == ASSUME HoleApart PROVE Spec => Document
<1>1. Init => DocInv /\ Doc!Init
  BY DocInit
<1>2. DocInv /\ [Next]_vars => DocInv'
  BY DocStep
<1>3. DocInv /\ [Next]_vars => [Doc!Next]_(Doc!vars)
  BY DocStep
<1>4. Document <=> Doc!Init /\ [][Doc!Next]_(Doc!vars)
  BY DEF Document, Doc!Spec
<1> QED BY <1>1, <1>2, <1>3, <1>4, PTL DEF Spec
=============================================================================
