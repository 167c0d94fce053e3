------------------------------ MODULE JsonNode ------------------------------
(***************************************************************************)
(* JsonNode (json-glib/json-node.c) and what nodes point to.  A node is    *)
(* reference counted, and owns a reference on its data: a JsonObject or a  *)
(* JsonArray (a container, here), or a JsonValue that holds a scalar.  A   *)
(* container owns a reference on each of its nodes.  Data is shared: two   *)
(* nodes hold the same container after json_node_set_object and            *)
(* json_node_copy, and the same JsonValue after json_node_copy.            *)
(*                                                                         *)
(* The three kinds of allocation live in one heap, with the reference      *)
(* counting and the sealing walk of JsonHeap.  A call whose precondition   *)
(* fails does nothing: it is a step that is not enabled.                   *)
(***************************************************************************)
EXTENDS Integers, Sequences, FiniteSets, TLC

CONSTANTS
  Node, Container, Value,   \* the identifiers of each kind of allocation
  Datum,                    \* what a scalar can be, with its type
  Zero,                     \* a scalar of a type just set (json_value_init)
  NULL,
  MaxItems,                 \* bound on the nodes of a container
  MaxHeld                   \* bound on the client's references to one thing

VARIABLES
  heap,    \* every node, container and value
  held     \* references the client holds

vars == <<heap, held>>

Id == Node \cup Container \cup Value

ASSUME NodeAssumption ==
  /\ IsFiniteSet(Id)
  /\ Node \cap Container = {} /\ Node \cap Value = {} /\ Container \cap Value = {}
  /\ NULL \notin Id
  /\ MaxItems \in Nat \ {0}

NodeType == {"CONTAINER", "VALUE", "NULL"}    \* OBJECT and ARRAY are treated alike
Cell == [kind : NodeType \cup {"none", "container", "value"},
         items : Seq([name : {NULL}, item : Id]),
         refs : Nat, sealed : BOOLEAN, datum : Datum \cup {Zero, NULL}]

H == INSTANCE JsonHeap WITH Cont <- Id, Name <- {}, Scalar <- {}

(* data.object, data.array or data.value; NULL when nothing has been set.  *)
Data(n) == IF heap[n].items = <<>> THEN NULL ELSE heap[n].items[1].item
Holding(x) == IF x = NULL THEN <<>> ELSE <<[name |-> NULL, item |-> x]>>

Unused == [kind |-> "none", items |-> <<>>, refs |-> 0,
           sealed |-> FALSE, datum |-> NULL]

(* What dies is freed, and its memory may be allocated again.              *)
Release(h, drop) ==
  LET r == H!Release(h, drop)
  IN  [x \in Id |-> IF r[x].refs = 0 THEN Unused ELSE r[x]]

Live(x) == heap[x].refs > 0
Below(x) == H!Reach(heap, x)

TypeOK ==
  /\ heap \in [Id -> Cell]
  /\ held \in [Id -> Nat]
  /\ \A n \in Node : Live(n) =>
       /\ heap[n].kind \in NodeType /\ Len(heap[n].items) <= 1
       /\ Data(n) # NULL => CASE heap[n].kind = "CONTAINER" -> Data(n) \in Container
                              [] heap[n].kind = "VALUE"     -> Data(n) \in Value
                              [] heap[n].kind = "NULL"      -> FALSE

Init ==
  /\ heap = [x \in Id |-> Unused]
  /\ held = [x \in Id |-> 0]

-----------------------------------------------------------------------------

Alloc(h, x, kind) ==
  [h EXCEPT ![x] = [kind |-> kind, items |-> <<>>, refs |-> 1,
                    sealed |-> FALSE, datum |-> NULL]]

Gain(x) == held' = [held EXCEPT ![x] = @ + 1]
Lose(x) == held' = [held EXCEPT ![x] = @ - 1]

(* n lets go of its data, as json_node_unset does.                         *)
Dropped(h, n) ==
  LET old == {h[n].items[i].item : i \in DOMAIN h[n].items}
  IN  Release([h EXCEPT ![n].items = <<>>],
                [x \in Id |-> IF x \in old THEN 1 ELSE 0])

(* json_node_alloc, json_node_new *)
NodeNew(n, type) ==
  /\ heap[n].kind = "none"
  /\ heap' = Alloc(heap, n, type)
  /\ Gain(n)

(* json_node_init does not ask whether the node is immutable.              *)
NodeInit(n, type) ==
  /\ held[n] > 0 /\ heap[n].refs = 1
  /\ heap' = [Dropped(heap, n) EXCEPT ![n].kind = type]
  /\ UNCHANGED held

(* json_node_copy: every kind of data is shared, scalars included.         *)
CopyUnref(n, m) ==    \* mutant: the copy has no reference of its own
  /\ held[n] > 0 /\ heap[m].kind = "none"
  /\ heap' = [Alloc(heap, m, heap[n].kind) EXCEPT
                ![m].items = heap[n].items, ![m].sealed = heap[n].sealed]
  /\ Gain(m)

NodeCopy(n, m) ==
  /\ held[n] > 0 /\ heap[m].kind = "none"
  /\ LET new == [Alloc(heap, m, heap[n].kind) EXCEPT
                   ![m].items = heap[n].items, ![m].sealed = heap[n].sealed]
     IN  heap' = IF Data(n) = NULL THEN new ELSE H!AddRef(new, Data(n))
  /\ Gain(m)

(* json_node_ref, json_object_ref, json_array_ref.  With no cycles what is *)
(* alive is held by the client or lies below something it holds, so the    *)
(* client can come by any of it.                                           *)
Ref(x) ==
  /\ Live(x) /\ x \notin Value /\ held[x] < MaxHeld
  /\ heap' = H!AddRef(heap, x)
  /\ Gain(x)

Unref(x) ==
  /\ held[x] > 0
  /\ heap' = Release(heap, H!One(x))
  /\ Lose(x)

(* No container ends up inside itself.                                     *)
NoCycle(n, c) == n \notin Below(c)

(* json_node_set_object, json_node_set_array: the old data goes first.     *)
SetContainer(n, c) ==
  /\ held[n] > 0 /\ heap[n].kind = "CONTAINER" /\ ~ heap[n].sealed
  /\ held[c] > 0 /\ NoCycle(n, c)
  /\ heap' = H!AddRef([Dropped(heap, n) EXCEPT ![n].items = Holding(c)], c)
  /\ UNCHANGED held

(* json_node_take_object, json_node_take_array: the client's reference     *)
(* becomes the node's.                                                     *)
TakeContainer(n, c) ==
  /\ held[n] > 0 /\ heap[n].kind = "CONTAINER" /\ ~ heap[n].sealed
  /\ held[c] > 0 /\ NoCycle(n, c)
  /\ heap' = [Dropped(heap, n) EXCEPT ![n].items = Holding(c)]
  /\ Lose(c)

(* json_value_init, which resets the value whether it is immutable or not, *)
(* and json_value_set_*, which refuses an immutable one.                   *)
ValueSet(h, v, d) ==
  [h EXCEPT ![v].datum = IF h[v].sealed THEN Zero ELSE d]

(* json_node_set_int, json_node_set_double, json_node_set_boolean,         *)
(* json_node_set_string, json_node_set_value: the JsonValue the node has   *)
(* is overwritten in place.                                                *)
SetScalar(n, d) ==
  /\ held[n] > 0 /\ heap[n].kind = "VALUE" /\ ~ heap[n].sealed
  /\ IF Data(n) # NULL
     THEN heap' = ValueSet(heap, Data(n), d)
     ELSE \E v \in Value :
            /\ heap[v].kind = "none"
            /\ heap' = ValueSet([Alloc(heap, v, "value") EXCEPT
                                   ![n].items = Holding(v)], v, d)
  /\ UNCHANGED held

(* "In order to be sealed, the node must have a type and value set": a     *)
(* node that holds nothing is refused, and left mutable inside a sealed    *)
(* container, so the client seals only what is complete.                   *)
Complete(x) ==
  \A n \in Below(x) \cap Node : heap[n].kind \in {"CONTAINER", "VALUE"} => Data(n) # NULL

SealTop(h, x) ==    \* mutant: json_object_seal does not propagate to members
  [h EXCEPT ![x].sealed = TRUE]

(* json_node_seal, json_object_seal, json_array_seal, json_value_seal *)
Sealed(h, x) == H!Seal(h, x)

Seal(x) ==
  /\ held[x] > 0 /\ ~ heap[x].sealed /\ Complete(x)
  /\ heap' = Sealed(heap, x)
  /\ UNCHANGED held

(* json_object_new, json_array_new *)
ContainerNew(c) ==
  /\ heap[c].kind = "none"
  /\ heap' = Alloc(heap, c, "container")
  /\ Gain(c)

(* json_array_add_element, json_object_set_member of a new name; neither   *)
(* asks whether the container is immutable, so it is the client who does.  *)
AddNode(c, n) ==
  /\ held[c] > 0 /\ held[n] > 0
  /\ ~ heap[c].sealed /\ NoCycle(c, n)
  /\ Len(heap[c].items) < MaxItems
  /\ heap' = [heap EXCEPT ![c].items = Append(@, [name |-> NULL, item |-> n])]
  /\ Lose(n)

(* json_array_remove_element, json_object_remove_member *)
RemoveNode(c, i) ==
  /\ held[c] > 0 /\ ~ heap[c].sealed
  /\ i \in DOMAIN heap[c].items
  /\ heap' = Release([heap EXCEPT ![c].items = SubSeq(@, 1, i - 1)
                                                 \o SubSeq(@, i + 1, Len(@))],
                       H!One(heap[c].items[i].item))
  /\ UNCHANGED held

Next ==
  \/ \E n \in Node :
       \/ \E t \in NodeType : NodeNew(n, t) \/ NodeInit(n, t)
       \/ \E m \in Node : NodeCopy(n, m)
       \/ \E c \in Container : SetContainer(n, c) \/ TakeContainer(n, c) \/ AddNode(c, n)
       \/ \E d \in Datum : SetScalar(n, d)
  \/ \E c \in Container : ContainerNew(c) \/ \E i \in 1 .. MaxItems : RemoveNode(c, i)
  \/ \E x \in Id : Ref(x) \/ Unref(x) \/ Seal(x)

Spec == Init /\ [][Next]_vars

-----------------------------------------------------------------------------

(* All is of its type, and every reference count is the number of the holders there are: the       *)
(* client's references and the pointers of the nodes and containers that   *)
(* are alive, through copies, replaced data, and the cascade an unref      *)
(* starts.                                                                 *)
RefsExact ==
  /\ TypeOK
  /\ \A x \in Id : heap[x].refs = held[x] + H!Edges(heap, {y \in Id : Live(y)}, x)

(* Sealed means sealed all the way down, whatever the client did to the    *)
(* nodes, or to copies of them, before or after; a sealed node can be      *)
(* emptied by json_node_init, but nothing mutable gets into it.            *)
SealedDown ==
  \A x \in Id : Live(x) /\ heap[x].sealed =>
    \A y \in H!Children(heap, x) : heap[y].sealed

(* "Seals the value, making it immutable to further changes."              *)
(* (json-value.c:176)                                                      *)
SealedValue ==
  [][\A v \in Value : Live(v) /\ heap[v].sealed =>
       heap'[v].refs = 0 \/ heap'[v].datum = heap[v].datum]_vars
=============================================================================
