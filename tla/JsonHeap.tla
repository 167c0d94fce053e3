------------------------------ MODULE JsonHeap ------------------------------
(***************************************************************************)
(* The containers a JSON tree is made of, as json-glib keeps them in       *)
(* memory: JsonObject and JsonArray instances that are reference counted,  *)
(* hold their JsonNodes in order, and can be sealed.                       *)
(*                                                                         *)
(* A heap is a function from container identifiers to cells.  An           *)
(* identifier names one allocation and is never used again after it has    *)
(* been freed, so that "freed but still pointed at" is a visible state:    *)
(* an allocated cell (kind # "none") whose reference count is 0.           *)
(*                                                                         *)
(* A JsonNode that only wraps a container or a scalar inside its parent is *)
(* merged with the slot that owns it; JsonNode instances with an identity  *)
(* of their own are the subject of module JsonNode.                        *)
(***************************************************************************)
EXTENDS Integers, Sequences, FiniteSets

CONSTANTS
  Cont,      \* identifiers of JsonObject and JsonArray instances
  Name,      \* member names
  Scalar,    \* integers, doubles, booleans, strings, null: told apart only
  NULL,      \* the NULL pointer
  MaxItems   \* bound on the slots of a container

ASSUME HeapAssumption ==
  /\ IsFiniteSet(Cont)
  /\ MaxItems \in Nat \ {0}
  /\ NULL \notin Cont \cup Name \cup Scalar
  /\ Scalar \cap Cont = {}

Item == Scalar \cup Cont
Slot == [name : Name \cup {NULL}, item : Item]
Cell == [kind : {"none", "object", "array"}, items : Seq(Slot),
         refs : Nat, sealed : BOOLEAN]

NewHeap == [c \in Cont |-> [kind |-> "none", items |-> <<>>,
                            refs |-> 0, sealed |-> FALSE]]

Fresh(h, c) == h[c].kind = "none"
Live(h) == {c \in Cont : h[c].refs > 0}
Children(h, c) == {h[c].items[i].item : i \in DOMAIN h[c].items} \cap Cont

(* json_object_new, json_array_new: an empty, mutable container. *)
Alloc(h, c, k, n) ==
  [h EXCEPT ![c] = [kind |-> k, items |-> <<>>, refs |-> n, sealed |-> FALSE]]

AddRef(h, c) == [h EXCEPT ![c].refs = @ + 1]

-----------------------------------------------------------------------------
(* Reference counting: *_unref and the cascade it starts.  Releasing drops *)
(* drop[c] references to every c at once; a container dies when all its    *)
(* references are dropped or held by slots of dying containers.  The dying *)
(* containers are the least set closed under that rule.                    *)

NoDrop == [c \in Cont |-> 0]
One(c) == [NoDrop EXCEPT ![c] = 1]

(* How many slots of the containers T hold c. *)
Edges(h, T, c) ==
  Cardinality({e \in T \X (1 .. MaxItems) :
                 /\ e[2] \in DOMAIN h[e[1]].items
                 /\ h[e[1]].items[e[2]].item = c})

Dies(h, drop, T, c) == h[c].refs <= drop[c] + Edges(h, T, c)

Dead(h, drop) ==
  LET L == Live(h)
  IN  {c \in L : \A T \in SUBSET L :
         (\A x \in L : Dies(h, drop, T, x) => x \in T) => c \in T}

Release(h, drop) ==
  LET D == Dead(h, drop) IN
  [c \in Cont |->
     [h[c] EXCEPT !.refs = IF c \notin Live(h) \/ c \in D THEN 0
                           ELSE @ - (drop[c] + Edges(h, D, c))]]

-----------------------------------------------------------------------------
(* json_object_seal, json_array_seal: seals c and, through json_node_seal, *)
(* whatever its nodes hold; a container that is already immutable is not   *)
(* entered.  SealSet is the least set closed under that walk.              *)

SealSetShallow(h, c) == {c}    \* mutant: members are not sealed
SealSet(h, c) ==
  {d \in Cont : \A T \in SUBSET Cont :
     (/\ c \in T
      /\ \A x \in T : h[x].sealed \/ Children(h, x) \subseteq T) => d \in T}

Seal(h, c) ==
  [d \in Cont |-> [h[d] EXCEPT !.sealed = @ \/ d \in SealSet(h, c)]]

(* Everything reachable from c, c included. *)
Reach(h, c) ==
  {d \in Cont : \A T \in SUBSET Cont :
     (c \in T /\ \A x \in T : Children(h, x) \subseteq T) => d \in T}

-----------------------------------------------------------------------------
(* object_set_member_internal and json_array_add_element: an array (no     *)
(* name) appends; an object replaces the member of that name where it      *)
(* stands in members_ordered, or appends a new one.                        *)

SameName(items, n) == {i \in DOMAIN items : n # NULL /\ items[i].name = n}

PutItemLast(items, n, x) ==    \* mutant: never looks for the old member
  Append(items, [name |-> n, item |-> x])
PutItem(items, n, x) ==
  IF SameName(items, n) = {}
  THEN Append(items, [name |-> n, item |-> x])
  ELSE [i \in DOMAIN items |->
          IF i \in SameName(items, n) THEN [name |-> n, item |-> x] ELSE items[i]]

(* Storing x also frees the node it displaces, which gives up its          *)
(* reference to the container that node held.                              *)
Store(h, c, n, x) ==
  LET old == {h[c].items[i].item : i \in SameName(h[c].items, n)} \cap Cont
  IN  Release([h EXCEPT ![c].items = PutItem(@, n, x)],
              [d \in Cont |-> IF d \in old THEN 1 ELSE 0])
=============================================================================
