----------------------------- MODULE JsonCompare -----------------------------
(***************************************************************************)
(* Equality and hashes of nodes, arrays and objects (json-glib/            *)
(* json-node.c, json-value.c, json-array.c, json-object.c).  Sealing a     *)
(* container keeps its hash; it is not computed again.                     *)
(*                                                                         *)
(* A node is a pair of its type and its value, which for an array or an    *)
(* object is the container's number; a container holds ones of a higher    *)
(* number.  A hash is the set of the words whose XOR it is.                *)
(***************************************************************************)
EXTENDS Integers, FiniteSets, SequencesExt

CONSTANTS
  MaxContainer,  \* how many
  Names,
  Values,        \* the nodes that hold no container
  MaxItems       \* bound on the items of a container

Container == 1 .. MaxContainer
Scalar == {"boolean", "string", "int", "double"}

ASSUME CompareAssumption ==
  /\ MaxContainer \in Nat
  /\ \A x \in Values : x # <<"null">> => x[1] \in Scalar /\ x = <<x[1], x[2]>>

VARIABLES
  kind,            \* of each container, "array" or "object"
  items,           \* elements: nodes; members, in order: <<name, node>>
  immutable,
  immutable_hash

containers == <<kind, items, immutable, immutable_hash>>

CompareInit ==
  /\ kind \in [Container -> {"array", "object"}]
  /\ items = [c \in Container |-> <<>>]
  /\ immutable = [c \in Container |-> FALSE]
  /\ immutable_hash = [c \in Container |-> {}]

Xor(h, k) == (h \ k) \cup (k \ h)
HoldsContainer(x) == x[1] \in {"array", "object"}

-----------------------------------------------------------------------------
(* Hashes. *)

(* The words that an odd number of hashes has. *)
XorAll(hashes) ==
  {w \in UNION {hashes[i] : i \in DOMAIN hashes} :
     Cardinality({i \in DOMAIN hashes : w \in hashes[i]}) % 2 = 1}

(* json_value_hash, a word of its own for each type and value              *)
ValueHash(x) == {<<"value", x[1], x[2]>>}

HashInOrder(i, n, h) == Xor({<<"name", i, n>>}, h)    \* mutant: the order counts
MemberHash(i, n, h) == Xor({<<"name", n>>}, h)
ElementHash(i, h) == Xor(IF i = 1 THEN {} ELSE {<<"index", i>>}, h)

(* json_node_hash, hash being that of each container                       *)
NodeHash(x, hash) ==
  CASE x[1] = "null" -> {}
    [] HoldsContainer(x) -> Xor({<<"type", x[1]>>}, hash[x[2]])
    [] OTHER -> Xor({<<"type", "value">>}, ValueHash(x))

(* The loops of json_array_hash and json_object_hash.                      *)
ItemHash(c, i, hash) ==
  IF kind[c] = "array" THEN ElementHash(i, NodeHash(items[c][i], hash))
  ELSE MemberHash(i, items[c][i][1], NodeHash(items[c][i][2], hash))
HashFrom(c, hash) == XorAll([i \in DOMAIN items[c] |-> ItemHash(c, i, hash)])

(* What they return; and what they would without the hashes that are kept. *)
ContainerHash ==
  LET hash[c \in Container] == IF immutable[c] THEN immutable_hash[c] ELSE HashFrom(c, hash)
  IN  hash
ComputedHash ==
  LET hash[c \in Container] == HashFrom(c, hash) IN hash

Hash(c) == NodeHash(<<kind[c], c>>, ContainerHash)

-----------------------------------------------------------------------------
(* Equality: json_node_equal, json_array_equal, json_object_equal.         *)

Child(item, c) == IF kind[c] = "array" THEN item ELSE item[2]
NamesOf(c) == {items[c][i][1] : i \in DOMAIN items[c]}
MemberOf(c, n) == items[c][CHOOSE i \in DOMAIN items[c] : items[c][i][1] = n][2]

Number == {"int", "double"}

(* json_type_is_a, either way: an int goes for a double.                   *)
Comparable(x, y) == x[1] = y[1] \/ {x[1], y[1]} = Number

(* json_node_equal, equal being that of containers                        *)
EqualNodes(x, y, equal) ==
  /\ Comparable(x, y)
  /\ CASE x[1] = "null" -> TRUE
       [] HoldsContainer(x) -> equal[x[2]][y[2]]
       [] OTHER -> x[2] = y[2]

EqualItems(c, d, equal) ==
  /\ Len(items[c]) = Len(items[d])
  /\ IF kind[c] = "array"
     THEN \A i \in DOMAIN items[c] : EqualNodes(items[c][i], items[d][i], equal)
     ELSE /\ NamesOf(c) \subseteq NamesOf(d)
          /\ \A n \in NamesOf(c) : EqualNodes(MemberOf(c, n), MemberOf(d, n), equal)

(* Of two arrays, or two objects; the same one is equal to itself.         *)
Equals ==
  LET equal[c \in Container] == [d \in Container |-> c = d \/ EqualItems(c, d, equal)]
  IN  equal

Equal(x, y) == EqualNodes(x, y, Equals)

-----------------------------------------------------------------------------
(* The client, who leaves an immutable container as it is: no function     *)
(* that changes one asks.                                                  *)

Change(c, A) == ~ immutable[c] /\ A /\ UNCHANGED <<kind, immutable, immutable_hash>>
Items(c, s) == items' = [items EXCEPT ![c] = s]

(* json_array_add_element, which the adders of each type end in            *)
AddElement(c, x) ==
  Change(c, kind[c] = "array" /\ Len(items[c]) < MaxItems /\ Items(c, Append(items[c], x)))

(* json_array_remove_element *)
RemoveElement(c, i) ==
  Change(c, kind[c] = "array" /\ i \in DOMAIN items[c] /\ Items(c, RemoveAt(items[c], i)))

(* json_object_set_member and the setters of each type                     *)
StoreMember(c, n, x) ==
  Change(c,
    /\ kind[c] = "object"
    /\ IF n \in NamesOf(c)
       THEN Items(c, [i \in DOMAIN items[c] |-> IF items[c][i][1] = n THEN <<n, x>> ELSE items[c][i]])
       ELSE Len(items[c]) < MaxItems /\ Items(c, Append(items[c], <<n, x>>)))

(* The containers in a container. *)
Held(c) ==
  {d \in Container : \E i \in DOMAIN items[c] : Child(items[c][i], c) = <<kind[d], d>>}

(* Those that json_node_seal comes to and that are not sealed yet.         *)
Reached ==
  LET reached[c \in Container] ==
        IF immutable[c] THEN {} ELSE {c} \cup UNION {reached[d] : d \in Held(c)}
  IN  reached

HashWhenSealed(c) == immutable_hash[c]    \* mutant: immutable is set before the hash is computed
SealHash(c) == ContainerHash[c]

(* json_array_seal and json_object_seal: the children first, then the hash *)
SealContainer(c) ==
  /\ ~ immutable[c]
  /\ immutable' = [d \in Container |-> immutable[d] \/ d \in Reached[c]]
  /\ immutable_hash' = [d \in Container |-> IF d \in Reached[c] THEN SealHash(d) ELSE immutable_hash[d]]
  /\ UNCHANGED <<kind, items>>

(* Everything is released, and the next containers are new ones.           *)
ReleaseAll ==
  /\ items' = [c \in Container |-> <<>>]
  /\ immutable' = [c \in Container |-> FALSE]
  /\ immutable_hash' = [c \in Container |-> {}]
  /\ UNCHANGED kind

NodeFor(c) == Values \cup {<<kind[d], d>> : d \in {e \in Container : e > c}}

CompareNext ==
  \/ \E c \in Container :
       \/ \E x \in NodeFor(c) : AddElement(c, x) \/ \E n \in Names : StoreMember(c, n, x)
       \/ \E i \in 1 .. MaxItems : RemoveElement(c, i)
       \/ SealContainer(c)
  \/ ReleaseAll

CompareSpec == CompareInit /\ [][CompareNext]_containers

-----------------------------------------------------------------------------

(* The tree that a node is the root of, given that of each container: its  *)
(* elements in order, its members in none.                                 *)
NodeTree(x, tree) == IF HoldsContainer(x) THEN <<x[1], tree[x[2]]>> ELSE x
Tree ==
  LET tree[c \in Container] ==
        LET Under(i) == NodeTree(Child(items[c][i], c), tree)
        IN  IF kind[c] = "array" THEN [i \in DOMAIN items[c] |-> Under(i)]
            ELSE {<<items[c][i][1], Under(i)>> : i \in DOMAIN items[c]}
  IN  tree

(* The types of the scalars in it. *)
NodeTypes(x, types) == IF HoldsContainer(x) THEN types[x[2]] ELSE {x[1]}
Types ==
  LET types[c \in Container] ==
        UNION {NodeTypes(Child(items[c][i], c), types) : i \in DOMAIN items[c]}
  IN  types

(* Containers of the same tree are equal and have the same hash, sealed or *)
(* not, in whatever order the members were added; and containers that are  *)
(* equal are of the same tree, unless ints are compared with doubles,      *)
(* which are equal and hash differently.                                   *)
EqualHash ==
  \A c, d \in Container :
    LET x == <<kind[c], c>>
        y == <<kind[d], d>>
    IN  /\ NodeTree(x, Tree) = NodeTree(y, Tree) => Equal(x, y) /\ Hash(c) = Hash(d)
        /\ Equal(x, y) => \/ NodeTree(x, Tree) = NodeTree(y, Tree)
                          \/ Number \subseteq Types[c] \cup Types[d]

(* The hash that an immutable container keeps is that of what it holds,    *)
(* all the way down, whatever its client does with the containers that     *)
(* are not immutable.                                                      *)
CacheFresh ==
  \A c \in Container : immutable[c] => immutable_hash[c] = ComputedHash[c]
=============================================================================
