----------------------------- MODULE JsonObject -----------------------------
(***************************************************************************)
(* The members of a JsonObject (json-glib/json-object.c), which are kept   *)
(* twice: in a hash table from names to nodes, which owns a copy of each   *)
(* name, and in a queue, in order of insertion, whose links point at the   *)
(* same copies.  Replacing a member replaces the copy too, and the queue   *)
(* has to follow.                                                          *)
(*                                                                         *)
(* Ordered iterators and json_object_foreach_member walk the links of the  *)
(* queue, while their client changes the object.                           *)
(***************************************************************************)
EXTENDS Integers, FiniteSets, SequencesExt

CONSTANTS
  Name, Node,
  Key,        \* the addresses g_strdup can return
  Link,       \* and those of the queue's links
  NULL,
  MaxAge      \* bound on the members ever added

ASSUME ObjectAssumption ==
  /\ NULL \notin Name \cup Node \cup Key \cup Link
  /\ MaxAge \in Nat

VARIABLES
  text,      \* the name copied to an address; NULL where it has been freed
  table,     \* object->members: the node stored under the copy at an address
  queue,     \* object->members_ordered
  age,       \* object->age
  walk,      \* a JsonObjectIter, or the foreach that is running
  visited    \* history: the names the walk has come to

object == <<text, table, queue, age>>
vars == <<object, walk, visited>>

Walk == [kind : {"none", "iter", "foreach"}, at : {"start", "inside", "end"},
         cur : Link \cup {NULL}, age : Nat]
NoWalk == [kind |-> "none", at |-> "end", cur |-> NULL, age |-> 0]

TypeOK ==
  /\ text \in [Key -> Name \cup {NULL}]
  /\ table \in [Key -> Node \cup {NULL}]
  /\ queue \in Seq([link : Link, key : Key])
  /\ age \in 0 .. MaxAge
  /\ walk \in Walk /\ (walk.at = "inside" <=> walk.cur # NULL)
  /\ visited \in Seq(Name)

Init ==
  /\ text = [k \in Key |-> NULL] /\ table = [k \in Key |-> NULL]
  /\ queue = <<>> /\ age = 0
  /\ walk = NoWalk /\ visited = <<>>

-----------------------------------------------------------------------------

(* The key under which the hash table finds n: it compares strings.        *)
Found(n) == {k \in Key : table[k] # NULL /\ text[k] = n}
Lookup(n) == IF Found(n) = {} THEN NULL ELSE table[CHOOSE k \in Found(n) : TRUE]

NameAt(i) == text[queue[i].key]
Places(n) == {i \in DOMAIN queue : NameAt(i) = n}
FirstPlace(n) == Min(Places(n))

(* A callback of json_object_foreach_member may change the value of a      *)
(* member, but neither add nor remove one.                                 *)
MayReshape == walk.kind # "foreach"
InCallback == walk.kind = "foreach" => walk.at = "inside"

(* object_set_member_internal, with k the new copy of the name.            *)
AppendedUncounted(n, k) ==    \* mutant: object->age forgotten
  /\ MayReshape
  /\ \E l \in Link :
       /\ \A i \in DOMAIN queue : queue[i].link # l
       /\ queue' = Append(queue, [link |-> l, key |-> k])
  /\ UNCHANGED age

Appended(n, k) ==
  /\ MayReshape /\ age < MaxAge
  /\ \E l \in Link :
       /\ \A i \in DOMAIN queue : queue[i].link # l
       /\ queue' = Append(queue, [link |-> l, key |-> k])
  /\ age' = age + 1

RekeyedLast(n, k) ==    \* mutant: the member moves to the end
  /\ queue' = Append(RemoveAt(queue, FirstPlace(n)),
                     [link |-> queue[FirstPlace(n)].link, key |-> k])
  /\ UNCHANGED age
Rekeyed(n, k) ==
  /\ queue' = IF Places(n) = {} THEN queue ELSE [queue EXCEPT ![FirstPlace(n)].key = k]
  /\ UNCHANGED age

SetInternal(n, v) ==
  \E k \in Key :
    /\ text[k] = NULL
    /\ IF Found(n) = {} THEN Appended(n, k) ELSE Rekeyed(n, k)
    /\ text' = [x \in Key |-> IF x = k THEN n ELSE IF x \in Found(n) THEN NULL ELSE text[x]]
    /\ table' = [x \in Key |-> IF x = k THEN v ELSE IF x \in Found(n) THEN NULL ELSE table[x]]
    /\ UNCHANGED <<walk, visited>>

(* json_object_add_member: only a new name.                                *)
AddMember(n, v) == InCallback /\ Lookup(n) = NULL /\ SetInternal(n, v)

(* json_object_set_member: not the node that is there already.             *)
SetMember(n, v) == InCallback /\ Lookup(n) # v /\ SetInternal(n, v)

(* json_object_set_int_member and the like, with a node of their own.      *)
SetValueMember(n, v) == InCallback /\ SetInternal(n, v)

RemoveFromTable(n) ==    \* mutant: the queue keeps the name
  /\ MayReshape /\ Found(n) # {}
  /\ text' = [k \in Key |-> IF k \in Found(n) THEN NULL ELSE text[k]]
  /\ table' = [k \in Key |-> IF k \in Found(n) THEN NULL ELSE table[k]]
  /\ UNCHANGED <<queue, age, walk, visited>>

(* json_object_remove_member leaves the age alone.                         *)
RemoveMember(n) ==
  /\ MayReshape /\ Found(n) # {}
  /\ queue' = IF Places(n) = {} THEN queue ELSE RemoveAt(queue, FirstPlace(n))
  /\ text' = [k \in Key |-> IF k \in Found(n) THEN NULL ELSE text[k]]
  /\ table' = [k \in Key |-> IF k \in Found(n) THEN NULL ELSE table[k]]
  /\ UNCHANGED <<age, walk, visited>>

(* The last json_object_unref; the address may be that of a new object.    *)
Unref ==
  /\ walk.kind = "none"
  /\ text' = [k \in Key |-> NULL] /\ table' = [k \in Key |-> NULL]
  /\ queue' = <<>> /\ age' = 0
  /\ UNCHANGED <<walk, visited>>

-----------------------------------------------------------------------------
(* Walking the members. *)

Position == {i \in DOMAIN queue : queue[i].link = walk.cur}

(* json_object_iter_init_ordered, the start of json_object_foreach_member  *)
StartWalk(kind) ==
  /\ walk.kind # "foreach"
  /\ walk' = [kind |-> kind, at |-> "start", cur |-> NULL, age |-> age]
  /\ visited' = <<>>
  /\ UNCHANGED object

(* One call of json_object_iter_next_ordered, one turn of the loop of      *)
(* json_object_foreach_member.  An iterator is refused if a member has     *)
(* been added (foreach asserts that none was).  That the link it is on has *)
(* been removed it cannot tell, and the client must not call it then.      *)
Advance ==
  /\ walk.kind # "none" /\ walk.at # "end"
  /\ walk.age = age
  /\ walk.at = "start" \/ Position # {}
  /\ LET i == 1 + (IF walk.at = "start" THEN 0 ELSE Min(Position))
     IN  IF i \in DOMAIN queue
         THEN /\ walk' = [walk EXCEPT !.at = "inside", !.cur = queue[i].link]
              /\ visited' = Append(visited, NameAt(i))
         ELSE /\ walk' = [walk EXCEPT !.at = "end", !.cur = NULL]
              /\ UNCHANGED visited
  /\ UNCHANGED object

(* The iterator is given up, the foreach returns.                          *)
EndWalk ==
  /\ walk.kind = "iter" \/ (walk.kind = "foreach" /\ walk.at = "end")
  /\ walk' = NoWalk /\ visited' = <<>>
  /\ UNCHANGED object

Next ==
  \/ \E n \in Name : \/ \E v \in Node : \/ AddMember(n, v) \/ SetMember(n, v)
                                        \/ SetValueMember(n, v)
                     \/ RemoveMember(n)
  \/ Unref
  \/ \E kind \in {"iter", "foreach"} : StartWalk(kind)
  \/ Advance \/ EndWalk

Spec == Init /\ [][Next]_vars

-----------------------------------------------------------------------------

(* All is of its type, and the queue and the hash table agree: the links point at exactly the      *)
(* copies the table owns, each once, every copy that is used is allocated, *)
(* and every allocated copy is used; no name is there twice.               *)
KeysAgree ==
  /\ TypeOK
  /\ {queue[i].key : i \in DOMAIN queue} = {k \in Key : table[k] # NULL}
  /\ \A i, j \in DOMAIN queue : NameAt(i) = NameAt(j) => i = j
  /\ \A k \in Key : table[k] # NULL <=> text[k] # NULL

(* A walk that is not refused comes to every member once, in order: of the *)
(* members there are, it has come to those up to where it is and to no     *)
(* other, in the order of their places, whatever has been replaced, and    *)
(* removed, behind it or ahead.                                            *)
Reached == CASE walk.at = "start"  -> 0
             [] walk.at = "inside" -> Min(Position)
             [] walk.at = "end"    -> Len(queue)
Visited(i) == \E v \in DOMAIN visited : visited[v] = NameAt(i)
InOrder ==
  walk.kind # "none" /\ walk.age = age /\ (walk.at = "inside" => Position # {}) =>
    /\ \A i \in DOMAIN queue : Visited(i) <=> i <= Reached
    /\ \A v, w \in DOMAIN visited : \A i, j \in DOMAIN queue :
         v < w /\ visited[v] = NameAt(i) /\ visited[w] = NameAt(j) => i < j

(* "insertion order" (json-object.c:966-967): what json_object_get_members and *)
(* json_object_get_values return is an ordered dictionary's.               *)
Dictionary ==
  INSTANCE JsonMembers WITH
    members <- [i \in DOMAIN queue |-> [name |-> NameAt(i), node |-> Lookup(NameAt(i))]]

Ordered == Dictionary!Spec
=============================================================================
