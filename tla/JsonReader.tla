----------------------------- MODULE JsonReader -----------------------------
(***************************************************************************)
(* JsonReader (json-glib/json-reader.c): a cursor over a tree of JsonNodes *)
(* that somebody else built and owns.  json_reader_read_* enters a         *)
(* container, json_reader_end_* goes back.  The reader keeps two nodes,    *)
(* current_node and previous_node, and finds its way back through the      *)
(* parent that each node records, if whoever built the tree recorded it:   *)
(* JsonParser does, JsonBuilder and the other constructors do not.         *)
(*                                                                         *)
(* The reader copies the root it is given, and only the root: the nodes    *)
(* below it are shared, and their parent remains the original.             *)
(*                                                                         *)
(* While an error is set, read_* and get_* return at once: no step here.   *)
(***************************************************************************)
EXTENDS Integers, SequencesExt

CONSTANTS
  Node,        \* the nodes of the tree
  Name,        \* member names
  Kind,        \* what each node holds
  Kids,        \* its elements or members, in order
  Parent,      \* json_node_get_parent of each node, or NULL
  Copy,        \* the reader's copy of its root node
  NULL,
  MaxMembers   \* bound on priv->members

Containers == {"object", "array"}
Kinds == Containers \cup {"string", "number", "null"}
Errors == {"NO_ARRAY", "INVALID_INDEX", "NO_OBJECT", "INVALID_MEMBER",
           "INVALID_NODE", "NO_VALUE", "INVALID_TYPE"}

ASSUME ReaderAssumption ==
  /\ Kind \in [Node -> Kinds]
  /\ Kids \in [Node -> Seq([name : Name \cup {NULL}, node : Node])]
  /\ Parent \in [Node -> Node \cup {NULL}]
  /\ NULL \notin Node \cup Name
  /\ Copy \notin Node \cup {NULL}
  /\ MaxMembers \in Nat
  /\ \A n \in Node : \A i \in DOMAIN Kids[n] :
       Kind[n] = IF Kids[n][i].name = NULL THEN "array" ELSE "object"

(* What the parser makes sure of, and nobody else.                         *)
Linked == \A n \in Node : \A i \in DOMAIN Kids[n] : Parent[Kids[n][i].node] = n

VARIABLES
  source,      \* the node priv->root is a copy of, or NULL
  current,     \* priv->current_node
  previous,    \* priv->previous_node
  members,     \* priv->members
  error,       \* the code of priv->error, or NULL
  trail        \* history: the nodes entered and not left, the root first, with
               \* the innermost member name and the length of members at each

vars == <<source, current, previous, members, error, trail>>

Step == [node : Node, name : Name \cup {NULL}, mark : Nat]

TypeOK ==
  /\ source \in Node \cup {NULL}
  /\ current \in Node \cup {Copy, NULL}
  /\ previous \in Node \cup {Copy, NULL}
  /\ members \in Seq(Name)
  /\ error \in Errors \cup {NULL}
  /\ trail \in Seq(Step)

Init ==
  /\ source = NULL /\ current = NULL /\ previous = NULL
  /\ members = <<>> /\ error = NULL /\ trail = <<>>

-----------------------------------------------------------------------------

(* A copy shares the contents of the node and has no parent.               *)
Original(n) == IF n = Copy THEN source ELSE n
ParentOf(n) == IF n \in {Copy, NULL} THEN NULL ELSE Parent[n]

(* JSON_NODE_HOLDS; NULL holds nothing (json_node_get_node_type answers    *)
(* JSON_NODE_NULL, with a critical).                                       *)
KindOf(n) == IF n = NULL THEN "null" ELSE Kind[Original(n)]
KidsOf(n) == Kids[Original(n)]

Root == IF source = NULL THEN NULL ELSE Copy
RootStep(r) == [node |-> r, name |-> NULL, mark |-> Len(members)]

(* The node a read starts from: the root again, if an end_* too many has   *)
(* left it.                                                                *)
Here == IF current = NULL THEN Root ELSE current
TrailHere == IF current = NULL /\ source # NULL THEN <<RootStep(source)>> ELSE trail

Fail(e) == error' = e /\ UNCHANGED <<source, current, previous, members, trail>>

FailHere(e) ==
  /\ error' = e
  /\ current' = Here
  /\ trail' = TrailHere
  /\ UNCHANGED <<source, previous, members>>

EnterPushing(kid) ==    \* mutant: pushes a name for an element too
  /\ previous' = Here
  /\ current' = kid.node
  /\ members' = Append(members, kid.name)
  /\ trail' = Append(TrailHere,
                [node |-> kid.node, name |-> kid.name, mark |-> Len(members')])
  /\ UNCHANGED <<source, error>>
Enter(kid) ==
  /\ previous' = Here
  /\ current' = kid.node
  /\ members' = IF kid.name = NULL THEN members ELSE Append(members, kid.name)
  /\ trail' = Append(TrailHere,
                [node |-> kid.node,
                 name |-> IF kid.name = NULL THEN Last(TrailHere).name ELSE kid.name,
                 mark |-> Len(members')])
  /\ UNCHANGED <<source, error>>

SetRoot(r) ==
  /\ source # NULL \/ r # NULL
  /\ source' = r
  /\ current' = IF r = NULL THEN NULL ELSE Copy
  /\ previous' = NULL
  /\ trail' = IF r = NULL THEN <<>> ELSE <<RootStep(r)>>
  /\ UNCHANGED <<members, error>>

ReadElement(i) ==
  /\ error = NULL
  /\ Len(members) < MaxMembers
  /\ IF KindOf(Here) \notin Containers THEN FailHere("NO_ARRAY")
     ELSE IF i \notin DOMAIN KidsOf(Here) THEN FailHere("INVALID_INDEX")
     ELSE Enter(KidsOf(Here)[i])

ReadMember(n) ==
  /\ error = NULL
  /\ Len(members) < MaxMembers
  /\ IF KindOf(Here) # "object" THEN FailHere("NO_OBJECT")
     ELSE IF \A i \in DOMAIN KidsOf(Here) : KidsOf(Here)[i].name # n
     THEN FailHere("INVALID_MEMBER")
     ELSE \E i \in DOMAIN KidsOf(Here) :
            KidsOf(Here)[i].name = n /\ Enter(KidsOf(Here)[i])

(* An end_* that finds an error only clears it.                            *)
ClearError ==
  /\ error # NULL
  /\ error' = NULL
  /\ UNCHANGED <<source, current, previous, members, trail>>

LeaveToRoot(popped) ==    \* mutant: forgets where the new current_node came from
  /\ error = NULL
  /\ members' = popped
  /\ current' = previous
  /\ previous' = NULL
  /\ trail' = IF trail = <<>> THEN trail ELSE Front(trail)
  /\ UNCHANGED <<source, error>>

Leave(popped) ==
  /\ error = NULL
  /\ members' = popped
  /\ current' = previous
  /\ previous' = ParentOf(previous)
  /\ trail' = IF trail = <<>> THEN trail ELSE Front(trail)
  /\ UNCHANGED <<source, error>>

(* g_ptr_array_remove_index refuses the index -1 of an empty array.        *)
Popped == IF members = <<>> THEN members ELSE Front(members)

(* The client may call end_* once more than it has entered, but not when   *)
(* the root is itself inside a larger tree: the cursor would escape to it. *)
MayEnd == Len(trail) = 1 => ParentOf(source) = NULL

EndElementPopsNever == ClearError \/ (MayEnd /\ Leave(members))    \* mutant
EndElement ==
  \/ ClearError
  \/ MayEnd /\ Leave(IF KindOf(previous) = "object" THEN Popped ELSE members)

(* Documented for the members of an object, and pops a name regardless.    *)
EndMember ==
  \/ ClearError
  \/ MayEnd /\ KindOf(previous) # "array" /\ Leave(Popped)

-----------------------------------------------------------------------------
(* What a getter does to the reader is its error.  json_reader_count_* and *)
(* json_reader_list_members do not care whether one is set already.        *)

CountElements ==
  \/ current = NULL /\ Fail("INVALID_NODE")
  \/ current # NULL /\ KindOf(current) # "array" /\ Fail("NO_ARRAY")

(* json_reader_list_members, json_reader_count_members *)
ListMembers ==
  \/ current = NULL /\ Fail("INVALID_NODE")
  \/ current # NULL /\ KindOf(current) # "object" /\ Fail("NO_OBJECT")

(* get_null_value and get_member_name fail for want of a node only.        *)
GetMemberName == error = NULL /\ current = NULL /\ Fail("INVALID_NODE")

(* The ones that want a value: get_value accepts a null, get_int_value,    *)
(* get_double_value and get_boolean_value do not, get_string_value wants a *)
(* string.                                                                 *)
GetWanting(kinds) ==
  /\ error = NULL
  /\ \/ current = NULL /\ Fail("INVALID_NODE")
     \/ /\ current # NULL
        /\ KindOf(current) \notin kinds
        /\ Fail("NO_VALUE")
GetValue == GetWanting({"string", "number", "null"})
GetIntValue == GetWanting({"string", "number"})
GetStringValue ==
  \/ GetWanting({"string", "number"})
  \/ error = NULL /\ KindOf(current) = "number" /\ Fail("INVALID_TYPE")

Next ==
  \/ \E r \in Node \cup {NULL} : SetRoot(r)
  \/ \E i \in 1 .. 1 + Cardinality(Node) : ReadElement(i)
  \/ \E n \in Name : ReadMember(n)
  \/ EndElement \/ EndMember
  \/ CountElements \/ ListMembers \/ GetMemberName
  \/ GetValue \/ GetIntValue \/ GetStringValue

Spec == Init /\ [][Next]_vars

-----------------------------------------------------------------------------

(* The cursor is on the node the successful reads, undone by the ends,     *)
(* lead to: going back takes it to the container it was in, at every       *)
(* depth.  previous_node remembers one level only; the rest of the way is  *)
(* the parents' (json-reader.c:598, 766).                                  *)
CursorOnTrail ==
  IF trail = <<>> THEN current = NULL
  ELSE current # NULL /\ Original(current) = Last(trail).node

(* json_reader_get_member_name answers for the place the cursor is at: the *)
(* name of the innermost member it is in, through any arrays in between,   *)
(* although end_element and end_member disagree on when to drop one.       *)
NameOfPlace ==
  trail # <<>> /\ Last(trail).name # NULL =>
    members # <<>> /\ Last(members) = Last(trail).name

Descends(t) ==
  \A i, j \in DOMAIN t :
    j = i + 1 => \E k \in DOMAIN Kids[t[i].node] : Kids[t[i].node][k].node = t[j].node

(* The invariant CursorOnTrail needs: where previous_node is, and that the *)
(* trail follows the tree.                                                 *)
WayBack ==
  /\ trail # <<>> => source # NULL /\ trail[1].node = source
  /\ trail = <<>> => previous = NULL
  /\ Len(trail) = 1 => previous = NULL \/ previous = Parent[source]
  /\ Len(trail) > 1 => /\ current # Copy /\ previous # NULL
                       /\ Original(previous) = Last(Front(trail)).node
  /\ Len(trail) > 2 => previous # Copy
  /\ Descends(trail)

(* And what NameOfPlace needs: a step from an object pushes a member name, *)
(* a step from an array does not, and the names are still where they were. *)
Stepped(t) ==
  \A i, j \in DOMAIN t : j = i + 1 =>
    t[j].mark = t[i].mark + (IF Kind[t[i].node] = "object" THEN 1 ELSE 0)

Named(t, names) ==
  \A i \in DOMAIN t : t[i].name # NULL =>
    t[i].mark \in DOMAIN names /\ names[t[i].mark] = t[i].name

Sorted(t) == \A i, j \in DOMAIN t : i <= j => t[i].mark <= t[j].mark

Marked(t, names) ==
  /\ t # <<>> => Last(t).mark = Len(names)
  /\ Stepped(t) /\ Named(t, names) /\ Sorted(t)

Marks == Marked(trail, members)
=============================================================================
