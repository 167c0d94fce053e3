---------------------------- MODULE JsonMembers ----------------------------
(***************************************************************************)
(* What a JsonObject is to its users: a dictionary whose members keep the  *)
(* order in which they were first added.                                   *)
(***************************************************************************)
EXTENDS Integers, Sequences

CONSTANTS Name, Node

VARIABLE members    \* the members in order, each a name and a node

Put(n, v) ==
  members' =
    IF \E i \in DOMAIN members : members[i].name = n
    THEN [i \in DOMAIN members |->
            IF members[i].name = n THEN [name |-> n, node |-> v] ELSE members[i]]
    ELSE Append(members, [name |-> n, node |-> v])

Remove(n) ==
  \E i \in DOMAIN members :
    /\ members[i].name = n
    /\ members' = SubSeq(members, 1, i - 1) \o SubSeq(members, i + 1, Len(members))

Clear == members' = <<>>

Init == members = <<>>

Next == \/ \E n \in Name : Remove(n) \/ \E v \in Node : Put(n, v)
        \/ Clear

Spec == Init /\ [][Next]_members
=============================================================================
