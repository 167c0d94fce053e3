---------------------------- MODULE MCJsonReader ----------------------------
(* JsonReader for TLC, over the tree                                       *)
(*                                                                         *)
(*   r = [ o = { a: p = [ q = { b: s } ], b: t } , u ]                     *)
(*                                                                         *)
(* with s and t a string and a number, u null: objects and arrays inside   *)
(* each other, five levels.  Every node of it serves as a root.            *)
EXTENDS JsonReader

CONSTANTS r, o, p, q, s, t, u, a, b

MCNode == {r, o, p, q, s, t, u}
MCKind == [n \in MCNode |-> CASE n \in {r, p} -> "array"
                              [] n \in {o, q} -> "object"
                              [] n = s -> "string"
                              [] n = t -> "number"
                              [] n = u -> "null"]
Item(n, k) == [name |-> n, node |-> k]
MCKids == [n \in MCNode |-> CASE n = r -> <<Item(NULL, o), Item(NULL, u)>>
                              [] n = o -> <<Item(a, p), Item(b, t)>>
                              [] n = p -> <<Item(NULL, q)>>
                              [] n = q -> <<Item(b, s)>>
                              [] OTHER -> <<>>]
HolderOf(n) == {h \in MCNode : \E i \in DOMAIN MCKids[h] : MCKids[h][i].node = n}

(* A tree a parser built, and one a builder built.                         *)
ParsedParent == [n \in MCNode |-> IF HolderOf(n) = {} THEN NULL
                                  ELSE CHOOSE h \in HolderOf(n) : TRUE]
BuiltParent == [n \in MCNode |-> NULL]
=============================================================================
