----------------------------- MODULE MCJsonPath -----------------------------
(* JsonPath for TLC, over the tree                                         *)
(*                                                                         *)
(*   r = { a: p = [ q = { a: s, b: v }, m = [ w ], u ], b: t }             *)
(*                                                                         *)
(* in which a member named a is inside another; every node is matched.     *)
EXTENDS JsonPath

CONSTANTS r, p, q, s, v, m, w, u, t, a, b, Length

MCNode == {r, p, q, s, v, m, w, u, t}
MCKind == [n \in MCNode |-> CASE n \in {r, q} -> "object"
                              [] n \in {p, m} -> "array"
                              [] OTHER -> "value"]
Item(n, k) == [name |-> n, node |-> k]
MCKids == [n \in MCNode |-> CASE n = r -> <<Item(a, p), Item(b, t)>>
                              [] n = p -> <<Item(NULL, q), Item(NULL, m), Item(NULL, u)>>
                              [] n = q -> <<Item(a, s), Item(b, v)>>
                              [] n = m -> <<Item(NULL, w)>>
                              [] OTHER -> <<>>]

ASSUME MCTree == Treelike

Plain(t0) == [t |-> t0]
Slice(i, j, k) == [t |-> "slice", start |-> i, end |-> j, step |-> k]

Steps ==
  {Plain(".."), Plain(".*"), Plain("[*]"), [t |-> "name", name |-> a],
   [t |-> "name", name |-> b], [t |-> "index", index |-> 0]}
Odd ==
  {Plain("."), Plain("bad"), Plain("junk"), Plain("$")}
    \cup {[t |-> "index", index |-> i] : i \in {-1, 3}}
    \cup {[t |-> "set", indices |-> x] : x \in {<<2, 0>>, <<0, 0>>, <<1, -1, 7>>}}
    \cup {Slice(NULL, 2, NULL), Slice(-2, NULL, NULL), Slice(1, NULL, NULL),
          Slice(-5, -1, NULL), Slice(NULL, 3, 2), Slice(NULL, 3, 0),
          Slice(0, 2, 1), Slice(0, 3, 12), Slice(2, 1, -12)}

(* "$" and up to Length steps, one of which may be odd; and fewer steps    *)
(* without the "$".  The empty expression is left out: it is refused, and  *)
(* empties the path all the same.                                          *)
Turns(k) == {e \in [1 .. k -> Steps \cup Odd] :
               \A i, j \in 1 .. k : e[i] \in Odd /\ e[j] \in Odd => i = j}
MCExpression ==
  {e \in {<<Plain("$")>> \o x : x \in UNION {Turns(k) : k \in 0 .. Length}}
           \cup UNION {Turns(k) : k \in 1 .. Length - 1} : WellSpelled(e)}
MCAgain == {<<Plain("$"), Plain(".*"), Plain(".")>>, <<Plain("$"), Plain(".*")>>}
=============================================================================
