------------------------------ MODULE JsonPath ------------------------------
(***************************************************************************)
(* JsonPath (json-glib/json-path.c): json_path_compile turns an expression *)
(* into a list of path nodes, json_path_match walks a JSON tree with it.   *)
(*                                                                         *)
(* An expression is a sequence of tokens, each what one turn of the        *)
(* compiler's loop takes in.  The calls of walk_path_node that are still   *)
(* to be made are kept in todo, the first one first; a call past the end   *)
(* of the path is the delivery of its node to the results.                 *)
(***************************************************************************)
EXTENDS Integers, Sequences, Functions

CONSTANTS
  Node,         \* the nodes of a JSON tree
  Name,         \* member names
  Kind,         \* what a node holds: "object", "array" or a "value"
  Kids,         \* the nodes in a node, in order: [name |-> .., node |-> ..]
  NULL,
  Expression,   \* the expressions a fresh path may be given
  Again         \* bound: those that a path that has one may be given

(* "$", and  .name  .*  [*]  [i]  [i,j]  [i:j:k]  as they stand (['name']  *)
(* and ['*'] give the same path nodes); ".." is a dot before another dot,  *)
(* and "." one before a bracket or the end; "bad" is a bracket that no     *)
(* case accepts and "junk" a character that belongs to none of these.      *)
Token ==
  [t : {"$", "..", ".", ".*", "[*]", "bad", "junk"}]
    \cup [t : {"name"}, name : Name]
    \cup [t : {"index"}, index : Int]
    \cup [t : {"set"}, indices : Seq(Int)]
    \cup [t : {"slice"}, start : Int \cup {NULL}, end : Int \cup {NULL},
          step : Int \cup {NULL}]

(* The adjacencies that spell something else: two dots in a row are what   *)
(* ".." says, and what follows a name without a dot or a bracket is part   *)
(* of the name.                                                            *)
Dotted(k) == k.t \in {"..", ".", ".*", "name"}
WellSpelled(e) ==
  /\ \A i \in DOMAIN e : e[i].t = ".." => i < Len(e) /\ Dotted(e[i + 1])
  /\ \A i \in 1 .. Len(e) - 1 :
       /\ e[i].t = "."    => ~ Dotted(e[i + 1]) /\ e[i + 1].t \notin {"$", "junk"}
       /\ e[i].t = "name" => e[i + 1].t \notin {"$", "junk"}

ASSUME PathAssumption ==
  /\ Kind \in [Node -> {"object", "array", "value"}]
  /\ Kids \in [Node -> Seq([name : Name \cup {NULL}, node : Node])]
  /\ \A n \in Node : \A i, j \in DOMAIN Kids[n] :
       Kind[n] = "object" /\ Kids[n][i].name = Kids[n][j].name => i = j
  /\ \A n \in Node : \A i \in DOMAIN Kids[n] :
       Kids[n][i].name # NULL => Kind[n] = "object"
  /\ NULL \notin Node \cup Name \cup Int
  /\ Again \subseteq Expression
  /\ \A e \in Expression : e \in Seq(Token) /\ WellSpelled(e)

PathNode ==
  [type : {"ROOT", "RECURSIVE_DESCENT", "WILDCARD_MEMBER", "WILDCARD_ELEMENT"}]
    \cup [type : {"CHILD_MEMBER"}, name : Name]
    \cup [type : {"CHILD_ELEMENT"}, index : Int]
    \cup [type : {"ELEMENT_SET"}, indices : Seq(Int)]
    \cup [type : {"ELEMENT_SLICE"}, start : Int, end : Int, step : Int]

VARIABLES
  nodes,      \* path->nodes; path->is_compiled is nodes # <<>>
  call,       \* the call the client has made: "compile", "match" or "none"
  rest,       \* of the expression, from p on
  building,   \* the local list of json_path_compile
  root,       \* what is being matched, or was
  todo,       \* calls of walk_path_node to come
  results,
  said,       \* history: the expression being compiled
  compiled    \* history: the expression the last successful compile was given

compiler == <<rest, building, said>>
walker == <<root, todo, results>>
vars == <<nodes, call, compiler, walker, compiled>>

Task == [at : Nat \ {0}, node : Node \cup {NULL}, from : Int \cup {NULL}]

TypeOK ==
  /\ nodes \in Seq(PathNode) /\ building \in Seq(PathNode)
  /\ call \in {"none", "compile", "match"}
  /\ rest \in Seq(Token) /\ said \in Seq(Token)
  /\ root \in Node \cup {NULL}
  /\ todo \in Seq(Task) /\ \A i \in DOMAIN todo : todo[i].at <= Len(nodes) + 1
  /\ results \in Seq(Node)
  /\ compiled \in Seq(Token) \cup {NULL}

Init ==
  /\ nodes = <<>> /\ call = "none" /\ compiled = NULL
  /\ rest = <<>> /\ building = <<>> /\ said = <<>>
  /\ root = NULL /\ todo = <<>> /\ results = <<>>

NoAnswer == root' = NULL /\ todo' = <<>> /\ results' = <<>>

(* json_path_new, for a path that was used; the client drops the old one.  *)
PathNew ==
  /\ call = "none" /\ nodes # <<>>
  /\ nodes' = <<>> /\ compiled' = NULL /\ NoAnswer
  /\ UNCHANGED <<call, compiler>>

-----------------------------------------------------------------------------
(* json_path_compile.                                                      *)

Compile(e) ==
  /\ call = "none"
  /\ nodes # <<>> => e \in Again
  /\ call' = "compile" /\ rest' = e /\ said' = e /\ building' = <<>>
  /\ NoAnswer
  /\ UNCHANGED <<nodes, compiled>>

At(kinds) == call = "compile" /\ rest # <<>> /\ Head(rest).t \in kinds

Build(list) ==
  /\ building' = list
  /\ rest' = Tail(rest)
  /\ UNCHANGED <<nodes, call, said, walker, compiled>>
Add(n) == Build(Append(building, n))

(* The early returns and fail: the path keeps what it has.                 *)
RefuseEmptied ==    \* mutant: the old nodes are freed first
  /\ call' = "none" /\ nodes' = <<>>
  /\ rest' = <<>> /\ building' = <<>> /\ said' = <<>>
  /\ UNCHANGED <<walker, compiled>>
Refuse ==
  /\ call' = "none"
  /\ rest' = <<>> /\ building' = <<>> /\ said' = <<>>
  /\ UNCHANGED <<nodes, walker, compiled>>

(* Whatever has been built before a first "$" is let go.                   *)
Rooted == building # <<>> /\ building[1].type = "ROOT"
CompileRoot ==
  /\ At({"$"})
  /\ IF Rooted \/ (Len(rest) > 1 /\ rest[2].t \in {"$", "junk"})
     THEN Refuse
     ELSE Build(<<[type |-> "ROOT"]>>)

CompileDotTrusting ==    \* mutant: a dot with no name is passed over
  \/ At({".."}) /\ Add([type |-> "RECURSIVE_DESCENT"])
  \/ At({".*"}) /\ Add([type |-> "WILDCARD_MEMBER"])
  \/ At({"name"}) /\ Add([type |-> "CHILD_MEMBER", name |-> Head(rest).name])
  \/ At({"."}) /\ Build(building)
CompileDot ==
  \/ At({".."}) /\ Add([type |-> "RECURSIVE_DESCENT"])
  \/ At({".*"}) /\ Add([type |-> "WILDCARD_MEMBER"])
  \/ At({"name"}) /\ Add([type |-> "CHILD_MEMBER", name |-> Head(rest).name])
  \/ At({"."}) /\ Refuse

CompileBracket ==
  \/ At({"[*]"}) /\ Add([type |-> "WILDCARD_ELEMENT"])
  \/ At({"index"}) /\ Add([type |-> "CHILD_ELEMENT", index |-> Head(rest).index])
  \/ At({"set"}) /\ Add([type |-> "ELEMENT_SET", indices |-> Head(rest).indices])
  \/ At({"bad"}) /\ Refuse

(* A number that is missing is read as 0.  After a start, the step is read *)
(* from its second digit on (steps have at most two here).                 *)
NumberOf(n) == IF n = NULL THEN 0 ELSE n
SecondDigit(n) == IF n \in -9 .. 9 THEN 0
                  ELSE IF n < 0 THEN 0 - ((0 - n) % 10) ELSE n % 10
StepOf(s) == CASE s.step = NULL                    -> 1
               [] s.step # NULL /\ s.start = NULL  -> s.step
               [] s.step # NULL /\ s.start # NULL  -> SecondDigit(s.step)
SliceOf(s) == [type |-> "ELEMENT_SLICE", start |-> NumberOf(s.start),
               end |-> NumberOf(s.end), step |-> StepOf(s)]

CompileSlice ==
  /\ At({"slice"})
  /\ IF StepOf(Head(rest)) = 0 THEN Refuse ELSE Add(SliceOf(Head(rest)))

CompileJunk ==
  /\ At({"junk"})
  /\ IF building = <<>> THEN Refuse ELSE Build(building)

(* The old nodes go, even when the expression was empty and there are none *)
(* to take their place; compiled remembers the success only.               *)
CompileDone ==
  /\ call = "compile" /\ rest = <<>>
  /\ nodes' = building
  /\ compiled' = IF building = <<>> THEN compiled ELSE said
  /\ call' = "none" /\ building' = <<>> /\ said' = <<>>
  /\ UNCHANGED <<rest, walker>>

CompileStep == \/ CompileRoot \/ CompileDot \/ CompileBracket
               \/ CompileSlice \/ CompileJunk \/ CompileDone

-----------------------------------------------------------------------------
(* json_path_match.                                                        *)

Match(n) ==
  /\ call = "none" /\ nodes # <<>>
  /\ call' = "match" /\ root' = n /\ results' = <<>>
  /\ todo' = <<[at |-> 1, node |-> n, from |-> NULL]>>
  /\ UNCHANGED <<nodes, compiler, compiled>>

This == Head(todo)
Here == This.node
PathHere == nodes[This.at]
Walking(type) == /\ call = "match" /\ todo # <<>>
                 /\ This.at <= Len(nodes) /\ PathHere.type = type

(* No node, as json_array_get_element gives past the end, holds nothing.   *)
Holds(kind) == Here # NULL /\ Kind[Here] = kind
Element(i) == IF i \in 0 .. Len(Kids[Here]) - 1 THEN Kids[Here][i + 1].node ELSE NULL

Call(k, n) == [at |-> k, node |-> n, from |-> NULL]
Onward(n) == Call(This.at + 1, n)
EachKid == [i \in DOMAIN Kids[Here] |-> Onward(Kids[Here][i].node)]

WalkLater(tasks) ==    \* mutant: what is left of this level goes first
  /\ todo' = Tail(todo) \o tasks
  /\ UNCHANGED <<nodes, call, compiler, root, results, compiled>>
Walk(tasks) ==
  /\ todo' = tasks \o Tail(todo)
  /\ UNCHANGED <<nodes, call, compiler, root, results, compiled>>

DeliverAny ==    \* mutant: a missing node is added too
  /\ call = "match" /\ todo # <<>> /\ This.at > Len(nodes)
  /\ results' = Append(results, Here)
  /\ todo' = Tail(todo)
  /\ UNCHANGED <<nodes, call, compiler, root, compiled>>

(* json_array_add_element (results, json_node_copy (...)); both refuse NULL. *)
Deliver ==
  /\ call = "match" /\ todo # <<>> /\ This.at > Len(nodes)
  /\ results' = IF Here = NULL THEN results ELSE Append(results, Here)
  /\ todo' = Tail(todo)
  /\ UNCHANGED <<nodes, call, compiler, root, compiled>>

WalkRoot == Walking("ROOT") /\ Walk(<<Onward(Here)>>)

HasMember(name) == \E i \in DOMAIN Kids[Here] : Kids[Here][i].name = name
WalkMember ==
  /\ Walking("CHILD_MEMBER")
  /\ IF Holds("object") /\ HasMember(PathHere.name)
     THEN \E i \in DOMAIN Kids[Here] : /\ Kids[Here][i].name = PathHere.name
                                       /\ Walk(<<Onward(Kids[Here][i].node)>>)
     ELSE Walk(<<>>)

(* The index is unsigned, so a negative one is above any length; the       *)
(* length itself passes the test.                                          *)
WalkElement ==
  /\ Walking("CHILD_ELEMENT")
  /\ IF Holds("array") /\ PathHere.index \in 0 .. Len(Kids[Here])
     THEN Walk(<<Onward(Element(PathHere.index))>>)
     ELSE Walk(<<>>)

(* Does the path node after ".." ask for the i-th kid of this node?        *)
Entered(i) ==
  LET tmp == nodes[This.at + 1] IN
  \/ /\ Holds("object") /\ tmp.type = "CHILD_MEMBER"
     /\ tmp.name = Kids[Here][i].name
  \/ /\ Holds("array") /\ tmp.type = "CHILD_ELEMENT"
     /\ tmp.index = i - 1

WalkDescentHere ==    \* mutant: only the first level is searched
  /\ Walking("RECURSIVE_DESCENT")
  /\ IF Here = NULL THEN Walk(<<>>)
     ELSE Walk([i \in DOMAIN Kids[Here] |->
                  IF Entered(i) THEN Onward(Here)
                  ELSE Call(Len(nodes) + 1, NULL)])
WalkDescentAgain ==    \* mutant: recurses with root in place of the kid
  /\ Walking("RECURSIVE_DESCENT")
  /\ IF Here = NULL THEN Walk(<<>>)
     ELSE Walk([i \in DOMAIN Kids[Here] |->
                  IF Entered(i) THEN Onward(Here) ELSE Call(This.at, Here)])
WalkDescent ==
  /\ Walking("RECURSIVE_DESCENT")
  /\ IF Here = NULL THEN Walk(<<>>)
     ELSE Walk([i \in DOMAIN Kids[Here] |->
                  IF Entered(i) THEN Onward(Here)
                  ELSE Call(This.at, Kids[Here][i].node)])

(* A node that is no object, or no array, is a result itself, whatever is  *)
(* left of the path.                                                       *)
WalkWildcard ==
  \E kind \in {"object", "array"} :
    /\ Walking(IF kind = "object" THEN "WILDCARD_MEMBER" ELSE "WILDCARD_ELEMENT")
    /\ IF Holds(kind) THEN Walk(EachKid) ELSE Walk(<<Call(Len(nodes) + 1, Here)>>)

WalkSet ==
  /\ Walking("ELEMENT_SET")
  /\ IF Holds("array")
     THEN Walk([i \in DOMAIN PathHere.indices |-> Onward(Element(PathHere.indices[i]))])
     ELSE Walk(<<>>)

(* One turn of the loop over a slice; from is its i, NULL on entering it.  *)
WalkSlice ==
  /\ Walking("ELEMENT_SLICE")
  /\ IF ~ Holds("array") THEN Walk(<<>>)
     ELSE LET slice == PathHere
              shift == IF slice.start < 0 THEN Len(Kids[Here]) ELSE 0
              i == IF This.from = NULL THEN slice.start + shift ELSE This.from
          IN  IF i < slice.end + shift
              THEN Walk(<<Onward(Element(i)), [This EXCEPT !.from = i + slice.step]>>)
              ELSE Walk(<<>>)

Return ==
  /\ call = "match" /\ todo = <<>>
  /\ call' = "none"
  /\ UNCHANGED <<nodes, compiler, walker, compiled>>

WalkStep == \/ Deliver \/ WalkRoot \/ WalkMember \/ WalkElement \/ WalkDescent
            \/ WalkWildcard \/ WalkSet \/ WalkSlice \/ Return

Next == \/ PathNew \/ CompileStep \/ WalkStep
        \/ \E e \in Expression : Compile(e)
        \/ \E n \in Node : Match(n)

(* A call runs to its end.                                                 *)
Spec == Init /\ [][Next]_vars /\ WF_vars(CompileStep) /\ WF_vars(WalkStep)

-----------------------------------------------------------------------------
(* What an expression selects, by the place of a node in the tree and not  *)
(* by a walk.                                                              *)

Kid(n, i) == Kids[n][i].node
KidsOf(n) == {Kids[n][i].node : i \in DOMAIN Kids[n]}
Tree == [n \in Node |->    \* n and all below it
  {d \in Node : \A T \in SUBSET Node :
     (n \in T /\ \A x \in T : KidsOf(x) \subseteq T) => d \in T}]

(* The tree is one: no node is in two places, and none is inside itself.   *)
OnePlace ==
  \A g, h \in Node : \A i \in DOMAIN Kids[g], j \in DOMAIN Kids[h] :
    Kid(g, i) = Kid(h, j) => g = h /\ i = j
NoneInside == \A T \in SUBSET Node : T # {} => \E n \in T : KidsOf(n) \cap T = {}
Treelike == OnePlace /\ NoneInside

Member(n, m) == {Kids[n][i].node : i \in {j \in DOMAIN Kids[n] : Kids[n][j].name = m}}
At0(n, i) == {Kids[n][j].node : j \in DOMAIN Kids[n] \cap {i + 1}}

(* ".." before a name: the objects below x that are not inside a member of *)
(* that name themselves.  Before anything else it selects nothing.         *)
Outermost(x, m) ==
  {y \in Tree[x] : \A z \in Tree[x] : \A w \in Member(z, m) : y \notin Tree[w]}

InSlice(i, s, length) ==
  LET shift == IF s.start = NULL \/ s.start >= 0 THEN 0 ELSE length
      first == NumberOf(s.start) + shift
  IN  /\ first <= i /\ i < NumberOf(s.end) + shift
      /\ (i - first) % StepOf(s) = 0

Misfit(k, x) == \/ k.t = ".*" /\ Kind[x] # "object"
                \/ k.t = "[*]" /\ Kind[x] # "array"

Selects(e, k, x) ==
  CASE e[k].t = "name" -> IF Kind[x] = "object" THEN Member(x, e[k].name) ELSE {}
    [] e[k].t = ".."   -> IF e[k + 1].t = "name" THEN Outermost(x, e[k + 1].name) ELSE {}
    [] e[k].t \in {".*", "[*]"} -> IF Misfit(e[k], x) THEN {} ELSE KidsOf(x)
    [] e[k].t = "junk" -> {x}
    [] OTHER -> IF Kind[x] # "array" THEN {}
                ELSE UNION {At0(x, i) : i \in
                       CASE e[k].t = "index" -> {e[k].index}
                         [] e[k].t = "set"   -> Range(e[k].indices)
                         [] e[k].t = "slice" -> {j \in 0 .. Len(Kids[x]) - 1 :
                                                   InSlice(j, e[k], Len(Kids[x]))}}

AfterRoot(e) ==
  IF \E i \in DOMAIN e : e[i].t = "$"
  THEN SubSeq(e, 1 + CHOOSE i \in DOMAIN e : e[i].t = "$", Len(e))
  ELSE e

Selected(e, r) ==
  LET steps == AfterRoot(e)
      front[k \in 0 .. Len(steps)] ==
        IF k = 0 THEN {r} ELSE UNION {Selects(steps, k, x) : x \in front[k - 1]}
  IN  front[Len(steps)]
        \cup {x \in Node : \E k \in DOMAIN steps : x \in front[k - 1] /\ Misfit(steps[k], x)}

Answered == call = "none" /\ root # NULL

(* A match gives the nodes that the expression selects, and no other, and  *)
(* the expression is the last one whose compilation succeeded, whatever    *)
(* has failed since.                                                       *)
Found == Answered => Range(results) = Selected(compiled, root)

(* The results come in document order, each once, and none is inside       *)
(* another; only an index set may give them in another order, or again.    *)
Before(x, y) ==
  \E h \in Node : \E i, j \in DOMAIN Kids[h] :
    i < j /\ x \in Tree[Kids[h][i].node] /\ y \in Tree[Kids[h][j].node]
InDocumentOrder ==
  Answered /\ (\A i \in DOMAIN compiled : compiled[i].t # "set") =>
    \A i, j \in DOMAIN results : i < j => Before(results[i], results[j])

(* walk_path_node takes path->next->data of a ".." unseen: no compiled     *)
(* path ends in one.                                                       *)
DescentLeads ==
  \A k \in DOMAIN nodes : nodes[k].type = "RECURSIVE_DESCENT" => k < Len(nodes)

(* "the previous expression will be discarded only if the compilation of   *)
(* the new expression is successful" (json-path.c:39-40)                   *)
KeepsPrevious ==
  [][call = "compile" /\ call' = "none" /\ nodes' # nodes => compiled' = said]_vars

(* Every compilation and every match comes to its end.                     *)
Returns == call # "none" ~> call = "none"

(* "if end is omitted, the ending index of the slice is implied to be the  *)
(* length of the array" (json-path.c:89-90): "$[i:]" gives what is left of *)
(* the array from i on.                                                    *)
EndImplied ==
  Answered /\ Kind[root] = "array" =>
    \A i \in 0 .. Len(Kids[root]) :
      compiled = <<[t |-> "$"],
                   [t |-> "slice", start |-> i, end |-> NULL, step |-> NULL]>> =>
        results = [j \in 1 .. Len(Kids[root]) - i |-> Kids[root][i + j].node]
=============================================================================
