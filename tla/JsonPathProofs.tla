--------------------------- MODULE JsonPathProofs ---------------------------
(***************************************************************************)
(* What is proved of JsonPath, for every tree and every set of             *)
(* expressions: a compiled path never ends in a recursive descent, so that *)
(* walk_path_node, which takes the next path node of one without looking   *)
(* whether it is there, never takes it from behind the end; every state of *)
(* compiler and walk has its type; a compilation that fails keeps what the *)
(* path had; and a match gives what the expression selects, no more and no *)
(* less, in document order.                                                *)
(***************************************************************************)
EXTENDS JsonPath, TLAPS, WellFoundedInduction

Descent == [type |-> "RECURSIVE_DESCENT"]

(* What the compiler still has to read: a ".." is before another dot.      *)
Dots(e) == \A i \in DOMAIN e : e[i].t = ".." => i + 1 \in DOMAIN e /\ Dotted(e[i + 1])

(* In what is built, a descent is before another node, or the node that    *)
(* follows it is still to be read.                                         *)
Owed(list, e) ==
  \A k \in DOMAIN list : list[k].type = "RECURSIVE_DESCENT" =>
    k + 1 \in DOMAIN list \/ (e # <<>> /\ Dotted(e[1]))

Inv ==
  /\ nodes \in Seq(PathNode) /\ building \in Seq(PathNode)
  /\ rest \in Seq(Token) /\ Dots(rest)
  /\ Owed(building, rest) /\ Owed(nodes, <<>>)

LEMMA Emptiness ==
  ASSUME NEW S, NEW t \in Seq(S)
  PROVE  t = <<>> <=> Len(t) = 0
OBVIOUS

LEMMA NoDigits ==
  ASSUME NEW n \in Int
  PROVE  SecondDigit(n) \in Int
  BY DEF SecondDigit

LEMMA SliceType ==
  ASSUME NEW s \in Token, s.t = "slice"
  PROVE  SliceOf(s) \in PathNode
<1>1. s \in [t : {"slice"}, start : Int \cup {NULL}, end : Int \cup {NULL},
             step : Int \cup {NULL}]
  BY DEF Token
<1>2. NumberOf(s.start) \in Int /\ NumberOf(s.end) \in Int
  BY <1>1 DEF NumberOf
<1>3. StepOf(s) \in Int
  <2>1. CASE s.step = NULL
    BY <2>1 DEF StepOf
  <2>2. CASE s.step # NULL /\ s.start = NULL
    BY <1>1, <2>2 DEF StepOf
  <2>3. CASE s.step # NULL /\ s.start # NULL
    <3>1. s.step \in Int
      BY <1>1, <2>3
    <3>2. StepOf(s) = SecondDigit(s.step)
      BY <2>3 DEF StepOf
    <3> QED BY <3>1, <3>2, NoDigits
  <2> QED BY <2>1, <2>2, <2>3
<1> HIDE DEF StepOf, NumberOf
<1> QED
  BY <1>2, <1>3 DEF SliceOf, PathNode

(* The rest of an expression is read one token at a time.                  *)
LEMMA TailDots ==
  ASSUME NEW e \in Seq(Token), e # <<>>, Dots(e)
  PROVE  /\ Tail(e) \in Seq(Token) /\ Dots(Tail(e))
         /\ Head(e) = e[1] /\ Head(e) \in Token
         /\ Head(e).t = ".." => Tail(e) # <<>> /\ Dotted(Tail(e)[1])
<1>1. /\ Tail(e) \in Seq(Token) /\ Len(Tail(e)) = Len(e) - 1 /\ Len(e) \in Nat
      /\ \A i \in 1 .. Len(Tail(e)) : Tail(e)[i] = e[i + 1]
  OBVIOUS
<1>2. 1 \in DOMAIN e /\ Head(e) = e[1] /\ Head(e) \in Token
  OBVIOUS
<1>3. Dots(Tail(e))
  BY <1>1 DEF Dots
<1>4. Head(e).t = ".." => Tail(e) # <<>> /\ Dotted(Tail(e)[1])
  <2> SUFFICES ASSUME e[1].t = ".."
               PROVE  Tail(e) # <<>> /\ Dotted(Tail(e)[1])
    BY <1>2
  <2>1. 2 \in DOMAIN e /\ Dotted(e[2])
    BY <1>2 DEF Dots
  <2>2. Len(e) >= 2
    BY <1>1, <2>1
  <2>3. Len(Tail(e)) >= 1
    BY <1>1, <2>2
  <2>4. Tail(e)[1] = e[2]
    BY <1>1, <2>3
  <2>5. Tail(e) # <<>>
    <3>1. Len(Tail(e)) # 0
      BY <1>1, <2>3
    <3> QED BY <1>1, <3>1, Emptiness
  <2> QED BY <2>1, <2>4, <2>5
<1> QED BY <1>1, <1>2, <1>3, <1>4

LEMMA AddKeeps ==
  ASSUME Inv, rest # <<>>, NEW n \in PathNode, Add(n),
         n.type = "RECURSIVE_DESCENT" => Head(rest).t = ".."
  PROVE  Inv'
<1>1. /\ building' = Append(building, n) /\ rest' = Tail(rest) /\ nodes' = nodes
  BY DEF Add, Build
<1>2. /\ building' \in Seq(PathNode) /\ Len(building') = Len(building) + 1
      /\ \A k \in 1 .. Len(building) : building'[k] = building[k]
      /\ building'[Len(building) + 1] = n /\ Len(building) \in Nat
  BY <1>1 DEF Inv
<1>3. /\ rest' \in Seq(Token) /\ Dots(rest')
      /\ Head(rest).t = ".." => rest' # <<>> /\ Dotted(rest'[1])
  BY <1>1, TailDots DEF Inv
<1>4. Owed(building', rest')
  <2> SUFFICES ASSUME NEW k \in DOMAIN building', building'[k].type = "RECURSIVE_DESCENT"
               PROVE  k + 1 \in DOMAIN building' \/ (rest' # <<>> /\ Dotted(rest'[1]))
    BY DEF Owed
  <2>1. CASE k = Len(building) + 1
    BY <1>2, <1>3, <2>1
  <2>2. CASE k # Len(building) + 1
    BY <1>2, <2>2
  <2> QED BY <2>1, <2>2
<1> QED BY <1>1, <1>2, <1>3, <1>4 DEF Inv

LEMMA RefuseKeeps ==
  ASSUME Inv, Refuse
  PROVE  Inv'
<1>1. nodes' = nodes /\ building' = <<>> /\ rest' = <<>>
  BY DEF Refuse
<1>2. <<>> \in Seq(PathNode) /\ <<>> \in Seq(Token) /\ DOMAIN <<>> = {}
  OBVIOUS
<1> QED BY <1>1, <1>2 DEF Inv, Dots, Owed

LEMMA RootKeeps ==
  ASSUME Inv, CompileRoot
  PROVE  Inv'
<1>1. CASE Refuse
  BY <1>1, RefuseKeeps
<1>2. CASE Build(<<[type |-> "ROOT"]>>)
  <2>1. /\ building' = <<[type |-> "ROOT"]>> /\ rest' = Tail(rest) /\ nodes' = nodes
        /\ rest # <<>>
    BY <1>2 DEF Build, CompileRoot, At
  <2>2. [type |-> "ROOT"] \in PathNode
    BY DEF PathNode
  <2>3. /\ building' \in Seq(PathNode) /\ DOMAIN building' = {1}
        /\ building'[1] = [type |-> "ROOT"]
    BY <2>1, <2>2
  <2>4. Owed(building', rest')
    BY <2>3 DEF Owed
  <2> QED BY <2>1, <2>3, <2>4, TailDots DEF Inv
<1> QED BY <1>1, <1>2 DEF CompileRoot

LEMMA SameListKeeps ==
  ASSUME Inv, rest # <<>>, Build(building), ~ Dotted(Head(rest))
  PROVE  Inv'
<1>1. building' = building /\ rest' = Tail(rest) /\ nodes' = nodes
  BY DEF Build
<1>2. Head(rest) = rest[1] /\ rest' \in Seq(Token) /\ Dots(rest')
  BY <1>1, TailDots DEF Inv
<1>3. Owed(building', rest')
  BY <1>1, <1>2 DEF Inv, Owed
<1> QED BY <1>1, <1>2, <1>3 DEF Inv

LEMMA DoneKeeps ==
  ASSUME Inv, CompileDone
  PROVE  Inv'
<1>1. nodes' = building /\ building' = <<>> /\ rest = <<>> /\ rest' = <<>>
  BY DEF CompileDone
<1>2. <<>> \in Seq(PathNode) /\ DOMAIN <<>> = {}
  OBVIOUS
<1> QED BY <1>1, <1>2 DEF Inv, Dots, Owed

LEMMA CompileKeeps ==
  ASSUME Inv, NEW e \in Expression, Compile(e)
  PROVE  Inv'
<1>1. rest' = e /\ building' = <<>> /\ nodes' = nodes
  BY DEF Compile
<1>2. e \in Seq(Token) /\ WellSpelled(e)
  BY PathAssumption
<1>3. Dots(e)
  <2>1. DOMAIN e = 1 .. Len(e) /\ Len(e) \in Nat
    BY <1>2
  <2> QED BY <1>2, <2>1 DEF Dots, WellSpelled
<1>4. <<>> \in Seq(PathNode) /\ DOMAIN <<>> = {}
  OBVIOUS
<1> QED BY <1>1, <1>2, <1>3, <1>4 DEF Inv, Owed

LEMMA StepKeeps ==
  ASSUME Inv, [Next]_vars
  PROVE  Inv'
<1>1. CASE UNCHANGED <<nodes, building, rest>>
  BY <1>1 DEF Inv
<1>2. CASE PathNew
  <2>1. nodes' = <<>> /\ building' = building /\ rest' = rest
    BY <1>2 DEF PathNew, compiler
  <2>2. <<>> \in Seq(PathNode) /\ DOMAIN <<>> = {}
    OBVIOUS
  <2> QED BY <2>1, <2>2 DEF Inv, Owed
<1>3. CASE CompileStep
  <2>1. CASE CompileRoot
    BY <2>1, RootKeeps
  <2>2. CASE CompileDot
    <3>1. CASE At({".."}) /\ Add(Descent)
      <4>1. rest # <<>> /\ Head(rest).t = ".." /\ Descent \in PathNode
        BY <3>1 DEF At, PathNode, Descent
      <4> QED BY <3>1, <4>1, AddKeeps
    <3>2. CASE At({".*"}) /\ Add([type |-> "WILDCARD_MEMBER"])
      <4>1. rest # <<>> /\ [type |-> "WILDCARD_MEMBER"] \in PathNode
        BY <3>2 DEF At, PathNode
      <4> QED BY <3>2, <4>1, AddKeeps
    <3>3. CASE At({"name"}) /\ Add([type |-> "CHILD_MEMBER", name |-> Head(rest).name])
      <4>1. rest # <<>> /\ Head(rest).t = "name"
        BY <3>3 DEF At
      <4>2. Head(rest).name \in Name
        BY <4>1, TailDots DEF Inv, Token
      <4>3. [type |-> "CHILD_MEMBER", name |-> Head(rest).name] \in PathNode
        BY <4>2 DEF PathNode
      <4> QED BY <3>3, <4>1, <4>3, AddKeeps
    <3>4. CASE At({"."}) /\ Refuse
      BY <3>4, RefuseKeeps
    <3> QED BY <2>2, <3>1, <3>2, <3>3, <3>4 DEF CompileDot, Descent
  <2>3. CASE CompileBracket
    <3>1. CASE At({"[*]"}) /\ Add([type |-> "WILDCARD_ELEMENT"])
      <4>1. rest # <<>> /\ [type |-> "WILDCARD_ELEMENT"] \in PathNode
        BY <3>1 DEF At, PathNode
      <4> QED BY <3>1, <4>1, AddKeeps
    <3>2. CASE At({"index"}) /\ Add([type |-> "CHILD_ELEMENT", index |-> Head(rest).index])
      <4>1. rest # <<>> /\ Head(rest).t = "index"
        BY <3>2 DEF At
      <4>2. Head(rest).index \in Int
        BY <4>1, TailDots DEF Inv, Token
      <4>3. [type |-> "CHILD_ELEMENT", index |-> Head(rest).index] \in PathNode
        BY <4>2 DEF PathNode
      <4> QED BY <3>2, <4>1, <4>3, AddKeeps
    <3>3. CASE At({"set"}) /\ Add([type |-> "ELEMENT_SET", indices |-> Head(rest).indices])
      <4>1. rest # <<>> /\ Head(rest).t = "set"
        BY <3>3 DEF At
      <4>2. Head(rest).indices \in Seq(Int)
        BY <4>1, TailDots DEF Inv, Token
      <4>3. [type |-> "ELEMENT_SET", indices |-> Head(rest).indices] \in PathNode
        BY <4>2 DEF PathNode
      <4> QED BY <3>3, <4>1, <4>3, AddKeeps
    <3>4. CASE At({"bad"}) /\ Refuse
      BY <3>4, RefuseKeeps
    <3> QED BY <2>3, <3>1, <3>2, <3>3, <3>4 DEF CompileBracket
  <2>4. CASE CompileSlice
    <3>1. rest # <<>> /\ Head(rest).t = "slice" /\ Head(rest) \in Token
      BY <2>4, TailDots DEF CompileSlice, At, Inv
    <3>2. SliceOf(Head(rest)) \in PathNode
      BY <3>1, SliceType
    <3>3. SliceOf(Head(rest)).type # "RECURSIVE_DESCENT"
      BY DEF SliceOf
    <3> QED BY <2>4, <3>1, <3>2, <3>3, AddKeeps, RefuseKeeps DEF CompileSlice
  <2>5. CASE CompileJunk
    <3>1. rest # <<>> /\ ~ Dotted(Head(rest))
      BY <2>5 DEF CompileJunk, At, Dotted
    <3> QED BY <2>5, <3>1, SameListKeeps, RefuseKeeps DEF CompileJunk
  <2>6. CASE CompileDone
    BY <2>6, DoneKeeps
  <2> QED BY <1>3, <2>1, <2>2, <2>3, <2>4, <2>5, <2>6 DEF CompileStep
<1>4. CASE WalkStep
  BY <1>4, <1>1 DEF WalkStep, Deliver, WalkRoot, WalkMember, WalkElement, WalkDescent,
       WalkWildcard, WalkSet, WalkSlice, Return, Walk, compiler
<1>5. ASSUME NEW n \in Node, Match(n) PROVE Inv'
  BY <1>5, <1>1 DEF Match, compiler
<1>6. CASE UNCHANGED vars
  BY <1>6, <1>1 DEF vars, compiler
<1> QED BY <1>2, <1>3, <1>4, <1>5, <1>6, CompileKeeps DEF Next

(* No compiled path ends in "..", whatever was compiled before it and      *)
(* whatever failed: the walk always finds the node it looks for behind a   *)
(* recursive descent.                                                      *)
THEOREM NextIsThere == Spec => []DescentLeads
<1>1. Init => Inv
  <2>1. <<>> \in Seq(PathNode) /\ <<>> \in Seq(Token) /\ DOMAIN <<>> = {}
    OBVIOUS
  <2> QED BY <2>1 DEF Init, Inv, Dots, Owed
<1>2. Inv /\ [Next]_vars => Inv'
  BY StepKeeps
<1>3. Inv => DescentLeads
  BY DEF Inv, Owed, DescentLeads
<1> QED BY <1>1, <1>2, <1>3, PTL DEF Spec

-----------------------------------------------------------------------------
(* Types, for the calls of walk_path_node above all.                       *)

(* A call is for a node of the path, or for the end behind it.             *)
TaskFor(list) == {t \in Task : t.at <= Len(list) + 1}

Typed ==
  /\ Inv /\ TypeOK
  /\ call # "match" => todo = <<>>

LEMMA TodoTyped ==
  ASSUME NEW list \in Seq(PathNode), NEW s \in Seq(Task)
  PROVE  s \in Seq(TaskFor(list)) <=> \A i \in DOMAIN s : s[i].at <= Len(list) + 1
BY DEF TaskFor

LEMMA Chained ==
  ASSUME NEW S, NEW a \in Seq(S), NEW b \in Seq(S), b # <<>>
  PROVE  a \o Tail(b) \in Seq(S) /\ Tail(b) \in Seq(S) /\ Head(b) \in S
OBVIOUS

(* One call is replaced by those it makes.                                 *)
LEMMA WalkTyped ==
  ASSUME Typed, call = "match", todo # <<>>, NEW tasks \in Seq(TaskFor(nodes)), Walk(tasks)
  PROVE  Typed'
<1>1. Inv'
  BY DEF Typed, Inv, Walk, compiler
<1>2. nodes \in Seq(PathNode) /\ todo \in Seq(Task) /\ todo \in Seq(TaskFor(nodes))
  BY TodoTyped DEF Typed, TypeOK
<1>3. todo' = tasks \o Tail(todo) /\ nodes' = nodes
  BY DEF Walk
<1>4. todo' \in Seq(TaskFor(nodes))
  BY <1>2, <1>3, Chained
<1>5. todo' \in Seq(Task)
  BY <1>4 DEF TaskFor
<1>6. \A i \in DOMAIN todo' : todo'[i].at <= Len(nodes) + 1
  BY <1>2, <1>4, <1>5, TodoTyped
<1>7. UNCHANGED <<nodes, call, building, rest, said, root, results, compiled>>
  BY DEF Walk, compiler
<1> QED BY <1>1, <1>5, <1>6, <1>7 DEF Typed, TypeOK

(* The node a call is for, and what its kids are.                          *)
LEMMA CallTyped ==
  ASSUME Typed, call = "match", todo # <<>>
  PROVE  /\ This \in TaskFor(nodes) /\ Here \in Node \cup {NULL} /\ This.at \in Nat \ {0}
         /\ Len(nodes) \in Nat
         /\ Here # NULL => /\ Here \in Node
                          /\ Kids[Here] \in Seq([name : Name \cup {NULL}, node : Node])
         /\ This.at <= Len(nodes) => PathHere \in PathNode
<1>1. nodes \in Seq(PathNode) /\ todo \in Seq(Task) /\ todo \in Seq(TaskFor(nodes))
  BY TodoTyped DEF Typed, TypeOK
<1>2. This \in TaskFor(nodes)
  BY <1>1, Chained DEF This
<1>3. This \in Task
  BY <1>2 DEF TaskFor
<1>4. Here \in Node \cup {NULL} /\ This.at \in Nat \ {0}
  BY <1>3 DEF Here, Task
<1>5. Len(nodes) \in Nat /\ (This.at <= Len(nodes) => PathHere \in PathNode)
  BY <1>1, <1>4 DEF PathHere
<1> QED BY <1>2, <1>4, <1>5, PathAssumption

LEMMA CallsTyped ==
  ASSUME NEW list \in Seq(PathNode), NEW k \in Nat \ {0}, k <= Len(list) + 1,
         NEW n \in Node \cup {NULL}
  PROVE  Call(k, n) \in TaskFor(list) /\ <<Call(k, n)>> \in Seq(TaskFor(list))
BY DEF Call, TaskFor, Task

LEMMA OnwardTyped ==
  ASSUME Typed, call = "match", todo # <<>>, This.at <= Len(nodes), NEW n \in Node \cup {NULL}
  PROVE  Onward(n) \in TaskFor(nodes) /\ <<Onward(n)>> \in Seq(TaskFor(nodes))
<1>1. nodes \in Seq(PathNode) /\ This.at \in Nat \ {0} /\ Len(nodes) \in Nat
  BY CallTyped DEF Typed, TypeOK
<1>2. This.at + 1 \in Nat \ {0} /\ This.at + 1 <= Len(nodes) + 1
  BY <1>1
<1> QED BY <1>1, <1>2, CallsTyped DEF Onward

LEMMA KidTyped ==
  ASSUME NEW s \in Seq([name : Name \cup {NULL}, node : Node]), NEW i \in DOMAIN s
  PROVE  s[i].node \in Node
<1> DEFINE Held == [name : Name \cup {NULL}, node : Node]
<1>1. s \in Seq(Held)
  OBVIOUS
<1>2. s[i] \in Held
  <2> HIDE DEF Held
  <2> QED BY <1>1
<1> QED BY <1>2

LEMMA Listed ==
  ASSUME NEW S, NEW s, NEW T, s \in Seq(T), NEW f \in [DOMAIN s -> S]
  PROVE  f \in Seq(S)
OBVIOUS

(* One call for each kid.                                                  *)
LEMMA KidsTyped ==
  ASSUME Typed, call = "match", todo # <<>>, Here # NULL,
         NEW tasks, tasks = [i \in DOMAIN Kids[Here] |-> tasks[i]],
         \A i \in DOMAIN Kids[Here] :
           \/ tasks[i] = Onward(Here) \/ tasks[i] = Onward(Kids[Here][i].node)
           \/ tasks[i] = Call(This.at, Kids[Here][i].node),
         This.at <= Len(nodes)
  PROVE  tasks \in Seq(TaskFor(nodes))
<1>1. /\ Here \in Node /\ This.at \in Nat \ {0} /\ Len(nodes) \in Nat
      /\ Kids[Here] \in Seq([name : Name \cup {NULL}, node : Node])
      /\ nodes \in Seq(PathNode)
  BY CallTyped DEF Typed, TypeOK
<1>2. ASSUME NEW i \in DOMAIN Kids[Here] PROVE tasks[i] \in TaskFor(nodes)
  <2>1. Kids[Here][i].node \in Node
    BY <1>1, KidTyped
  <2>2. Onward(Here) \in TaskFor(nodes) /\ Onward(Kids[Here][i].node) \in TaskFor(nodes)
    BY <1>1, <2>1, OnwardTyped
  <2>3. Call(This.at, Kids[Here][i].node) \in TaskFor(nodes)
    BY <1>1, <2>1, CallsTyped
  <2> QED BY <2>2, <2>3
<1>3. tasks \in [DOMAIN Kids[Here] -> TaskFor(nodes)]
  BY <1>2
<1> QED BY <1>1, <1>3, Listed

LEMMA ElementTyped ==
  ASSUME Typed, call = "match", todo # <<>>, Here # NULL, NEW i \in Int
  PROVE  Element(i) \in Node \cup {NULL}
<1>1. Kids[Here] \in Seq([name : Name \cup {NULL}, node : Node])
  BY CallTyped
<1>2. CASE i \in 0 .. Len(Kids[Here]) - 1
  <2>1. i + 1 \in DOMAIN Kids[Here]
    BY <1>1, <1>2
  <2>2. Kids[Here][i + 1].node \in Node
    BY <1>1, <2>1, KidTyped
  <2> QED BY <1>2, <2>2 DEF Element
<1>3. CASE i \notin 0 .. Len(Kids[Here]) - 1
  BY <1>3 DEF Element
<1> QED BY <1>2, <1>3

LEMMA NoTasks ==
  ASSUME NEW S
  PROVE  <<>> \in Seq(S)
OBVIOUS

LEMMA PairOf ==
  ASSUME NEW S, NEW a \in S, NEW b \in S
  PROVE  <<a, b>> \in Seq(S)
OBVIOUS

LEMMA DeliverTyped ==
  ASSUME Typed, Deliver
  PROVE  Typed'
<1>1. /\ call = "match" /\ todo # <<>> /\ todo' = Tail(todo) /\ nodes' = nodes
      /\ results' = IF Here = NULL THEN results ELSE Append(results, Here)
      /\ UNCHANGED <<nodes, call, building, rest, said, root, compiled>>
  BY DEF Deliver, compiler
<1>2. nodes \in Seq(PathNode) /\ todo \in Seq(Task) /\ todo \in Seq(TaskFor(nodes))
  BY TodoTyped DEF Typed, TypeOK
<1>3. todo' \in Seq(TaskFor(nodes)) /\ todo' \in Seq(Task)
  BY <1>1, <1>2, NoTasks, Chained
<1>4. \A i \in DOMAIN todo' : todo'[i].at <= Len(nodes) + 1
  BY <1>2, <1>3, TodoTyped
<1>5. results' \in Seq(Node)
  <2>1. results \in Seq(Node) /\ Here \in Node \cup {NULL}
    BY <1>1, CallTyped DEF Typed, TypeOK
  <2> QED BY <1>1, <2>1
<1>6. Inv'
  BY <1>1 DEF Typed, Inv
<1> QED BY <1>1, <1>3, <1>4, <1>5, <1>6 DEF Typed, TypeOK

LEMMA WalkStepTyped ==
  ASSUME Typed, WalkStep
  PROVE  Typed'
<1> USE DEF Walking
<1>1. CASE Deliver
  BY <1>1, DeliverTyped
<1>2. CASE WalkRoot
  <2>1. Onward(Here) \in TaskFor(nodes) /\ <<Onward(Here)>> \in Seq(TaskFor(nodes))
    BY <1>2, CallTyped, OnwardTyped DEF WalkRoot
  <2> QED BY <1>2, <2>1, WalkTyped DEF WalkRoot
<1>3. CASE WalkMember
  <2>1. CASE Walk(<<>>)
    BY <1>3, <2>1, NoTasks, WalkTyped DEF WalkMember
  <2>2. CASE ~ Walk(<<>>)
    <3>1. Here # NULL /\ \E i \in DOMAIN Kids[Here] : Walk(<<Onward(Kids[Here][i].node)>>)
      BY <1>3, <2>2 DEF WalkMember, Holds
    <3>2. PICK i \in DOMAIN Kids[Here] : Walk(<<Onward(Kids[Here][i].node)>>)
      BY <3>1
    <3>3. Kids[Here][i].node \in Node
      BY <1>3, <3>1, CallTyped, KidTyped DEF WalkMember
    <3>4. <<Onward(Kids[Here][i].node)>> \in Seq(TaskFor(nodes))
      BY <1>3, <3>3, OnwardTyped DEF WalkMember
    <3> QED BY <1>3, <3>2, <3>4, WalkTyped DEF WalkMember
  <2> QED BY <2>1, <2>2
<1>4. CASE WalkElement
  <2>1. CASE Holds("array") /\ PathHere.index \in 0 .. Len(Kids[Here])
    <3>1. Here # NULL /\ PathHere.index \in Int
      BY <2>1 DEF Holds
    <3>2. Element(PathHere.index) \in Node \cup {NULL}
      BY <1>4, <3>1, ElementTyped DEF WalkElement
    <3>3. <<Onward(Element(PathHere.index))>> \in Seq(TaskFor(nodes))
      BY <1>4, <3>2, OnwardTyped DEF WalkElement
    <3> QED BY <1>4, <2>1, <3>3, WalkTyped DEF WalkElement
  <2>2. CASE ~ (Holds("array") /\ PathHere.index \in 0 .. Len(Kids[Here]))
    BY <1>4, <2>2, NoTasks, WalkTyped DEF WalkElement
  <2> QED BY <2>1, <2>2
<1>5. CASE WalkDescent
  <2>1. CASE Here = NULL
    BY <1>5, <2>1, NoTasks, WalkTyped DEF WalkDescent
  <2>2. CASE Here # NULL
    <3> DEFINE tasks == [i \in DOMAIN Kids[Here] |->
                           IF Entered(i) THEN Onward(Here)
                           ELSE Call(This.at, Kids[Here][i].node)]
    <3>1. Walk(tasks)
      BY <1>5, <2>2 DEF WalkDescent
    <3>2. /\ tasks = [i \in DOMAIN Kids[Here] |-> tasks[i]]
          /\ \A i \in DOMAIN Kids[Here] :
               tasks[i] = Onward(Here) \/ tasks[i] = Call(This.at, Kids[Here][i].node)
      OBVIOUS
    <3> HIDE DEF tasks
    <3>3. tasks \in Seq(TaskFor(nodes))
      BY <1>5, <2>2, <3>2, KidsTyped DEF WalkDescent
    <3> QED BY <1>5, <3>1, <3>3, WalkTyped DEF WalkDescent
  <2> QED BY <2>1, <2>2
<1>6. CASE WalkWildcard
  <2>1. PICK kind \in {"object", "array"} :
          /\ Walking(IF kind = "object" THEN "WILDCARD_MEMBER" ELSE "WILDCARD_ELEMENT")
          /\ IF Holds(kind) THEN Walk(EachKid) ELSE Walk(<<Call(Len(nodes) + 1, Here)>>)
    BY <1>6 DEF WalkWildcard
  <2>2. call = "match" /\ todo # <<>> /\ This.at <= Len(nodes)
    BY <2>1
  <2>3. CASE Holds(kind)
    <3>1. Here # NULL
      BY <2>3 DEF Holds
    <3>2. /\ EachKid = [i \in DOMAIN Kids[Here] |-> EachKid[i]]
          /\ \A i \in DOMAIN Kids[Here] : EachKid[i] = Onward(Kids[Here][i].node)
      BY DEF EachKid
    <3>3. EachKid \in Seq(TaskFor(nodes))
      BY <2>2, <3>1, <3>2, KidsTyped
    <3> QED BY <2>1, <2>2, <2>3, <3>3, WalkTyped
  <2>4. CASE ~ Holds(kind)
    <3>1. <<Call(Len(nodes) + 1, Here)>> \in Seq(TaskFor(nodes))
      <4>1. Here \in Node \cup {NULL} /\ nodes \in Seq(PathNode) /\ Len(nodes) + 1 \in Nat \ {0}
        BY <2>2, CallTyped DEF Typed, TypeOK
      <4> QED BY <4>1, CallsTyped
    <3> QED BY <2>1, <2>2, <2>4, <3>1, WalkTyped
  <2> QED BY <2>3, <2>4
<1>7. CASE WalkSet
  <2>1. CASE Holds("array")
    <3>1. Here # NULL /\ call = "match" /\ todo # <<>> /\ PathHere.type = "ELEMENT_SET"
          /\ This.at <= Len(nodes)
      BY <1>7, <2>1 DEF WalkSet, Holds
    <3>2. PathHere.indices \in Seq(Int)
      BY <3>1, CallTyped DEF PathNode
    <3> DEFINE tasks == [i \in DOMAIN PathHere.indices |-> Onward(Element(PathHere.indices[i]))]
    <3>3. ASSUME NEW i \in DOMAIN PathHere.indices
          PROVE  Onward(Element(PathHere.indices[i])) \in TaskFor(nodes)
      <4>1. Element(PathHere.indices[i]) \in Node \cup {NULL}
        BY <3>1, <3>2, ElementTyped
      <4> QED BY <3>1, <4>1, OnwardTyped
    <3>4. tasks \in [DOMAIN PathHere.indices -> TaskFor(nodes)]
      BY <3>3
    <3>5. Walk(tasks)
      BY <1>7, <2>1 DEF WalkSet
    <3> HIDE DEF tasks
    <3>6. tasks \in Seq(TaskFor(nodes))
      BY <3>2, <3>4, Listed
    <3> QED BY <3>1, <3>5, <3>6, WalkTyped
  <2>2. CASE ~ Holds("array")
    BY <1>7, <2>2, NoTasks, WalkTyped DEF WalkSet
  <2> QED BY <2>1, <2>2
<1>8. CASE WalkSlice
  <2>1. call = "match" /\ todo # <<>> /\ PathHere.type = "ELEMENT_SLICE" /\ This.at <= Len(nodes)
    BY <1>8 DEF WalkSlice
  <2>2. CASE Walk(<<>>)
    BY <2>1, <2>2, NoTasks, WalkTyped
  <2>3. CASE ~ Walk(<<>>)
    <3>1. Here # NULL
      BY <1>8, <2>3 DEF WalkSlice, Holds
    <3>2. PathHere.start \in Int /\ PathHere.end \in Int /\ PathHere.step \in Int
      BY <2>1, CallTyped DEF PathNode
    <3>3. This \in Task /\ This \in TaskFor(nodes)
      BY <2>1, CallTyped DEF TaskFor
    <3>4. Len(Kids[Here]) \in Nat
      BY <2>1, <3>1, CallTyped
    <3>5. PICK i \in Int : Walk(<<Onward(Element(i)), [This EXCEPT !.from = i + PathHere.step]>>)
      <4> DEFINE shift == IF PathHere.start < 0 THEN Len(Kids[Here]) ELSE 0
                 j == IF This.from = NULL THEN PathHere.start + shift ELSE This.from
      <4>1. Walk(<<Onward(Element(j)), [This EXCEPT !.from = j + PathHere.step]>>)
        BY <1>8, <2>3 DEF WalkSlice
      <4>2. j \in Int
        BY <3>2, <3>3, <3>4 DEF Task
      <4> QED BY <4>1, <4>2
    <3>6. Element(i) \in Node \cup {NULL}
      BY <2>1, <3>1, ElementTyped
    <3>7. Onward(Element(i)) \in TaskFor(nodes)
      BY <2>1, <3>6, OnwardTyped
    <3>8. [This EXCEPT !.from = i + PathHere.step] \in TaskFor(nodes)
      <4>1. i + PathHere.step \in Int
        BY <3>2
      <4> QED BY <3>3, <4>1 DEF Task, TaskFor
    <3>9. <<Onward(Element(i)), [This EXCEPT !.from = i + PathHere.step]>> \in Seq(TaskFor(nodes))
      BY <3>7, <3>8, PairOf
    <3> QED BY <2>1, <3>5, <3>9, WalkTyped
  <2> QED BY <2>2, <2>3
<1>9. CASE Return
  <2>1. call' = "none" /\ todo = <<>>
        /\ UNCHANGED <<nodes, rest, building, said, root, todo, results, compiled>>
    BY <1>9 DEF Return, compiler, walker
  <2> QED BY <2>1 DEF Typed, Inv, TypeOK
<1> QED BY <1>1, <1>2, <1>3, <1>4, <1>5, <1>6, <1>7, <1>8, <1>9 DEF WalkStep

LEMMA StepTyped ==
  ASSUME Typed, [Next]_vars
  PROVE  Typed'
<1>1. Inv'
  BY StepKeeps DEF Typed
<1>2. /\ <<>> \in Seq(Task) /\ <<>> \in Seq(Node) /\ <<>> \in Seq(Token) /\ DOMAIN <<>> = {}
      /\ nodes' \in Seq(PathNode) /\ building' \in Seq(PathNode) /\ rest' \in Seq(Token)
  BY <1>1 DEF Inv
<1>3. CASE PathNew
  BY <1>1, <1>2, <1>3 DEF PathNew, NoAnswer, compiler, Typed, TypeOK
<1>4. CASE CompileStep
  <2>1. ASSUME NEW list, rest # <<>>, call = "compile", Build(list)
        PROVE  Typed'
    BY <1>1, <1>2, <2>1 DEF Build, walker, Typed, TypeOK
  <2>2. ASSUME Refuse, call = "compile"
        PROVE  Typed'
    BY <1>1, <1>2, <2>2 DEF Refuse, walker, Typed, TypeOK
  <2>3. CASE CompileDone
    <3>1. /\ call' = "none" /\ said' = <<>> /\ todo = <<>> /\ todo' = <<>>
          /\ compiled' \in Seq(Token) \cup {NULL} /\ root' = root /\ results' = results
      BY <2>3 DEF CompileDone, walker, Typed, TypeOK
    <3> QED BY <1>1, <1>2, <3>1 DEF Typed, TypeOK
  <2>4. CASE CompileRoot
    BY <2>1, <2>2, <2>4 DEF CompileRoot, At
  <2>5. CASE CompileDot
    BY <2>1, <2>2, <2>5 DEF CompileDot, At, Add
  <2>6. CASE CompileBracket
    BY <2>1, <2>2, <2>6 DEF CompileBracket, At, Add
  <2>7. CASE CompileSlice
    BY <2>1, <2>2, <2>7 DEF CompileSlice, At, Add
  <2>8. CASE CompileJunk
    BY <2>1, <2>2, <2>8 DEF CompileJunk, At
  <2> QED BY <1>4, <2>3, <2>4, <2>5, <2>6, <2>7, <2>8 DEF CompileStep
<1>5. CASE WalkStep
  BY <1>5, WalkStepTyped
<1>6. ASSUME NEW e \in Expression, Compile(e) PROVE Typed'
  <2>1. e \in Seq(Token)
    BY PathAssumption
  <2> QED BY <1>1, <1>2, <1>6, <2>1 DEF Compile, NoAnswer, Typed, TypeOK
<1>7. ASSUME NEW n \in Node, Match(n) PROVE Typed'
  <2>1. Len(nodes) \in Nat
    BY DEF Typed, TypeOK
  <2>2. todo' = <<Call(1, n)>> /\ nodes' = nodes
    BY <1>7 DEF Match, Call
  <2>3. Call(1, n) \in Task /\ Call(1, n).at <= Len(nodes) + 1
    BY <2>1 DEF Call, Task
  <2>4. todo' \in Seq(Task) /\ \A i \in DOMAIN todo' : todo'[i].at <= Len(nodes) + 1
    BY <2>2, <2>3
  <2> QED BY <1>1, <1>2, <1>7, <2>4 DEF Match, compiler, Typed, TypeOK
<1>8. CASE UNCHANGED vars
  BY <1>1, <1>8 DEF vars, compiler, walker, Typed, TypeOK
<1> QED BY <1>3, <1>4, <1>5, <1>6, <1>7, <1>8 DEF Next

LEMMA InitTyped ==
  ASSUME Init
  PROVE  Typed
<1>1. /\ <<>> \in Seq(PathNode) /\ <<>> \in Seq(Token) /\ <<>> \in Seq(Task)
      /\ <<>> \in Seq(Node) /\ DOMAIN <<>> = {}
  OBVIOUS
<1> QED BY <1>1 DEF Init, Typed, Inv, Dots, Owed, TypeOK

(* Every call of walk_path_node is for a node of the path, or one behind   *)
(* its end, for a JSON node or none, and nothing but JSON nodes of the     *)
(* tree is delivered: the path cannot change while it is walked.           *)
THEOREM TypesKept == Spec => []TypeOK
<1>1. Init => Typed
  BY InitTyped
<1>2. Typed /\ [Next]_vars => Typed'
  BY StepTyped
<1>3. Typed => TypeOK
  BY DEF Typed
<1> QED BY <1>1, <1>2, <1>3, PTL DEF Spec

-----------------------------------------------------------------------------
(* A compilation that fails.                                               *)

(* The path is given no empty expression once it has been compiled.        *)
NonemptyAgain == <<>> \notin Again

(* Nothing is built before something is read.                              *)
Reading ==
  /\ Inv
  /\ call = "compile" =>
       /\ building = <<>> => rest = said
       /\ nodes # <<>> => said # <<>>

LEMMA AppendNotEmpty ==
  ASSUME NEW S, NEW s \in Seq(S), NEW x
  PROVE  Append(s, x) # <<>>
<1>1. Len(Append(s, x)) = Len(s) + 1 /\ Len(s) \in Nat /\ Len(<<>>) = 0
  OBVIOUS
<1> QED BY <1>1

LEMMA AddReads ==
  ASSUME Reading, call = "compile", NEW n, Add(n)
  PROVE  /\ building' # <<>> /\ said' = said /\ nodes' = nodes /\ call' = "compile"
         /\ nodes # <<>> => said # <<>>
<1>1. building \in Seq(PathNode)
  BY DEF Reading, Inv
<1> QED BY <1>1, AppendNotEmpty DEF Add, Build, Reading

(* How one turn of the compiler ends: it goes on, it refuses and leaves    *)
(* everything, or it is done.                                              *)
LEMMA CompileReads ==
  ASSUME Reading, CompileStep
  PROVE  \/ /\ building' # <<>> /\ said' = said /\ nodes' = nodes /\ call' = "compile"
            /\ nodes # <<>> => said # <<>>
         \/ Refuse
         \/ CompileDone
<1>1. call = "compile"
  BY DEF CompileStep, CompileRoot, CompileDot, CompileBracket, CompileSlice, CompileJunk,
       CompileDone, At
<1>2. CASE CompileRoot
  <2>1. CASE Build(<<[type |-> "ROOT"]>>)
    BY <1>1, <2>1 DEF Build, Reading
  <2> QED BY <1>2, <2>1 DEF CompileRoot
<1>3. CASE CompileDot
  BY <1>1, <1>3, AddReads DEF CompileDot
<1>4. CASE CompileBracket
  BY <1>1, <1>4, AddReads DEF CompileBracket
<1>5. CASE CompileSlice
  BY <1>1, <1>5, AddReads DEF CompileSlice
<1>6. CASE CompileJunk
  BY <1>1, <1>6 DEF CompileJunk, Build, Reading
<1> QED BY <1>2, <1>3, <1>4, <1>5, <1>6 DEF CompileStep

LEMMA StepReads ==
  ASSUME NonemptyAgain, Reading, [Next]_vars
  PROVE  Reading'
<1>1. Inv'
  BY StepKeeps DEF Reading
<1>2. CASE CompileStep
  <2>1. CASE Refuse \/ CompileDone
    BY <1>1, <2>1 DEF Refuse, CompileDone, Reading
  <2> QED BY <1>1, <1>2, <2>1, CompileReads DEF Reading
<1>3. ASSUME NEW e \in Expression, Compile(e) PROVE Reading'
  <2>1. nodes # <<>> => e # <<>>
    BY <1>3 DEF Compile, NonemptyAgain
  <2> QED BY <1>1, <1>3, <2>1 DEF Compile, Reading
<1>4. CASE PathNew
  BY <1>1, <1>4 DEF PathNew, Reading
<1>5. ASSUME NEW n \in Node, Match(n) PROVE Reading'
  BY <1>1, <1>5 DEF Match, Reading
<1>6. CASE WalkStep
  <2>1. call = "match" /\ call' \in {"match", "none"}
    BY <1>6 DEF WalkStep, Deliver, WalkRoot, WalkMember, WalkElement, WalkDescent,
         WalkWildcard, WalkSet, WalkSlice, Return, Walk, Walking
  <2> QED BY <1>1, <2>1 DEF Reading
<1>7. CASE UNCHANGED vars
  BY <1>1, <1>7 DEF vars, compiler, Reading
<1> QED BY <1>2, <1>3, <1>4, <1>5, <1>6, <1>7 DEF Next

LEMMA StepKeepsNodes ==
  ASSUME Reading, [Next]_vars, call = "compile", call' = "none", nodes' # nodes
  PROVE  compiled' = said
<1>1. CASE CompileStep
  <2>1. CompileDone
    BY <1>1, CompileReads DEF Refuse
  <2>2. nodes' = building /\ rest = <<>> /\ compiled' = IF building = <<>> THEN compiled ELSE said
    BY <2>1 DEF CompileDone
  <2> QED BY <2>2 DEF Reading
<1>2. CASE WalkStep
  <2>1. call = "match"
    BY <1>2 DEF WalkStep, Deliver, WalkRoot, WalkMember, WalkElement, WalkDescent,
         WalkWildcard, WalkSet, WalkSlice, Return, Walking
  <2> QED BY <2>1
<1> QED BY <1>1, <1>2 DEF Next, PathNew, Compile, Match, vars

(* A compilation that fails, at whatever character of its expression,      *)
(* leaves the path that was compiled before.  The one exception is the     *)
(* empty expression, which json_path_compile refuses and which empties the *)
(* path: it is assumed away.                                               *)
THEOREM PreviousKept ==
  ASSUME NonemptyAgain
  PROVE  Spec => KeepsPrevious
<1>1. Init => Reading
  BY InitTyped DEF Init, Reading, Typed
<1>2. Reading /\ [Next]_vars => Reading'
  BY StepReads
<1>3. Reading /\ [Next]_vars =>
        UNCHANGED vars \/ (call = "compile" /\ call' = "none" /\ nodes' # nodes => compiled' = said)
  BY StepKeepsNodes
<1> QED BY <1>1, <1>2, <1>3, PTL DEF Spec, KeepsPrevious

-----------------------------------------------------------------------------
(* The order of the results.                                               *)

Setless(e) == \A i \in DOMAIN e : e[i].t # "set"
NoSets(list) == \A k \in DOMAIN list : list[k].type # "ELEMENT_SET"

(* Index sets are in the path only if they are in its expression.          *)
Traced ==
  /\ call = "compile" => root = NULL /\ (Setless(said) => Setless(rest) /\ NoSets(building))
  /\ Setless(compiled) => NoSets(nodes)

(* The results that a call may still give are below its node; below the    *)
(* kids of it that the path node there lets it take, if it is one of those *)
(* that a kid is looked up by.                                             *)
Takes(t, i) ==
  /\ nodes[t.at].type = "CHILD_MEMBER"  => Kids[t.node][i].name = nodes[t.at].name
  /\ nodes[t.at].type = "CHILD_ELEMENT" => nodes[t.at].index = i - 1
  /\ nodes[t.at].type = "ELEMENT_SLICE" => t.from = NULL \/ t.from <= i - 1
LooksUp(t) ==
  /\ t.at <= Len(nodes)
  /\ nodes[t.at].type \in {"CHILD_MEMBER", "CHILD_ELEMENT", "ELEMENT_SLICE"}
Reach(t) ==
  IF t.node = NULL THEN {}
  ELSE IF LooksUp(t)
       THEN {y \in Node : \E i \in DOMAIN Kids[t.node] : Takes(t, i) /\ y \in Tree[Kid(t.node, i)]}
       ELSE Tree[t.node]

Precedes(X, Y) == \A x \in X, y \in Y : Before(x, y)

Ascending(s) == \A i, j \in DOMAIN s : i < j => Before(s[i], s[j])

(* What was found, and what the calls to come may find, is in order.       *)
Ordered ==
  /\ Ascending(results)
  /\ \A i \in DOMAIN results : \A k \in DOMAIN todo : Precedes({results[i]}, Reach(todo[k]))
  /\ \A k, l \in DOMAIN todo : k < l => Precedes(Reach(todo[k]), Reach(todo[l]))

(* A loop over a slice that goes away from its end.                        *)
Turning(t) ==
  /\ t.node # NULL /\ Kind[t.node] = "array" /\ t.at <= Len(nodes)
  /\ nodes[t.at].type = "ELEMENT_SLICE" /\ nodes[t.at].step <= 0
  /\ t.from # NULL
  /\ t.from < nodes[t.at].end + IF nodes[t.at].start < 0 THEN Len(Kids[t.node]) ELSE 0
Endless == \E k \in DOMAIN todo : Turning(todo[k])

OrderInv ==
  /\ Typed /\ Traced
  /\ call = "match" /\ Setless(compiled) => Endless \/ Ordered
  /\ Answered /\ Setless(compiled) => Ascending(results)

(* Some facts of trees: what is below a node, and below a kid of it.       *)
LEMMA BelowItself ==
  ASSUME NEW n \in Node
  PROVE  n \in Tree[n] /\ Tree[n] \subseteq Node
BY DEF Tree

LEMMA KidThere ==
  ASSUME NEW n \in Node, NEW i \in DOMAIN Kids[n]
  PROVE  Kid(n, i) \in Node /\ Kid(n, i) = Kids[n][i].node
<1>1. Kids[n] \in Seq([name : Name \cup {NULL}, node : Node])
  BY PathAssumption
<1> QED BY <1>1, KidTyped DEF Kid

LEMMA KidBelow ==
  ASSUME NEW n \in Node, NEW i \in DOMAIN Kids[n]
  PROVE  Tree[Kid(n, i)] \subseteq Tree[n]
<1>1. Kid(n, i) \in Node /\ Kid(n, i) \in KidsOf(n)
  BY KidThere DEF KidsOf
<1>2. ASSUME NEW d \in Tree[Kid(n, i)], NEW T \in SUBSET Node,
             n \in T, \A x \in T : KidsOf(x) \subseteq T
      PROVE  d \in T
  <2>1. Kid(n, i) \in T
    BY <1>1, <1>2
  <2> QED BY <1>1, <1>2, <2>1 DEF Tree
<1>3. Tree[Kid(n, i)] \subseteq Node
  BY <1>1, BelowItself
<1> QED BY <1>2, <1>3 DEF Tree

LEMMA KidsInOrder ==
  ASSUME NEW n \in Node, NEW i \in DOMAIN Kids[n], NEW j \in DOMAIN Kids[n], i < j
  PROVE  Precedes(Tree[Kid(n, i)], Tree[Kid(n, j)])
BY DEF Precedes, Before, Kid

LEMMA PrecedesParts ==
  ASSUME NEW X, NEW Y, Precedes(X, Y), NEW U \in SUBSET X, NEW V \in SUBSET Y
  PROVE  Precedes(U, V)
BY DEF Precedes

(* Whatever a call finds is below its node, and nothing is below no node.  *)
LEMMA ReachBelow ==
  ASSUME NEW t, t.node \in Node
  PROVE  Reach(t) \subseteq Tree[t.node]
<1>1. CASE LooksUp(t)
  BY <1>1, KidBelow, PathAssumption DEF Reach
<1>2. CASE ~ LooksUp(t)
  BY <1>2, PathAssumption DEF Reach
<1> QED BY <1>1, <1>2

LEMMA ReachNone ==
  ASSUME NEW t, t.node = NULL
  PROVE  Reach(t) = {}
BY DEF Reach

LEMMA CallReach ==
  ASSUME NEW k, NEW n \in Node \cup {NULL}
  PROVE  /\ Call(k, n).node = n /\ Call(k, n).at = k /\ Call(k, n).from = NULL
         /\ n = NULL => Reach(Call(k, n)) = {}
         /\ n # NULL => Reach(Call(k, n)) \subseteq Tree[n]
<1>1. Call(k, n).node = n /\ Call(k, n).at = k /\ Call(k, n).from = NULL
  BY DEF Call
<1> QED BY <1>1, ReachNone, ReachBelow

(* A call is replaced by calls that together find no more than it, the     *)
(* first of them what comes first.                                         *)
Split(tasks) ==
  /\ tasks \in Seq(TaskFor(nodes))
  /\ \A k \in DOMAIN tasks : Reach(tasks[k]) \subseteq Reach(This)
  /\ \A k, l \in DOMAIN tasks : k < l => Precedes(Reach(tasks[k]), Reach(tasks[l]))

LEMMA Concatenation ==
  ASSUME NEW S, NEW s \in Seq(S), NEW r \in Seq(S)
  PROVE  /\ DOMAIN (s \o r) = 1 .. Len(s) + Len(r)
         /\ \A k \in 1 .. Len(s) + Len(r) :
              (s \o r)[k] = IF k <= Len(s) THEN s[k] ELSE r[k - Len(s)]
OBVIOUS

(* u is s and, behind it, what t has after its first element.              *)
JoinOf(s, t, u) ==
  /\ Len(s) \in Nat /\ DOMAIN s = 1 .. Len(s)
  /\ \A k \in DOMAIN u :
       \/ k \in DOMAIN s /\ u[k] = s[k]
       \/ /\ k > Len(s) /\ k - Len(s) + 1 \in DOMAIN t /\ k - Len(s) + 1 # 1
          /\ u[k] = t[k - Len(s) + 1]
  /\ 1 \in DOMAIN t /\ Head(t) = t[1]
  /\ \A k \in DOMAIN t : k > 1 =>
       /\ k - 1 + Len(s) \in DOMAIN u
       /\ u[k - 1 + Len(s)] = t[k]

LEMMA Joined ==
  ASSUME NEW S, NEW s \in Seq(S), NEW t \in Seq(S), t # <<>>
  PROVE  JoinOf(s, t, s \o Tail(t))
<1> DEFINE u == s \o Tail(t)
<1>1. /\ Len(s) \in Nat /\ DOMAIN s = 1 .. Len(s)
      /\ Len(t) \in Nat \ {0} /\ DOMAIN t = 1 .. Len(t) /\ Head(t) = t[1]
  OBVIOUS
<1>2. PICK r : r = Tail(t)
  OBVIOUS
<1>3. r \in Seq(S) /\ Len(r) = Len(t) - 1 /\ \A k \in 1 .. Len(t) - 1 : r[k] = t[k + 1]
  BY <1>2
<1>4. /\ DOMAIN u = 1 .. Len(s) + Len(r)
      /\ \A k \in 1 .. Len(s) + Len(r) :
           u[k] = IF k <= Len(s) THEN s[k] ELSE r[k - Len(s)]
  <2>1. u = s \o r
    BY <1>2
  <2>2. r \in Seq(S)
    BY <1>3
  <2> QED BY <2>1, <2>2, Concatenation
<1> HIDE DEF u
<1>5. ASSUME NEW k \in DOMAIN u, ~ (k <= Len(s))
      PROVE  /\ k > Len(s) /\ k - Len(s) + 1 \in DOMAIN t /\ k - Len(s) + 1 # 1
             /\ u[k] = t[k - Len(s) + 1]
  <2>1. k \in 1 .. Len(s) + (Len(t) - 1)
    BY <1>3, <1>4
  <2>2. k - Len(s) \in 1 .. Len(t) - 1
    BY <1>1, <1>5, <2>1
  <2>3. u[k] = r[k - Len(s)]
    BY <1>4, <1>5
  <2>4. r[k - Len(s)] = t[k - Len(s) + 1]
    BY <1>3, <2>2
  <2>5. k > Len(s) /\ k - Len(s) + 1 \in 1 .. Len(t) /\ k - Len(s) + 1 # 1
    BY <1>1, <1>5, <2>1, <2>2
  <2> QED BY <1>1, <2>3, <2>4, <2>5
<1>6. ASSUME NEW k \in DOMAIN u, k <= Len(s)
      PROVE  k \in DOMAIN s /\ u[k] = s[k]
  BY <1>1, <1>3, <1>4, <1>6
<1>7. ASSUME NEW k \in DOMAIN t, k > 1
      PROVE  k - 1 + Len(s) \in DOMAIN u /\ u[k - 1 + Len(s)] = t[k]
  <2>1. /\ k - 1 + Len(s) \in 1 .. Len(s) + Len(r) /\ ~ (k - 1 + Len(s) <= Len(s))
        /\ k - 1 + Len(s) - Len(s) = k - 1 /\ k - 1 \in 1 .. Len(t) - 1 /\ k - 1 + 1 = k
    BY <1>1, <1>3, <1>7
  <2>2. u[k - 1 + Len(s)] = r[k - 1]
    BY <1>4, <2>1
  <2>3. r[k - 1] = t[k]
    BY <1>3, <2>1
  <2>4. k - 1 + Len(s) \in DOMAIN u
    BY <1>4, <2>1
  <2> QED BY <2>2, <2>3, <2>4
<1>8. 1 \in DOMAIN t
  BY <1>1
<1>9. JoinOf(s, t, u)
  BY <1>1, <1>5, <1>6, <1>7, <1>8 DEF JoinOf
<1> QED BY <1>9 DEF u

LEMMA WalkOrdered ==
  ASSUME Typed, call = "match", todo # <<>>, Ordered, NEW tasks, Split(tasks), Walk(tasks)
  PROVE  Ordered'
<1>1. todo' = tasks \o Tail(todo) /\ nodes' = nodes /\ results' = results
  BY DEF Walk
<1>2. todo \in Seq(TaskFor(nodes)) /\ tasks \in Seq(TaskFor(nodes)) /\ This = Head(todo)
  BY TodoTyped DEF Typed, TypeOK, Split, This
<1> DEFINE m == Len(tasks)
<1>3. /\ m \in Nat /\ DOMAIN tasks = 1 .. m
      /\ \A k \in DOMAIN todo' :
           \/ k \in DOMAIN tasks /\ todo'[k] = tasks[k]
           \/ /\ k > m /\ k - m + 1 \in DOMAIN todo /\ k - m + 1 # 1
              /\ todo'[k] = todo[k - m + 1]
      /\ 1 \in DOMAIN todo /\ This = todo[1]
  <2>1. JoinOf(tasks, todo, todo')
    BY <1>1, <1>2, Joined
  <2> QED BY <1>2, <2>1 DEF JoinOf
<1> HIDE DEF m
<1>4. DOMAIN todo' \subseteq Nat /\ DOMAIN todo \subseteq Nat \ {0}
  <2>1. todo' \in Seq(TaskFor(nodes))
    BY <1>1, <1>2, Chained
  <2> QED BY <1>2, <2>1
<1>5. \A t : Reach(t)' = Reach(t)
  BY <1>1 DEF Reach, LooksUp, Takes
<1>6. ASSUME NEW i \in DOMAIN results', NEW k \in DOMAIN todo'
      PROVE  Precedes({results'[i]}, Reach(todo'[k]))
  <2>1. CASE k \in DOMAIN tasks /\ todo'[k] = tasks[k]
    <3>1. Precedes({results[i]}, Reach(todo[1]))
      BY <1>1, <1>3 DEF Ordered
    <3>2. Reach(tasks[k]) \subseteq Reach(todo[1])
      BY <1>3, <2>1 DEF Split
    <3> QED BY <1>1, <2>1, <3>1, <3>2, PrecedesParts
  <2>2. CASE k - m + 1 \in DOMAIN todo /\ todo'[k] = todo[k - m + 1]
    BY <1>1, <2>2 DEF Ordered
  <2> QED BY <1>3, <2>1, <2>2
<1>7. ASSUME NEW k \in DOMAIN todo', NEW l \in DOMAIN todo', k < l
      PROVE  Precedes(Reach(todo'[k]), Reach(todo'[l]))
  <2>1. CASE /\ k \in DOMAIN tasks /\ todo'[k] = tasks[k]
             /\ l \in DOMAIN tasks /\ todo'[l] = tasks[l]
    BY <1>7, <2>1 DEF Split
  <2>2. CASE /\ k \in DOMAIN tasks /\ todo'[k] = tasks[k]
             /\ l - m + 1 \in DOMAIN todo /\ l - m + 1 # 1 /\ todo'[l] = todo[l - m + 1]
    <3>1. 1 < l - m + 1
      BY <1>4, <2>2
    <3>2. Precedes(Reach(todo[1]), Reach(todo[l - m + 1]))
      BY <1>3, <2>2, <3>1 DEF Ordered
    <3>3. Reach(tasks[k]) \subseteq Reach(todo[1])
      BY <1>3, <2>2 DEF Split
    <3> QED BY <2>2, <3>2, <3>3, PrecedesParts
  <2>3. CASE /\ k > m /\ k - m + 1 \in DOMAIN todo /\ todo'[k] = todo[k - m + 1]
             /\ l > m /\ l - m + 1 \in DOMAIN todo /\ todo'[l] = todo[l - m + 1]
    <3>1. k - m + 1 < l - m + 1
      BY <1>3, <1>4, <1>7
    <3> QED BY <2>3, <3>1 DEF Ordered
  <2>4. CASE k > m /\ l \in DOMAIN tasks
    BY <1>3, <1>4, <1>7, <2>4
  <2> QED BY <1>3, <2>1, <2>2, <2>3, <2>4
<1>8. Ascending(results)'
  BY <1>1 DEF Ordered, Ascending
<1> QED BY <1>5, <1>6, <1>7, <1>8 DEF Ordered, Precedes

(* The cases in which the order of the calls is that of their nodes.       *)
LEMMA NoSplit ==
  Split(<<>>)
BY NoTasks DEF Split

LEMMA OneSplit ==
  ASSUME NEW t \in TaskFor(nodes), Reach(t) \subseteq Reach(This)
  PROVE  Split(<<t>>)
BY DEF Split

(* A call for each kid, which stays below it.                              *)
LEMMA KidsSplit ==
  ASSUME Here \in Node, ~ LooksUp(This), NEW tasks \in Seq(TaskFor(nodes)),
         DOMAIN tasks = DOMAIN Kids[Here],
         \A i \in DOMAIN tasks : Reach(tasks[i]) \subseteq Tree[Kid(Here, i)]
  PROVE  Split(tasks)
<1>1. Reach(This) = Tree[Here]
  BY PathAssumption DEF Reach, Here
<1>2. \A i \in DOMAIN tasks : Reach(tasks[i]) \subseteq Reach(This)
  BY <1>1, KidBelow
<1>3. \A k, l \in DOMAIN tasks : k < l => Precedes(Reach(tasks[k]), Reach(tasks[l]))
  BY KidsInOrder, PrecedesParts
<1> QED BY <1>2, <1>3 DEF Split

(* A call for one kid that the path node takes.                            *)
LEMMA TakenReach ==
  ASSUME Here \in Node, NEW i \in DOMAIN Kids[Here], LooksUp(This) => Takes(This, i)
  PROVE  Tree[Kid(Here, i)] \subseteq Reach(This)
<1>1. CASE LooksUp(This)
  BY <1>1, KidThere, BelowItself, PathAssumption DEF Reach, Here
<1>2. CASE ~ LooksUp(This)
  BY <1>2, KidBelow, PathAssumption DEF Reach, Here
<1> QED BY <1>1, <1>2

LEMMA OnwardReach ==
  ASSUME NEW n \in Node \cup {NULL}
  PROVE  /\ Onward(n).node = n /\ Onward(n).at = This.at + 1
         /\ n = NULL => Reach(Onward(n)) = {}
         /\ n # NULL => Reach(Onward(n)) \subseteq Tree[n]
BY CallReach DEF Onward

(* ".." before the i-th kid: what follows takes that kid, and no other.    *)
LEMMA EnteredReach ==
  ASSUME Here \in Node, nodes \in Seq(PathNode), This.at \in Nat \ {0}, This.at + 1 <= Len(nodes),
         NEW i \in DOMAIN Kids[Here], Entered(i)
  PROVE  Reach(Onward(Here)) \subseteq Tree[Kid(Here, i)]
<1>1. PICK t : t = Onward(Here)
  OBVIOUS
<1>2. t.node = Here /\ t.at = This.at + 1
  BY <1>1, OnwardReach
<1>3. nodes[t.at].type \in {"CHILD_MEMBER", "CHILD_ELEMENT"} /\ LooksUp(t)
  BY <1>2 DEF Entered, LooksUp
<1>4. \A j \in DOMAIN Kids[Here] : Takes(t, j) => j = i
  <2> SUFFICES ASSUME NEW j \in DOMAIN Kids[Here], Takes(t, j)
               PROVE  j = i
    OBVIOUS
  <2>1. Kids[Here] \in Seq([name : Name \cup {NULL}, node : Node])
    BY PathAssumption
  <2>2. i \in Nat /\ j \in Nat
    BY <2>1
  <2>3. CASE nodes[t.at].type = "CHILD_MEMBER"
    <3>1. Kind[Here] = "object" /\ Kids[Here][i].name = Kids[Here][j].name
      BY <1>2, <2>3 DEF Entered, Holds, Takes
    <3> QED BY <3>1, PathAssumption
  <2>4. CASE nodes[t.at].type = "CHILD_ELEMENT"
    <3>1. nodes[t.at].index = i - 1 /\ nodes[t.at].index = j - 1
      BY <1>2, <2>4 DEF Entered, Takes
    <3> QED BY <2>2, <3>1
  <2> QED BY <1>3, <2>3, <2>4
<1>5. t.node # NULL
  BY <1>2, PathAssumption
<1>6. Reach(t) \subseteq Tree[Kid(Here, i)]
  BY <1>2, <1>3, <1>4, <1>5 DEF Reach
<1> QED BY <1>1, <1>6

(* No call of a loop that turns away from its end is ever the last.        *)
LEMMA EndlessKept ==
  ASSUME Typed, call = "match", todo # <<>>, Endless, NEW tasks \in Seq(TaskFor(nodes)), Walk(tasks),
         Turning(This) => \E k \in DOMAIN tasks : Turning(tasks[k])
  PROVE  Endless'
<1>1. todo' = tasks \o Tail(todo) /\ nodes' = nodes
  BY DEF Walk
<1>2. todo \in Seq(TaskFor(nodes)) /\ This = Head(todo)
  BY TodoTyped DEF Typed, TypeOK, This
<1>3. \A t : Turning(t)' <=> Turning(t)
  BY <1>1 DEF Turning
<1>4. PICK k \in DOMAIN todo : Turning(todo[k])
  BY DEF Endless
<1>5. /\ Len(tasks) \in Nat /\ DOMAIN tasks = 1 .. Len(tasks) /\ This = todo[1]
      /\ k > 1 => k - 1 + Len(tasks) \in DOMAIN todo' /\ todo'[k - 1 + Len(tasks)] = todo[k]
  <2>1. JoinOf(tasks, todo, todo')
    BY <1>1, <1>2, Joined
  <2> QED BY <1>2, <2>1 DEF JoinOf
<1>6. CASE k > 1
  BY <1>3, <1>4, <1>5, <1>6 DEF Endless
<1>7. CASE ~ (k > 1)
  <2>1. k = 1
    BY <1>2, <1>7
  <2>2. PICK j \in DOMAIN tasks : Turning(tasks[j])
    BY <1>4, <1>5, <2>1
  <2>3. j \in DOMAIN todo' /\ todo'[j] = tasks[j]
    <3>1. Tail(todo) \in Seq(TaskFor(nodes))
      BY <1>2
    <3> QED BY <1>1, <3>1
  <2> QED BY <1>3, <2>2, <2>3 DEF Endless
<1> QED BY <1>6, <1>7

(* One turn of the walk: a call becomes the calls it makes.                *)
Moves ==
  \E tasks : Split(tasks) /\ Walk(tasks) /\ (Turning(This) => \E k \in DOMAIN tasks : Turning(tasks[k]))

LEMMA MovesKeep ==
  ASSUME Typed, call = "match", todo # <<>>, Endless \/ Ordered, Moves
  PROVE  Endless' \/ Ordered'
<1>1. PICK tasks :
        /\ Split(tasks) /\ Walk(tasks)
        /\ Turning(This) => \E k \in DOMAIN tasks : Turning(tasks[k])
  BY DEF Moves
<1>2. tasks \in Seq(TaskFor(nodes))
  BY <1>1 DEF Split
<1>3. CASE Endless
  BY <1>1, <1>2, <1>3, EndlessKept
<1>4. CASE Ordered
  BY <1>1, <1>4, WalkOrdered
<1> QED BY <1>3, <1>4

(* The call that is next, at a node of the path.                           *)
LEMMA WalkingHere ==
  ASSUME Typed, NEW type, Walking(type)
  PROVE  /\ call = "match" /\ todo # <<>> /\ This.at \in Nat \ {0} /\ This.at <= Len(nodes)
         /\ Len(nodes) \in Nat /\ nodes \in Seq(PathNode) /\ Here \in Node \cup {NULL}
         /\ nodes[This.at] = PathHere /\ PathHere \in PathNode /\ PathHere.type = type
         /\ type # "ELEMENT_SLICE" => ~ Turning(This)
         /\ LooksUp(This) <=> type \in {"CHILD_MEMBER", "CHILD_ELEMENT", "ELEMENT_SLICE"}
<1>1. call = "match" /\ todo # <<>> /\ This.at <= Len(nodes) /\ PathHere.type = type
  BY DEF Walking
<1>2. /\ This.at \in Nat \ {0} /\ nodes \in Seq(PathNode) /\ Here \in Node \cup {NULL}
      /\ PathHere \in PathNode /\ Len(nodes) \in Nat
  BY <1>1, CallTyped DEF Typed, TypeOK
<1>3. nodes[This.at] = PathHere
  BY DEF PathHere
<1> QED BY <1>1, <1>2, <1>3 DEF Turning, LooksUp

LEMMA RootMoves ==
  ASSUME Typed, WalkRoot
  PROVE  Moves
<1>1. Walking("ROOT") /\ Walk(<<Onward(Here)>>)
  BY DEF WalkRoot
<1>2. /\ call = "match" /\ todo # <<>> /\ This.at <= Len(nodes) /\ Here \in Node \cup {NULL}
      /\ ~ Turning(This) /\ ~ LooksUp(This)
  BY <1>1, WalkingHere
<1>3. Onward(Here) \in TaskFor(nodes)
  BY <1>2, OnwardTyped
<1>4. Reach(Onward(Here)) \subseteq Reach(This)
  <2>1. Here # NULL => Reach(This) = Tree[Here]
    BY <1>2 DEF Reach, Here
  <2> QED BY <1>2, <2>1, OnwardReach
<1> QED BY <1>1, <1>2, <1>3, <1>4, OneSplit DEF Moves

LEMMA MemberMoves ==
  ASSUME Typed, WalkMember
  PROVE  Moves
<1>1. Walking("CHILD_MEMBER")
  BY DEF WalkMember
<1>2. /\ call = "match" /\ todo # <<>> /\ This.at <= Len(nodes) /\ Here \in Node \cup {NULL}
      /\ ~ Turning(This) /\ nodes[This.at] = PathHere /\ PathHere.type = "CHILD_MEMBER"
  BY <1>1, WalkingHere
<1>3. CASE Walk(<<>>)
  BY <1>2, <1>3, NoSplit DEF Moves
<1>4. CASE ~ Walk(<<>>)
  <2>1. PICK i \in DOMAIN Kids[Here] :
          Here # NULL /\ Kids[Here][i].name = PathHere.name /\ Walk(<<Onward(Kids[Here][i].node)>>)
    BY <1>4 DEF WalkMember, Holds
  <2>2. Here \in Node /\ Kid(Here, i) \in Node /\ Kid(Here, i) = Kids[Here][i].node
    BY <1>2, <2>1, KidThere
  <2>3. Takes(This, i)
    BY <1>2, <2>1 DEF Takes, Here
  <2>4. Reach(Onward(Kid(Here, i))) \subseteq Reach(This)
    <3>1. Kid(Here, i) # NULL
      BY <2>2, PathAssumption
    <3> QED BY <2>2, <2>3, <3>1, TakenReach, OnwardReach
  <2>5. Onward(Kid(Here, i)) \in TaskFor(nodes)
    BY <1>2, <2>2, OnwardTyped
  <2> QED BY <1>2, <2>1, <2>2, <2>4, <2>5, OneSplit DEF Moves
<1> QED BY <1>3, <1>4

(* What an array has at an index, if anything.                             *)
LEMMA ElementKid ==
  ASSUME Here \in Node, NEW i \in Int
  PROVE  \/ Element(i) = NULL
         \/ i + 1 \in DOMAIN Kids[Here] /\ Element(i) = Kid(Here, i + 1) /\ Element(i) \in Node
<1>1. Kids[Here] \in Seq([name : Name \cup {NULL}, node : Node])
  BY PathAssumption
<1>2. CASE i \in 0 .. Len(Kids[Here]) - 1
  <2>1. i + 1 \in DOMAIN Kids[Here]
    BY <1>1, <1>2
  <2> QED BY <1>2, <2>1, KidThere DEF Element
<1>3. CASE i \notin 0 .. Len(Kids[Here]) - 1
  BY <1>3 DEF Element
<1> QED BY <1>2, <1>3

(* A call for it stays where the path node may take it.                    *)
LEMMA ElementReach ==
  ASSUME Here \in Node, NEW i \in Int, LooksUp(This) /\ i + 1 \in DOMAIN Kids[Here] => Takes(This, i + 1)
  PROVE  /\ Reach(Onward(Element(i))) \subseteq Reach(This)
         /\ \/ Reach(Onward(Element(i))) = {}
            \/ i + 1 \in DOMAIN Kids[Here] /\ Reach(Onward(Element(i))) \subseteq Tree[Kid(Here, i + 1)]
<1>1. CASE Element(i) = NULL
  BY <1>1, OnwardReach
<1>2. CASE i + 1 \in DOMAIN Kids[Here] /\ Element(i) = Kid(Here, i + 1) /\ Element(i) \in Node
  <2>1. Element(i) # NULL
    BY <1>2, PathAssumption
  <2>2. Reach(Onward(Element(i))) \subseteq Tree[Kid(Here, i + 1)]
    BY <1>2, <2>1, OnwardReach
  <2>3. Tree[Kid(Here, i + 1)] \subseteq Reach(This)
    BY <1>2, TakenReach
  <2> QED BY <1>2, <2>2, <2>3
<1> QED BY <1>1, <1>2, ElementKid

LEMMA ElementMoves ==
  ASSUME Typed, WalkElement
  PROVE  Moves
<1>1. Walking("CHILD_ELEMENT")
  BY DEF WalkElement
<1>2. /\ call = "match" /\ todo # <<>> /\ This.at <= Len(nodes) /\ Here \in Node \cup {NULL}
      /\ ~ Turning(This) /\ nodes[This.at] = PathHere /\ PathHere.type = "CHILD_ELEMENT"
      /\ PathHere \in PathNode
  BY <1>1, WalkingHere
<1>3. CASE Walk(<<>>)
  BY <1>2, <1>3, NoSplit DEF Moves
<1>4. CASE ~ Walk(<<>>)
  <2>1. Here \in Node /\ PathHere.index \in Int /\ Walk(<<Onward(Element(PathHere.index))>>)
    BY <1>2, <1>4 DEF WalkElement, Holds
  <2>2. PICK i \in Int : i = PathHere.index
    BY <2>1
  <2>3. i + 1 \in DOMAIN Kids[Here] => Takes(This, i + 1)
    BY <1>2, <2>2 DEF Takes, Here
  <2>4. Reach(Onward(Element(i))) \subseteq Reach(This)
    BY <2>1, <2>3, ElementReach
  <2>5. Onward(Element(i)) \in TaskFor(nodes)
    BY <1>2, <2>1, ElementTyped, OnwardTyped, PathAssumption
  <2> QED BY <1>2, <2>1, <2>2, <2>4, <2>5, OneSplit DEF Moves
<1> QED BY <1>3, <1>4

LEMMA DescentMoves ==
  ASSUME Typed, WalkDescent
  PROVE  Moves
<1>1. Walking("RECURSIVE_DESCENT")
  BY DEF WalkDescent
<1>2. /\ call = "match" /\ todo # <<>> /\ This.at <= Len(nodes) /\ Here \in Node \cup {NULL}
      /\ ~ Turning(This) /\ ~ LooksUp(This) /\ nodes[This.at] = PathHere
      /\ PathHere.type = "RECURSIVE_DESCENT" /\ This.at \in Nat \ {0} /\ nodes \in Seq(PathNode)
      /\ Len(nodes) \in Nat
  BY <1>1, WalkingHere
<1>3. CASE Here = NULL
  BY <1>2, <1>3, NoSplit DEF Moves, WalkDescent
<1>4. CASE Here # NULL
  <2> DEFINE tasks == [i \in DOMAIN Kids[Here] |->
                         IF Entered(i) THEN Onward(Here) ELSE Call(This.at, Kids[Here][i].node)]
  <2>1. Walk(tasks)
    BY <1>4 DEF WalkDescent
  <2>2. /\ tasks = [i \in DOMAIN Kids[Here] |-> tasks[i]] /\ DOMAIN tasks = DOMAIN Kids[Here]
        /\ \A i \in DOMAIN Kids[Here] :
             \/ Entered(i) /\ tasks[i] = Onward(Here)
             \/ tasks[i] = Call(This.at, Kids[Here][i].node)
    OBVIOUS
  <2> HIDE DEF tasks
  <2>3. tasks \in Seq(TaskFor(nodes))
    BY <1>2, <1>4, <2>2, KidsTyped
  <2>4. This.at + 1 <= Len(nodes)
    <3>1. This.at \in DOMAIN nodes /\ nodes[This.at].type = "RECURSIVE_DESCENT"
      BY <1>2
    <3>2. This.at + 1 \in DOMAIN nodes
      BY <3>1 DEF Typed, Inv, Owed
    <3> QED BY <1>2, <3>2
  <2>5. ASSUME NEW i \in DOMAIN tasks
        PROVE  Reach(tasks[i]) \subseteq Tree[Kid(Here, i)]
    <3>1. Here \in Node /\ i \in DOMAIN Kids[Here]
      BY <1>2, <1>4, <2>2
    <3>2. Kid(Here, i) \in Node /\ Kid(Here, i) = Kids[Here][i].node /\ Kid(Here, i) # NULL
      BY <3>1, KidThere, PathAssumption
    <3>3. Reach(Call(This.at, Kid(Here, i))) \subseteq Tree[Kid(Here, i)]
      BY <3>2, CallReach
    <3>4. Entered(i) => Reach(Onward(Here)) \subseteq Tree[Kid(Here, i)]
      BY <1>2, <2>4, <3>1, EnteredReach
    <3> QED BY <2>2, <3>1, <3>2, <3>3, <3>4
  <2> QED BY <1>2, <1>4, <2>1, <2>2, <2>3, <2>5, KidsSplit DEF Moves
<1> QED BY <1>3, <1>4

LEMMA WildcardMoves ==
  ASSUME Typed, WalkWildcard
  PROVE  Moves
<1>1. PICK kind \in {"object", "array"} :
        /\ Walking(IF kind = "object" THEN "WILDCARD_MEMBER" ELSE "WILDCARD_ELEMENT")
        /\ IF Holds(kind) THEN Walk(EachKid) ELSE Walk(<<Call(Len(nodes) + 1, Here)>>)
  BY DEF WalkWildcard
<1>2. /\ call = "match" /\ todo # <<>> /\ This.at <= Len(nodes) /\ Here \in Node \cup {NULL}
      /\ ~ Turning(This) /\ ~ LooksUp(This) /\ nodes \in Seq(PathNode) /\ Len(nodes) \in Nat
  BY <1>1, WalkingHere
<1>3. CASE Holds(kind)
  <2>1. Here \in Node /\ Here # NULL
    BY <1>2, <1>3 DEF Holds
  <2>2. /\ EachKid = [i \in DOMAIN Kids[Here] |-> EachKid[i]] /\ DOMAIN EachKid = DOMAIN Kids[Here]
        /\ \A i \in DOMAIN Kids[Here] : EachKid[i] = Onward(Kids[Here][i].node)
    BY DEF EachKid
  <2>3. EachKid \in Seq(TaskFor(nodes))
    BY <1>2, <2>1, <2>2, KidsTyped
  <2>4. ASSUME NEW i \in DOMAIN EachKid
        PROVE  Reach(EachKid[i]) \subseteq Tree[Kid(Here, i)]
    <3>1. Kid(Here, i) \in Node /\ Kid(Here, i) = Kids[Here][i].node /\ Kid(Here, i) # NULL
      BY <2>1, <2>2, KidThere, PathAssumption
    <3> QED BY <2>2, <3>1, OnwardReach
  <2> QED BY <1>1, <1>2, <1>3, <2>1, <2>2, <2>3, <2>4, KidsSplit DEF Moves
<1>4. CASE ~ Holds(kind)
  <2>1. Call(Len(nodes) + 1, Here) \in TaskFor(nodes)
    <3>1. Len(nodes) + 1 \in Nat \ {0}
      BY <1>2
    <3> QED BY <1>2, <3>1, CallsTyped
  <2>2. Reach(Call(Len(nodes) + 1, Here)) \subseteq Reach(This)
    <3>1. Here # NULL => Reach(This) = Tree[Here]
      BY <1>2 DEF Reach, Here
    <3> QED BY <1>2, <3>1, CallReach
  <2> QED BY <1>1, <1>2, <1>4, <2>1, <2>2, OneSplit DEF Moves
<1> QED BY <1>3, <1>4

(* One turn of the loop over a slice: the element, then those after it; or *)
(* the loop turns away from its end, for good.                             *)
LEMMA SliceMoves ==
  ASSUME Typed, WalkSlice
  PROVE  Moves \/ Endless'
<1>1. Walking("ELEMENT_SLICE")
  BY DEF WalkSlice
<1>2. /\ call = "match" /\ todo # <<>> /\ This.at <= Len(nodes) /\ Here \in Node \cup {NULL}
      /\ nodes[This.at] = PathHere /\ PathHere.type = "ELEMENT_SLICE" /\ PathHere \in PathNode
      /\ LooksUp(This)
  BY <1>1, WalkingHere
<1>3. /\ PathHere.start \in Int /\ PathHere.end \in Int /\ PathHere.step \in Int
      /\ This \in TaskFor(nodes) /\ This \in Task /\ This.from \in Int \cup {NULL}
  <2>1. This \in TaskFor(nodes)
    BY <1>2, CallTyped
  <2>2. This.from \in Int \cup {NULL}
    BY <2>1 DEF TaskFor, Task
  <2> QED BY <1>2, <2>1, <2>2 DEF PathNode, TaskFor
<1>4. PICK shift : shift = IF PathHere.start < 0 THEN Len(Kids[Here]) ELSE 0
  OBVIOUS
<1>5. PICK i : i = IF This.from = NULL THEN PathHere.start + shift ELSE This.from
  OBVIOUS
<1>6. IF Holds("array") /\ i < PathHere.end + shift
      THEN Walk(<<Onward(Element(i)), [This EXCEPT !.from = i + PathHere.step]>>)
      ELSE Walk(<<>>)
  BY <1>4, <1>5 DEF WalkSlice
<1>7. CASE ~ (Holds("array") /\ i < PathHere.end + shift)
  <2>1. ~ Turning(This)
    BY <1>2, <1>4, <1>5, <1>7 DEF Turning, Holds, Here
  <2> QED BY <1>6, <1>7, <2>1, NoSplit DEF Moves
<1>8. CASE Holds("array") /\ i < PathHere.end + shift
  <2>1. Here \in Node /\ Here # NULL /\ Kind[Here] = "array"
    BY <1>2, <1>8 DEF Holds
  <2>2. Kids[Here] \in Seq([name : Name \cup {NULL}, node : Node])
    BY <2>1, PathAssumption
  <2>3. shift \in Int /\ i \in Int
    BY <1>3, <1>4, <1>5, <2>2
  <2>4. PICK t : t = [This EXCEPT !.from = i + PathHere.step]
    OBVIOUS
  <2>5. /\ t \in TaskFor(nodes) /\ t.node = Here /\ t.at = This.at
        /\ t.from = i + PathHere.step /\ t.from \in Int
    BY <1>3, <2>3, <2>4 DEF TaskFor, Task, Here
  <2>6. PICK f : f = Onward(Element(i))
    OBVIOUS
  <2>7. f \in TaskFor(nodes)
    BY <1>2, <2>1, <2>3, <2>6, ElementTyped, OnwardTyped
  <2>8. Walk(<<f, t>>) /\ <<f, t>> \in Seq(TaskFor(nodes))
    BY <1>6, <1>8, <2>4, <2>5, <2>6, <2>7
  <2>9. CASE PathHere.step <= 0
    <3>1. i + PathHere.step < PathHere.end + shift
      BY <1>3, <1>8, <2>3, <2>9
    <3>2. i + PathHere.step # NULL
      BY <1>2, <2>1, <2>5, PathAssumption
    <3>3. Turning(t)
      BY <1>2, <1>4, <2>1, <2>5, <2>9, <3>1, <3>2 DEF Turning
    <3>4. todo' = <<f, t>> \o Tail(todo) /\ nodes' = nodes
      BY <2>8 DEF Walk
    <3>5. 2 \in DOMAIN todo' /\ todo'[2] = t
      <4>1. Tail(todo) \in Seq(TaskFor(nodes))
        BY <1>2, TodoTyped DEF Typed, TypeOK
      <4> QED BY <2>8, <3>4, <4>1
    <3>6. Turning(t)'
      BY <3>3, <3>4 DEF Turning
    <3> QED BY <3>5, <3>6 DEF Endless
  <2>10. CASE PathHere.step > 0
    <3>1. ~ Turning(This)
      BY <1>2, <1>3, <2>10 DEF Turning
    <3>2. i + 1 \in DOMAIN Kids[Here] => Takes(This, i + 1)
      BY <1>2, <1>5, <2>3 DEF Takes
    <3>3. /\ Reach(f) \subseteq Reach(This)
          /\ \/ Reach(f) = {}
             \/ i + 1 \in DOMAIN Kids[Here] /\ Reach(f) \subseteq Tree[Kid(Here, i + 1)]
      BY <2>1, <2>3, <2>6, <3>2, ElementReach
    <3>4. ASSUME NEW y \in Reach(t)
          PROVE  \E j \in DOMAIN Kids[Here] : i + 1 < j /\ y \in Tree[Kid(Here, j)]
      <4>1. PICK j \in DOMAIN Kids[Here] : Takes(t, j) /\ y \in Tree[Kid(Here, j)]
        BY <1>2, <2>1, <2>5 DEF Reach, LooksUp
      <4>2. t.from <= j - 1
        BY <1>2, <2>5, <4>1, PathAssumption DEF Takes
      <4>3. j \in Int
        BY <2>2
      <4> QED BY <1>3, <2>3, <2>5, <2>10, <4>1, <4>2, <4>3
    <3>5. Reach(t) \subseteq Reach(This)
      <4> SUFFICES ASSUME NEW y \in Reach(t) PROVE y \in Reach(This)
        OBVIOUS
      <4>1. PICK j \in DOMAIN Kids[Here] : i + 1 < j /\ y \in Tree[Kid(Here, j)]
        BY <3>4
      <4>2. j \in Int
        BY <2>2
      <4>3. Takes(This, j)
        BY <1>2, <1>5, <2>3, <4>1, <4>2 DEF Takes
      <4> QED BY <2>1, <4>1, <4>3, TakenReach
    <3>6. Precedes(Reach(f), Reach(t))
      <4> SUFFICES ASSUME NEW x \in Reach(f), NEW y \in Reach(t) PROVE Before(x, y)
        BY DEF Precedes
      <4>1. i + 1 \in DOMAIN Kids[Here] /\ x \in Tree[Kid(Here, i + 1)]
        BY <3>3
      <4>2. PICK j \in DOMAIN Kids[Here] : i + 1 < j /\ y \in Tree[Kid(Here, j)]
        BY <3>4
      <4> QED BY <2>1, <4>1, <4>2, KidsInOrder DEF Precedes
    <3>7. Split(<<f, t>>)
      BY <2>8, <3>3, <3>5, <3>6 DEF Split
    <3> QED BY <2>8, <3>1, <3>7 DEF Moves
  <2> QED BY <1>3, <2>9, <2>10
<1> QED BY <1>7, <1>8

LEMMA DeliverOrdered ==
  ASSUME Typed, Deliver, Ordered
  PROVE  Ordered'
<1>1. /\ call = "match" /\ todo # <<>> /\ todo' = Tail(todo) /\ nodes' = nodes
      /\ results' = IF Here = NULL THEN results ELSE Append(results, Here)
      /\ This.at > Len(nodes)
  BY DEF Deliver
<1>2. /\ todo \in Seq(TaskFor(nodes)) /\ This = todo[1] /\ 1 \in DOMAIN todo
      /\ DOMAIN todo' \subseteq Nat \ {0}
      /\ \A k \in DOMAIN todo' : k + 1 \in DOMAIN todo /\ todo'[k] = todo[k + 1]
  <2>1. todo \in Seq(TaskFor(nodes))
    BY TodoTyped DEF Typed, TypeOK
  <2> QED BY <1>1, <2>1 DEF This
<1>3. results \in Seq(Node) /\ Here \in Node \cup {NULL} /\ This.at \in Nat \ {0} /\ Len(nodes) \in Nat
  BY <1>1, CallTyped DEF Typed, TypeOK
<1>4. \A t : Reach(t)' = Reach(t)
  BY <1>1 DEF Reach, LooksUp, Takes
<1>5. \A k, l \in DOMAIN todo' : k < l => Precedes(Reach(todo'[k]), Reach(todo'[l]))
  <2> SUFFICES ASSUME NEW k \in DOMAIN todo', NEW l \in DOMAIN todo', k < l
               PROVE  Precedes(Reach(todo'[k]), Reach(todo'[l]))
    OBVIOUS
  <2>1. k + 1 < l + 1
    BY <1>2
  <2> QED BY <1>2, <2>1 DEF Ordered
<1>6. CASE Here = NULL
  <2>1. results' = results
    BY <1>1, <1>6
  <2>2. Ascending(results)'
    BY <2>1 DEF Ordered, Ascending
  <2>3. \A i \in DOMAIN results' : \A k \in DOMAIN todo' : Precedes({results'[i]}, Reach(todo'[k]))
    BY <1>2, <2>1 DEF Ordered
  <2> QED BY <1>4, <1>5, <2>2, <2>3 DEF Ordered, Precedes
<1>7. CASE Here # NULL
  <2>1. Here \in Reach(This)
    <3>1. ~ LooksUp(This) /\ Here \in Tree[Here]
      BY <1>1, <1>3, <1>7, BelowItself DEF LooksUp
    <3> QED BY <1>7, <3>1 DEF Reach, Here
  <2>2. /\ results' = Append(results, Here) /\ DOMAIN results = 1 .. Len(results) /\ Len(results) \in Nat
        /\ DOMAIN results' = 1 .. (Len(results) + 1) /\ results'[Len(results) + 1] = Here
        /\ \A i \in DOMAIN results : results'[i] = results[i]
    BY <1>1, <1>3, <1>7
  <2>3. Ascending(results)'
    <3> SUFFICES ASSUME NEW i \in DOMAIN results', NEW j \in DOMAIN results', i < j
                 PROVE  Before(results'[i], results'[j])
      BY DEF Ascending
    <3>1. i \in DOMAIN results /\ results'[i] = results[i]
      BY <2>2
    <3>2. CASE j = Len(results) + 1
      <4>1. Precedes({results[i]}, Reach(This))
        BY <1>2, <3>1 DEF Ordered
      <4> QED BY <2>1, <2>2, <3>1, <3>2, <4>1 DEF Precedes
    <3>3. CASE j # Len(results) + 1
      BY <2>2, <3>1, <3>3 DEF Ordered, Ascending
    <3> QED BY <3>2, <3>3
  <2>4. \A i \in DOMAIN results' : \A k \in DOMAIN todo' : Precedes({results'[i]}, Reach(todo'[k]))
    <3> SUFFICES ASSUME NEW i \in DOMAIN results', NEW k \in DOMAIN todo'
                 PROVE  Precedes({results'[i]}, Reach(todo'[k]))
      OBVIOUS
    <3>1. CASE i = Len(results) + 1
      <4>1. 1 < k + 1
        BY <1>2
      <4>2. Precedes(Reach(This), Reach(todo'[k]))
        BY <1>2, <4>1 DEF Ordered
      <4> QED BY <2>1, <2>2, <3>1, <4>2 DEF Precedes
    <3>2. CASE i # Len(results) + 1
      BY <1>2, <2>2, <3>2 DEF Ordered
    <3> QED BY <3>1, <3>2
  <2> QED BY <1>4, <1>5, <2>3, <2>4 DEF Ordered, Precedes
<1> QED BY <1>6, <1>7

LEMMA DeliverEndless ==
  ASSUME Typed, Deliver, Endless
  PROVE  Endless'
<1>1. /\ call = "match" /\ todo # <<>> /\ todo' = Tail(todo) /\ nodes' = nodes
      /\ This.at > Len(nodes) /\ This = Head(todo)
  BY DEF Deliver, This
<1>2. todo \in Seq(TaskFor(nodes)) /\ This.at \in Nat \ {0} /\ Len(nodes) \in Nat
  BY <1>1, CallTyped, TodoTyped DEF Typed, TypeOK
<1>3. PICK k \in DOMAIN todo : Turning(todo[k])
  BY DEF Endless
<1>4. k # 1
  BY <1>1, <1>2, <1>3 DEF Turning
<1>5. k - 1 \in DOMAIN todo' /\ todo'[k - 1] = todo[k]
  BY <1>1, <1>2, <1>4
<1>6. \A t : Turning(t)' <=> Turning(t)
  BY <1>1 DEF Turning
<1> QED BY <1>3, <1>5, <1>6 DEF Endless

(* The compiler makes a node for an index set of an index set only.        *)
LEMMA NoneSetless ==
  NoSets(<<>>)
BY DEF NoSets

LEMMA TailSetless ==
  ASSUME NEW e \in Seq(Token), e # <<>>, Setless(e)
  PROVE  Setless(Tail(e)) /\ Head(e).t # "set"
<1>1. /\ \A i \in DOMAIN Tail(e) : i + 1 \in DOMAIN e /\ Tail(e)[i] = e[i + 1]
      /\ 1 \in DOMAIN e /\ Head(e) = e[1]
  OBVIOUS
<1> QED BY <1>1 DEF Setless

LEMMA BuildTraced ==
  ASSUME Inv, Traced, call = "compile", rest # <<>>, NEW list, Build(list),
         Setless(said) => NoSets(list)
  PROVE  Traced'
<1>1. /\ building' = list /\ rest' = Tail(rest)
      /\ UNCHANGED <<nodes, call, said, root, compiled>>
  BY DEF Build, walker
<1>2. rest \in Seq(Token)
  BY DEF Inv
<1> QED BY <1>1, <1>2, TailSetless DEF Traced, Setless, NoSets

LEMMA AddTraced ==
  ASSUME Inv, Traced, call = "compile", rest # <<>>, NEW n \in PathNode, Add(n),
         n.type = "ELEMENT_SET" => Head(rest).t = "set"
  PROVE  Traced'
<1>1. building \in Seq(PathNode) /\ rest \in Seq(Token)
  BY DEF Inv
<1>2. ASSUME Setless(said)
      PROVE  NoSets(Append(building, n))
  <2>1. NoSets(building) /\ Head(rest).t # "set"
    BY <1>1, <1>2, TailSetless DEF Traced
  <2> QED BY <1>1, <2>1 DEF NoSets
<1> QED BY <1>2, BuildTraced DEF Add

LEMMA CompileTraced ==
  ASSUME Inv, Traced, CompileStep
  PROVE  Traced'
<1>0. call = "compile"
  BY DEF CompileStep, CompileRoot, CompileDot, CompileBracket, CompileSlice, CompileJunk,
       CompileDone, At
<1>1. ASSUME Refuse PROVE Traced'
  <2>1. call' = "none" /\ UNCHANGED <<nodes, compiled>>
    BY <1>1 DEF Refuse
  <2> QED BY <2>1 DEF Traced, Setless, NoSets
<1>2. rest # <<>> => Head(rest) \in Token
  BY TailDots DEF Inv
<1>3. CASE CompileRoot
  <2>1. CASE Build(<<[type |-> "ROOT"]>>)
    <3>1. NoSets(<<[type |-> "ROOT"]>>)
      BY DEF NoSets
    <3> QED BY <1>0, <1>3, <2>1, <3>1, BuildTraced DEF CompileRoot, At
  <2> QED BY <1>1, <1>3, <2>1 DEF CompileRoot
<1>4. CASE CompileDot
  <2>1. CASE At({".."}) /\ Add([type |-> "RECURSIVE_DESCENT"])
    <3>1. [type |-> "RECURSIVE_DESCENT"] \in PathNode
      BY DEF PathNode
    <3> QED BY <1>0, <2>1, <3>1, AddTraced DEF At
  <2>2. CASE At({".*"}) /\ Add([type |-> "WILDCARD_MEMBER"])
    <3>1. [type |-> "WILDCARD_MEMBER"] \in PathNode
      BY DEF PathNode
    <3> QED BY <1>0, <2>2, <3>1, AddTraced DEF At
  <2>3. CASE At({"name"}) /\ Add([type |-> "CHILD_MEMBER", name |-> Head(rest).name])
    <3>1. rest # <<>> /\ Head(rest).t = "name"
      BY <2>3 DEF At
    <3>2. Head(rest).name \in Name
      BY <1>2, <3>1 DEF Token
    <3>3. [type |-> "CHILD_MEMBER", name |-> Head(rest).name] \in PathNode
      BY <3>2 DEF PathNode
    <3> QED BY <1>0, <2>3, <3>1, <3>3, AddTraced
  <2> QED BY <1>1, <1>4, <2>1, <2>2, <2>3 DEF CompileDot
<1>5. CASE CompileBracket
  <2>1. CASE At({"[*]"}) /\ Add([type |-> "WILDCARD_ELEMENT"])
    <3>1. [type |-> "WILDCARD_ELEMENT"] \in PathNode
      BY DEF PathNode
    <3> QED BY <1>0, <2>1, <3>1, AddTraced DEF At
  <2>2. CASE At({"index"}) /\ Add([type |-> "CHILD_ELEMENT", index |-> Head(rest).index])
    <3>1. rest # <<>> /\ Head(rest).t = "index"
      BY <2>2 DEF At
    <3>2. Head(rest).index \in Int
      BY <1>2, <3>1 DEF Token
    <3>3. [type |-> "CHILD_ELEMENT", index |-> Head(rest).index] \in PathNode
      BY <3>2 DEF PathNode
    <3> QED BY <1>0, <2>2, <3>1, <3>3, AddTraced
  <2>3. CASE At({"set"}) /\ Add([type |-> "ELEMENT_SET", indices |-> Head(rest).indices])
    <3>1. rest # <<>> /\ Head(rest).t = "set"
      BY <2>3 DEF At
    <3>2. Head(rest).indices \in Seq(Int)
      BY <1>2, <3>1 DEF Token
    <3>3. [type |-> "ELEMENT_SET", indices |-> Head(rest).indices] \in PathNode
      BY <3>2 DEF PathNode
    <3> QED BY <1>0, <2>3, <3>1, <3>3, AddTraced
  <2> QED BY <1>1, <1>5, <2>1, <2>2, <2>3 DEF CompileBracket
<1>6. CASE CompileSlice
  <2>1. CASE Add(SliceOf(Head(rest)))
    <3>1. rest # <<>> /\ Head(rest).t = "slice"
      BY <1>6 DEF CompileSlice, At
    <3>2. SliceOf(Head(rest)) \in PathNode /\ SliceOf(Head(rest)).type = "ELEMENT_SLICE"
      BY <1>2, <3>1, SliceType DEF SliceOf
    <3> QED BY <1>0, <2>1, <3>1, <3>2, AddTraced
  <2> QED BY <1>1, <1>6, <2>1 DEF CompileSlice
<1>7. CASE CompileJunk
  <2>1. CASE Build(building)
    <3>1. Setless(said) => NoSets(building)
      BY <1>0 DEF Traced
    <3> QED BY <1>0, <1>7, <2>1, <3>1, BuildTraced DEF CompileJunk, At
  <2> QED BY <1>1, <1>7, <2>1 DEF CompileJunk
<1>8. CASE CompileDone
  <2>1. /\ nodes' = building /\ call' = "none"
        /\ compiled' = IF building = <<>> THEN compiled ELSE said
    BY <1>8 DEF CompileDone
  <2>2. CASE building = <<>>
    BY <2>1, <2>2, NoneSetless DEF Traced, NoSets
  <2>3. CASE building # <<>>
    BY <1>0, <2>1, <2>3 DEF Traced, Setless, NoSets
  <2> QED BY <2>2, <2>3
<1> QED BY <1>3, <1>4, <1>5, <1>6, <1>7, <1>8 DEF CompileStep

(* A walk leaves the path alone.                                           *)
LEMMA WalkFixed ==
  ASSUME WalkStep
  PROVE  call = "match" /\ UNCHANGED <<nodes, building, rest, said, root, compiled>>
BY DEF WalkStep, Deliver, WalkRoot, WalkMember, WalkElement, WalkDescent, WalkWildcard, WalkSet,
   WalkSlice, Return, Walking, Walk, compiler, walker

LEMMA StepTraced ==
  ASSUME Inv, Traced, [Next]_vars
  PROVE  Traced'
<1>1. CASE CompileStep
  BY <1>1, CompileTraced
<1>2. ASSUME NEW e \in Expression, Compile(e) PROVE Traced'
  <2>1. /\ root' = NULL /\ rest' = e /\ said' = e /\ building' = <<>>
        /\ UNCHANGED <<nodes, compiled>>
    BY <1>2 DEF Compile, NoAnswer
  <2> QED BY <2>1, NoneSetless DEF Traced, Setless, NoSets
<1>3. CASE PathNew
  <2>1. call' = "none" /\ nodes' = <<>>
    BY <1>3 DEF PathNew
  <2> QED BY <2>1, NoneSetless DEF Traced, NoSets
<1>4. ASSUME NEW n \in Node, Match(n) PROVE Traced'
  <2>1. call' = "match" /\ UNCHANGED <<nodes, compiled>>
    BY <1>4 DEF Match
  <2> QED BY <2>1 DEF Traced, Setless, NoSets
<1>5. CASE WalkStep
  <2>1. call' # "compile"
    BY <1>5, WalkFixed DEF WalkStep, Deliver, WalkRoot, WalkMember, WalkElement, WalkDescent,
         WalkWildcard, WalkSet, WalkSlice, Return, Walk
  <2> QED BY <1>5, <2>1, WalkFixed DEF Traced, Setless, NoSets
<1>6. CASE UNCHANGED vars
  <2>1. UNCHANGED <<nodes, call, rest, building, said, root, compiled>>
    BY <1>6 DEF vars, compiler, walker
  <2> QED BY <2>1 DEF Traced, Setless, NoSets
<1> QED BY <1>1, <1>2, <1>3, <1>4, <1>5, <1>6 DEF Next

(* A call of the walk.                                                     *)
LEMMA WalkStepOrdered ==
  ASSUME Typed, call = "match", NoSets(nodes), Endless \/ Ordered, WalkStep
  PROVE  Endless' \/ Ordered'
<1>1. CASE Deliver
  BY <1>1, DeliverOrdered, DeliverEndless
<1>2. CASE WalkSet
  <2>1. PathHere.type = "ELEMENT_SET" /\ Walking("ELEMENT_SET")
    BY <1>2 DEF WalkSet, Walking
  <2>2. This.at \in DOMAIN nodes
    BY <2>1, WalkingHere
  <2> QED BY <2>1, <2>2 DEF NoSets, PathHere
<1>3. ASSUME Moves, todo # <<>> PROVE Endless' \/ Ordered'
  BY <1>3, MovesKeep
<1>4. CASE WalkRoot \/ WalkMember \/ WalkElement \/ WalkDescent \/ WalkWildcard \/ WalkSlice
  <2>1. todo # <<>>
    BY <1>4 DEF WalkRoot, WalkMember, WalkElement, WalkDescent, WalkWildcard, WalkSlice, Walking
  <2>2. Moves \/ Endless'
    BY <1>4, RootMoves, MemberMoves, ElementMoves, DescentMoves, WildcardMoves, SliceMoves
  <2> QED BY <1>3, <2>1, <2>2
<1>5. CASE Return
  <2>1. UNCHANGED <<nodes, todo, results>>
    BY <1>5 DEF Return, walker
  <2>2. Endless' <=> Endless
    BY <2>1 DEF Endless, Turning
  <2>3. Ordered' <=> Ordered
    <3>1. \A t : Reach(t)' = Reach(t)
      BY <2>1 DEF Reach, LooksUp, Takes
    <3> QED BY <2>1, <3>1 DEF Ordered, Ascending
  <2> QED BY <2>2, <2>3
<1> QED BY <1>1, <1>2, <1>4, <1>5 DEF WalkStep

LEMMA StepOrdered ==
  ASSUME OrderInv, [Next]_vars
  PROVE  OrderInv'
<1>1. Typed' /\ Traced'
  BY StepTyped, StepTraced DEF OrderInv, Typed
<1>2. CASE WalkStep
  <2>1. call = "match" /\ UNCHANGED <<nodes, root, compiled>>
    BY <1>2, WalkFixed
  <2>2. ASSUME Setless(compiled)
        PROVE  Endless' \/ Ordered'
    <3>1. NoSets(nodes) /\ Typed /\ (Endless \/ Ordered)
      BY <2>1, <2>2 DEF OrderInv, Traced
    <3> QED BY <1>2, <2>1, <3>1, WalkStepOrdered
  <2>3. call' = "none" => todo' = <<>>
    BY <1>2, <2>1 DEF WalkStep, Deliver, WalkRoot, WalkMember, WalkElement, WalkDescent,
         WalkWildcard, WalkSet, WalkSlice, Return, Walk, walker
  <2>4. call' = "none" => ~ Endless'
    BY <2>3 DEF Endless
  <2>5. Ordered' => Ascending(results)'
    BY DEF Ordered
  <2>6. Setless(compiled)' <=> Setless(compiled)
    BY <2>1 DEF Setless
  <2> QED BY <1>1, <2>2, <2>4, <2>5, <2>6 DEF OrderInv, Answered
<1>3. CASE CompileStep
  <2>1. /\ call = "compile" /\ call' \in {"compile", "none"} /\ root' = root
    BY <1>3 DEF CompileStep, CompileRoot, CompileDot, CompileBracket, CompileSlice, CompileJunk,
         CompileDone, At, Add, Build, Refuse, walker
  <2>2. root' = NULL
    BY <2>1 DEF OrderInv, Traced
  <2> QED BY <1>1, <2>1, <2>2 DEF OrderInv, Answered
<1>4. ASSUME NEW e \in Expression, Compile(e) PROVE OrderInv'
  <2>1. call' = "compile"
    BY <1>4 DEF Compile
  <2> QED BY <1>1, <2>1 DEF OrderInv, Answered
<1>5. CASE PathNew
  <2>1. call' = "none" /\ root' = NULL
    BY <1>5 DEF PathNew, NoAnswer
  <2> QED BY <1>1, <2>1 DEF OrderInv, Answered
<1>6. ASSUME NEW n \in Node, Match(n) PROVE OrderInv'
  <2>1. call' = "match" /\ results' = <<>> /\ todo' = <<[at |-> 1, node |-> n, from |-> NULL]>>
    BY <1>6 DEF Match
  <2>2. DOMAIN results' = {} /\ DOMAIN todo' = {1}
    BY <2>1
  <2>3. Ordered'
    BY <2>2 DEF Ordered, Ascending
  <2> QED BY <1>1, <2>1, <2>3 DEF OrderInv, Answered
<1>7. CASE UNCHANGED vars
  <2>1. UNCHANGED <<nodes, call, root, todo, results, compiled>>
    BY <1>7 DEF vars, walker
  <2>2. /\ (Endless' <=> Endless) /\ (Ordered' <=> Ordered) /\ (Answered' <=> Answered)
        /\ (Setless(compiled)' <=> Setless(compiled)) /\ (Ascending(results)' <=> Ascending(results))
    BY <2>1 DEF Endless, Turning, Ordered, Ascending, Reach, LooksUp, Takes, Answered, Setless
  <2> QED BY <1>1, <2>1, <2>2 DEF OrderInv
<1> QED BY <1>2, <1>3, <1>4, <1>5, <1>6, <1>7 DEF Next

(* For every tree and every expression without an index set, the results   *)
(* of a match are in document order, and none is inside another: the walk  *)
(* looks at the kids of a node one after the other, a recursive descent    *)
(* included, and a slice whose step would turn it around never ends.       *)
THEOREM DocumentOrder == Spec => []InDocumentOrder
<1>1. Init => OrderInv
  <2> SUFFICES ASSUME Init PROVE OrderInv
    OBVIOUS
  <2>1. call = "none" /\ root = NULL /\ nodes = <<>>
    BY DEF Init
  <2> QED BY <2>1, InitTyped, NoneSetless DEF OrderInv, Traced, Answered
<1>2. OrderInv /\ [Next]_vars => OrderInv'
  BY StepOrdered
<1>3. OrderInv => InDocumentOrder
  BY DEF OrderInv, InDocumentOrder, Setless, Ascending
<1> QED BY <1>1, <1>2, <1>3, PTL DEF Spec

-----------------------------------------------------------------------------
(* What is below a node of a tree.                                         *)

(* A nonempty set of numbers has a least one.                              *)
LEMMA Least ==
  ASSUME NEW T \in SUBSET Nat, T # {}
  PROVE  \E m \in T : \A k \in T : m <= k
<1> DEFINE R == OpToRel(<, Nat)
<1>1. IsWellFoundedOn(R, Nat)
  BY NatLessThanWellFounded
<1>2. \A x, y \in Nat : x < y => <<x, y>> \in R
  BY DEF OpToRel
<1> HIDE DEF R
<1>3. PICK x \in T : \A y \in T : ~ (<<y, x>> \in R)
  BY <1>1, WFMin
<1>4. ASSUME NEW k \in T PROVE x <= k
  <2>1. k \in Nat /\ x \in Nat
    OBVIOUS
  <2>2. ~ (<<k, x>> \in R)
    BY <1>3
  <2>3. ~ (k < x)
    BY <2>1, <2>2, <1>2
  <2> QED BY <2>1, <2>3
<1> QED BY <1>4

LEMMA KidsAre ==
  ASSUME NEW n \in Node
  PROVE  /\ KidsOf(n) = {Kid(n, i) : i \in DOMAIN Kids[n]}
         /\ KidsOf(n) \subseteq Node
BY KidThere DEF KidsOf, Kid

LEMMA BelowLeast ==
  ASSUME NEW n \in Node, NEW T \in SUBSET Node, n \in T, \A x \in T : KidsOf(x) \subseteq T
  PROVE  Tree[n] \subseteq T
BY DEF Tree

LEMMA BelowClosed ==
  ASSUME NEW n \in Node, NEW x \in Tree[n]
  PROVE  KidsOf(x) \subseteq Tree[n] /\ x \in Node
<1>1. x \in Node /\ KidsOf(x) \subseteq Node
  BY KidsAre, BelowItself
<1>2. ASSUME NEW d \in KidsOf(x), NEW T \in SUBSET Node,
             n \in T, \A y \in T : KidsOf(y) \subseteq T
      PROVE  d \in T
  BY <1>2, BelowLeast
<1>3. Tree[n] = {d \in Node : \A T \in SUBSET Node :
                   (n \in T /\ \A y \in T : KidsOf(y) \subseteq T) => d \in T}
  BY DEF Tree
<1> QED BY <1>1, <1>2, <1>3

LEMMA BelowBelow ==
  ASSUME NEW n \in Node, NEW x \in Tree[n]
  PROVE  Tree[x] \subseteq Tree[n]
<1>1. x \in Node /\ Tree[n] \subseteq Node
  BY BelowItself
<1>2. \A y \in Tree[n] : KidsOf(y) \subseteq Tree[n]
  BY BelowClosed
<1> QED BY <1>1, <1>2, BelowLeast

(* Below a node are it and what is below its kids.                         *)
LEMMA BelowParts ==
  ASSUME NEW n \in Node, NEW y \in Tree[n], y # n
  PROVE  \E i \in DOMAIN Kids[n] : y \in Tree[Kid(n, i)]
<1> DEFINE T == {n} \cup {d \in Node : \E i \in DOMAIN Kids[n] : d \in Tree[Kid(n, i)]}
<1>1. ASSUME NEW x \in T PROVE KidsOf(x) \subseteq T
  <2>1. CASE x = n
    <3>1. \A i \in DOMAIN Kids[n] : Kid(n, i) \in Node /\ Kid(n, i) \in Tree[Kid(n, i)]
      BY KidThere, BelowItself
    <3> QED BY <2>1, <3>1, KidsAre
  <2>2. CASE x # n
    <3>1. PICK i \in DOMAIN Kids[n] : x \in Tree[Kid(n, i)]
      BY <2>2
    <3>2. Kid(n, i) \in Node
      BY KidThere
    <3>3. KidsOf(x) \subseteq Tree[Kid(n, i)] /\ KidsOf(x) \subseteq Node
      BY <3>1, <3>2, BelowClosed, KidsAre
    <3> QED BY <3>3
  <2> QED BY <2>1, <2>2
<1>2. T \in SUBSET Node /\ n \in T
  OBVIOUS
<1> HIDE DEF T
<1>3. Tree[n] \subseteq T
  BY <1>1, <1>2, BelowLeast
<1> QED BY <1>3 DEF T

(* Whatever is below a node, and not it, is a kid of something below it.   *)
LEMMA BelowParent ==
  ASSUME NEW n \in Node, NEW y \in Tree[n], y # n
  PROVE  \E p \in Tree[n] : y \in KidsOf(p)
<1> DEFINE T == {n} \cup {d \in Node : \E p \in Tree[n] : d \in KidsOf(p)}
<1>1. n \in Tree[n] /\ Tree[n] \subseteq Node
  BY BelowItself
<1>2. ASSUME NEW x \in T PROVE KidsOf(x) \subseteq T
  <2>1. x \in Tree[n]
    BY <1>1, BelowClosed
  <2>2. KidsOf(x) \subseteq Node
    BY <1>1, <2>1, KidsAre
  <2> QED BY <2>1, <2>2
<1>3. T \in SUBSET Node /\ n \in T
  OBVIOUS
<1> HIDE DEF T
<1>4. Tree[n] \subseteq T
  BY <1>2, <1>3, BelowLeast
<1> QED BY <1>4 DEF T

(* No node is below a kid of its own.                                      *)
LEMMA NoLoop ==
  ASSUME NoneInside, NEW n \in Node, NEW i \in DOMAIN Kids[n]
  PROVE  n \notin Tree[Kid(n, i)]
<1>1. SUFFICES ASSUME n \in Tree[Kid(n, i)] PROVE FALSE
  OBVIOUS
<1> DEFINE T == {d \in Node : d \in Tree[Kid(n, i)] /\ n \in Tree[d]}
<1>2. Kid(n, i) \in Node /\ Kid(n, i) \in KidsOf(n)
  BY KidThere, KidsAre
<1>3. n \in T
  BY <1>1, BelowItself
<1>4. PICK d \in T : KidsOf(d) \cap T = {}
  BY <1>3 DEF NoneInside
<1>5. CASE d = n
  <2>1. Kid(n, i) \in T
    BY <1>1, <1>2, BelowItself
  <2> QED BY <1>2, <1>4, <1>5, <2>1
<1>6. CASE d # n
  <2>1. d \in Node /\ n \in Tree[d] /\ d \in Tree[Kid(n, i)]
    OBVIOUS
  <2>2. PICK j \in DOMAIN Kids[d] : n \in Tree[Kid(d, j)]
    BY <1>6, <2>1, BelowParts
  <2>3. Kid(d, j) \in KidsOf(d) /\ Kid(d, j) \in Node
    BY <2>1, KidThere, KidsAre
  <2>4. Kid(d, j) \in Tree[Kid(n, i)]
    BY <1>2, <2>1, <2>3, BelowClosed
  <2> HIDE DEF T
  <2>5. Kid(d, j) \in T
    BY <2>2, <2>3, <2>4 DEF T
  <2> QED BY <1>4, <2>3, <2>5
<1> QED BY <1>5, <1>6

(* In a tree, two nodes with something below both are one below the other. *)
LEMMA Comparable ==
  ASSUME Treelike, NEW x \in Node, NEW b \in Node, NEW y \in Tree[x], y \in Tree[b]
  PROVE  x \in Tree[b] \/ b \in Tree[x]
<1> DEFINE Fine(a) == \A z \in Tree[a] : z \in Tree[b] => a \in Tree[b] \/ b \in Tree[a]
           T == {a \in Node : ~ Fine(a)}
<1>1. SUFFICES ASSUME T # {} PROVE FALSE
  OBVIOUS
<1>2. PICK a \in T : KidsOf(a) \cap T = {}
  BY <1>1 DEF Treelike, NoneInside
<1>3. PICK z \in Tree[a] : z \in Tree[b] /\ a \notin Tree[b] /\ b \notin Tree[a]
  BY <1>2
<1>4. a \in Node /\ z # a
  BY <1>3
<1>5. PICK i \in DOMAIN Kids[a] : z \in Tree[Kid(a, i)]
  BY <1>4, BelowParts
<1>6. Kid(a, i) \in Node /\ Kid(a, i) \in KidsOf(a)
  BY <1>4, KidThere, KidsAre
<1>7. Fine(Kid(a, i))
  BY <1>2, <1>6
<1>8. Kid(a, i) \in Tree[b] \/ b \in Tree[Kid(a, i)]
  BY <1>3, <1>5, <1>7
<1>9. CASE b \in Tree[Kid(a, i)]
  BY <1>3, <1>4, <1>9, KidBelow
<1>10. CASE Kid(a, i) \in Tree[b]
  <2>1. CASE Kid(a, i) = b
    BY <1>3, <1>4, <1>6, <2>1, KidBelow, BelowItself
  <2>2. CASE Kid(a, i) # b
    <3>1. PICK p \in Tree[b] : Kid(a, i) \in KidsOf(p)
      BY <1>10, <2>2, BelowParent
    <3>2. p \in Node
      BY <3>1, BelowItself
    <3>3. PICK j \in DOMAIN Kids[p] : Kid(a, i) = Kid(p, j)
      BY <3>1, <3>2, KidsAre
    <3>4. p = a
      BY <1>4, <3>2, <3>3 DEF Treelike, OnePlace
    <3> QED BY <1>3, <3>1, <3>4
  <2> QED BY <2>1, <2>2
<1> QED BY <1>8, <1>9, <1>10

LEMMA KidsApart ==
  ASSUME Treelike, NEW n \in Node, NEW i \in DOMAIN Kids[n], NEW j \in DOMAIN Kids[n], i # j
  PROVE  Tree[Kid(n, i)] \cap Tree[Kid(n, j)] = {}
<1>1. ASSUME NEW k \in DOMAIN Kids[n], NEW l \in DOMAIN Kids[n], k # l,
             Kid(n, k) \in Tree[Kid(n, l)]
      PROVE  FALSE
  <2>1. Kid(n, k) # Kid(n, l) /\ Kid(n, l) \in Node
    BY <1>1, KidThere DEF Treelike, OnePlace
  <2>2. PICK p \in Tree[Kid(n, l)] : Kid(n, k) \in KidsOf(p)
    BY <1>1, <2>1, BelowParent
  <2>3. p \in Node
    BY <2>1, BelowItself
  <2>4. PICK m \in DOMAIN Kids[p] : Kid(n, k) = Kid(p, m)
    BY <2>2, <2>3, KidsAre
  <2>5. p = n
    BY <2>3, <2>4 DEF Treelike, OnePlace
  <2> QED BY <2>2, <2>5, NoLoop DEF Treelike
<1>2. Kid(n, i) \in Node /\ Kid(n, j) \in Node
  BY KidThere
<1>3. ASSUME NEW y \in Tree[Kid(n, i)], y \in Tree[Kid(n, j)] PROVE FALSE
  BY <1>1, <1>2, <1>3, Comparable
<1> QED BY <1>3

(* What ".." before the name m stops at, one node at a time.               *)
LEMMA OutermostParts ==
  ASSUME Treelike, NEW x \in Node, NEW m, NEW y
  PROVE  y \in Outermost(x, m) <=>
           \/ y = x
           \/ \E i \in DOMAIN Kids[x] : Kids[x][i].name # m /\ y \in Outermost(Kid(x, i), m)
<1>1. ASSUME y = x PROVE y \in Outermost(x, m)
  <2>1. ASSUME NEW z \in Tree[x], NEW w \in Member(z, m), x \in Tree[w] PROVE FALSE
    <3>1. z \in Node
      BY BelowItself
    <3>2. PICK i \in DOMAIN Kids[z] : w = Kid(z, i)
      BY <2>1 DEF Member, Kid
    <3>3. z \in Tree[w]
      BY <2>1, <3>1, <3>2, BelowBelow, KidThere
    <3> QED BY <3>1, <3>2, <3>3, NoLoop DEF Treelike
  <2> QED BY <1>1, <2>1, BelowItself DEF Outermost
<1>2. ASSUME y \in Outermost(x, m), y # x
      PROVE  \E i \in DOMAIN Kids[x] : Kids[x][i].name # m /\ y \in Outermost(Kid(x, i), m)
  <2>1. y \in Tree[x] /\ \A z \in Tree[x] : \A w \in Member(z, m) : y \notin Tree[w]
    BY <1>2 DEF Outermost
  <2>2. PICK i \in DOMAIN Kids[x] : y \in Tree[Kid(x, i)]
    BY <1>2, <2>1, BelowParts
  <2>3. Kids[x][i].name # m
    <3>1. Kids[x][i].name = m => Kid(x, i) \in Member(x, m)
      BY DEF Member, Kid
    <3> QED BY <2>1, <2>2, <3>1, BelowItself
  <2>4. \A z \in Tree[Kid(x, i)] : z \in Tree[x]
    BY KidBelow
  <2> QED BY <2>1, <2>2, <2>3, <2>4 DEF Outermost
<1>3. ASSUME NEW i \in DOMAIN Kids[x], Kids[x][i].name # m, y \in Outermost(Kid(x, i), m)
      PROVE  y \in Outermost(x, m)
  <2>1. /\ y \in Tree[Kid(x, i)]
        /\ \A z \in Tree[Kid(x, i)] : \A w \in Member(z, m) : y \notin Tree[w]
    BY <1>3 DEF Outermost
  <2>2. y \in Tree[x]
    BY <2>1, KidBelow
  <2>3. ASSUME NEW z \in Tree[x], NEW w \in Member(z, m), y \in Tree[w] PROVE FALSE
    <3>0. z \in Node
      BY BelowItself
    <3>1. PICK k \in DOMAIN Kids[z] : w = Kid(z, k) /\ Kids[z][k].name = m
      BY <2>3 DEF Member, Kid
    <3>2. CASE z = x
      BY <1>3, <2>1, <2>3, <3>1, <3>2, KidsApart
    <3>3. CASE z # x
      <4>1. PICK j \in DOMAIN Kids[x] : z \in Tree[Kid(x, j)]
        BY <2>3, <3>3, BelowParts
      <4>2. CASE j = i
        BY <2>1, <2>3, <4>1, <4>2
      <4>3. CASE j # i
        <5>1. Kid(x, j) \in Node /\ w \in KidsOf(z)
          BY <3>0, <3>1, KidThere, KidsAre
        <5>2. w \in Tree[Kid(x, j)]
          BY <4>1, <5>1, BelowClosed
        <5>3. y \in Tree[Kid(x, j)]
          BY <2>3, <5>1, <5>2, BelowBelow
        <5> QED BY <2>1, <4>3, <5>3, KidsApart
      <4> QED BY <4>2, <4>3
    <3> QED BY <3>2, <3>3
  <2> QED BY <2>2, <2>3 DEF Outermost
<1> QED BY <1>1, <1>2, <1>3

-----------------------------------------------------------------------------
(* What a walk from x gives, when the steps from the k-th on are taken: the *)
(* ends of the chains of nodes each of which is selected in the one before. *)
Chain(s, k, m, c) ==
  c \in [k .. m -> Node] /\ \A j \in k .. m - 1 : c[j + 1] \in Selects(s, j, c[j])
Ends(s, m, y) == m = Len(s) + 1 \/ (m \in DOMAIN s /\ Misfit(s[m], y))
Gives(s, k, x) ==
  {y \in Node : \E m \in k .. Len(s) + 1 : \E c \in [k .. m -> Node] :
     Chain(s, k, m, c) /\ c[k] = x /\ c[m] = y /\ Ends(s, m, y)}

(* The elements of an array at the indices in J.                           *)
FoundAt(x, J) == IF Kind[x] # "array" THEN {} ELSE UNION {At0(x, i) : i \in J}

(* What a step of an expression selects, by the kind of its token.         *)
Indices(t, x) == {j \in 0 .. Len(Kids[x]) - 1 : InSlice(j, t, Len(Kids[x]))}

LEMMA SelectsName ==
  ASSUME NEW s, NEW k, NEW x, s[k].t = "name"
  PROVE  Selects(s, k, x) = IF Kind[x] = "object" THEN Member(x, s[k].name) ELSE {}
BY DEF Selects

LEMMA SelectsBelow ==
  ASSUME NEW s, NEW k, NEW x, s[k].t = ".."
  PROVE  Selects(s, k, x) = IF s[k + 1].t = "name" THEN Outermost(x, s[k + 1].name) ELSE {}
BY DEF Selects

LEMMA SelectsAll ==
  ASSUME NEW s, NEW k, NEW x, s[k].t \in {".*", "[*]"}
  PROVE  Selects(s, k, x) = IF Misfit(s[k], x) THEN {} ELSE KidsOf(x)
BY DEF Selects

LEMMA SelectsJunk ==
  ASSUME NEW s, NEW k, NEW x, s[k].t = "junk"
  PROVE  Selects(s, k, x) = {x}
BY DEF Selects

(* What is left takes the elements of an array at some indices.            *)
LEMMA SelectsFound ==
  ASSUME NEW s, NEW k, NEW x, s[k].t \notin {"name", "..", ".*", "[*]", "junk"}
  PROVE  \E J : /\ Selects(s, k, x) = FoundAt(x, J)
                /\ s[k].t = "index" => J = {s[k].index}
                /\ s[k].t = "set" => J = Range(s[k].indices)
                /\ s[k].t = "slice" => J = Indices(s[k], x)
<1>1. PICK J : J = CASE s[k].t = "index" -> {s[k].index}
                     [] s[k].t = "set"   -> Range(s[k].indices)
                     [] s[k].t = "slice" -> {j \in 0 .. Len(Kids[x]) - 1 :
                                               InSlice(j, s[k], Len(Kids[x]))}
  OBVIOUS
<1>2. /\ s[k].t = "index" => J = {s[k].index}
      /\ s[k].t = "set" => J = Range(s[k].indices)
      /\ s[k].t = "slice" => J = Indices(s[k], x)
  BY <1>1 DEF Indices
<1>3. Selects(s, k, x) = FoundAt(x, J)
  BY <1>1 DEF Selects, FoundAt
<1> QED BY <1>2, <1>3

(* Whatever is selected is a node of the tree.                             *)
LEMMA FoundNodes ==
  ASSUME NEW x \in Node, NEW J
  PROVE  FoundAt(x, J) \subseteq Node
<1>1. \A i : At0(x, i) \subseteq Node
  BY KidThere DEF At0, Kid
<1> QED BY <1>1 DEF FoundAt

LEMMA SelectsNodes ==
  ASSUME NEW s, NEW k, NEW x \in Node
  PROVE  Selects(s, k, x) \subseteq Node
<1>1. Member(x, s[k].name) \subseteq Node
  BY KidThere DEF Member, Kid
<1>2. Outermost(x, s[k + 1].name) \subseteq Node
  BY BelowItself DEF Outermost
<1>3. KidsOf(x) \subseteq Node
  BY KidsAre
<1>4. CASE s[k].t = "name"
  BY <1>1, <1>4, SelectsName
<1>5. CASE s[k].t = ".."
  BY <1>2, <1>5, SelectsBelow
<1>6. CASE s[k].t \in {".*", "[*]"}
  BY <1>3, <1>6, SelectsAll
<1>7. CASE s[k].t = "junk"
  BY <1>7, SelectsJunk
<1>8. CASE s[k].t \notin {"name", "..", ".*", "[*]", "junk"}
  <2>1. PICK J : Selects(s, k, x) = FoundAt(x, J)
    BY <1>8, SelectsFound
  <2> QED BY <2>1, FoundNodes
<1> QED BY <1>4, <1>5, <1>6, <1>7, <1>8

(* Taking the first step off.                                              *)
LEMMA GivesStep ==
  ASSUME NEW s \in Seq(Token), NEW k \in DOMAIN s, NEW x \in Node, NEW y
  PROVE  y \in Gives(s, k, x) <=>
           \/ y = x /\ Misfit(s[k], x)
           \/ \E z \in Selects(s, k, x) : y \in Gives(s, k + 1, z)
<1>0. Len(s) \in Nat /\ k \in 1 .. Len(s) /\ DOMAIN s = 1 .. Len(s)
  OBVIOUS
<1>1. ASSUME y = x, Misfit(s[k], x) PROVE y \in Gives(s, k, x)
  <2> DEFINE c == [j \in k .. k |-> x]
  <2>1. Chain(s, k, k, c) /\ c[k] = x
    BY <1>0 DEF Chain
  <2>2. Ends(s, k, x) /\ k \in k .. Len(s) + 1
    BY <1>0, <1>1 DEF Ends
  <2>3. c \in [k .. k -> Node]
    OBVIOUS
  <2> HIDE DEF c
  <2> QED BY <1>1, <2>1, <2>2, <2>3 DEF Gives
<1>2. ASSUME NEW z \in Selects(s, k, x), y \in Gives(s, k + 1, z) PROVE y \in Gives(s, k, x)
  <2>1. PICK m \in k + 1 .. Len(s) + 1 : \E c \in [k + 1 .. m -> Node] :
          Chain(s, k + 1, m, c) /\ c[k + 1] = z /\ c[m] = y /\ Ends(s, m, y) /\ y \in Node
    BY <1>2 DEF Gives
  <2>6. PICK c \in [k + 1 .. m -> Node] :
          Chain(s, k + 1, m, c) /\ c[k + 1] = z /\ c[m] = y /\ Ends(s, m, y) /\ y \in Node
    BY <2>1
  <2> DEFINE d == [j \in k .. m |-> IF j = k THEN x ELSE c[j]]
  <2>2. d \in [k .. m -> Node] /\ d[k] = x /\ d[m] = y
    BY <1>0, <2>6
  <2>3. ASSUME NEW j \in k .. m - 1 PROVE d[j + 1] \in Selects(s, j, d[j])
    <3>1. CASE j = k
      BY <1>0, <1>2, <2>6, <3>1
    <3>2. CASE j # k
      <4>1. j \in k + 1 .. m - 1
        BY <1>0, <3>2
      <4>2. c[j + 1] \in Selects(s, j, c[j])
        BY <2>6, <4>1 DEF Chain
      <4>3. d[j + 1] = c[j + 1] /\ d[j] = c[j]
        BY <1>0, <3>2
      <4> QED BY <4>2, <4>3
    <3> QED BY <3>1, <3>2
  <2>4. m \in k .. Len(s) + 1
    BY <1>0, <2>6
  <2> HIDE DEF d
  <2>5. Chain(s, k, m, d)
    BY <2>2, <2>3 DEF Chain
  <2> QED BY <2>6, <2>2, <2>4, <2>5 DEF Gives
<1>3. ASSUME y \in Gives(s, k, x)
      PROVE  \/ y = x /\ Misfit(s[k], x)
             \/ \E z \in Selects(s, k, x) : y \in Gives(s, k + 1, z)
  <2>1. PICK m \in k .. Len(s) + 1 : \E c \in [k .. m -> Node] :
          Chain(s, k, m, c) /\ c[k] = x /\ c[m] = y /\ Ends(s, m, y) /\ y \in Node
    BY <1>3 DEF Gives
  <2>6. PICK c \in [k .. m -> Node] :
          Chain(s, k, m, c) /\ c[k] = x /\ c[m] = y /\ Ends(s, m, y) /\ y \in Node
    BY <2>1
  <2>2. CASE m = k
    BY <1>0, <2>6, <2>2 DEF Ends
  <2>3. CASE m # k
    <3>1. m \in k + 1 .. Len(s) + 1 /\ k \in k .. m - 1 /\ k + 1 \in k .. m
      BY <1>0, <2>6, <2>3
    <3>2. c[k + 1] \in Selects(s, k, x)
      BY <2>6, <3>1 DEF Chain
    <3> DEFINE d == [j \in k + 1 .. m |-> c[j]]
    <3>3. d \in [k + 1 .. m -> Node] /\ d[k + 1] = c[k + 1] /\ d[m] = y
      BY <1>0, <2>6, <3>1
    <3>4. ASSUME NEW j \in k + 1 .. m - 1 PROVE d[j + 1] \in Selects(s, j, d[j])
      <4>1. j \in k .. m - 1 /\ j \in k + 1 .. m /\ j + 1 \in k + 1 .. m
        BY <1>0, <3>1
      <4> QED BY <2>6, <4>1 DEF Chain
    <3> HIDE DEF d
    <3>5. Chain(s, k + 1, m, d)
      BY <3>3, <3>4 DEF Chain
    <3>6. y \in Gives(s, k + 1, c[k + 1])
      BY <2>6, <3>1, <3>3, <3>5 DEF Gives
    <3> QED BY <3>2, <3>6
  <2> QED BY <2>2, <2>3
<1> QED BY <1>1, <1>2, <1>3

(* Behind the last step there is the node itself.                          *)
LEMMA GivesEnd ==
  ASSUME NEW s \in Seq(Token), NEW x \in Node
  PROVE  Gives(s, Len(s) + 1, x) = {x}
<1>1. PICK n : n = Len(s) + 1
  OBVIOUS
<1>0. n \in Nat /\ n .. n = {n} /\ n .. n - 1 = {} /\ Len(s) + 1 = n
  BY <1>1
<1>2. PICK c : c = [j \in n .. n |-> x]
  OBVIOUS
<1>3. c \in [n .. n -> Node] /\ c[n] = x /\ Chain(s, n, n, c) /\ Ends(s, n, x)
  BY <1>0, <1>2 DEF Chain, Ends
<1>4. x \in Gives(s, n, x)
  BY <1>0, <1>3 DEF Gives
<1>5. ASSUME NEW y \in Gives(s, n, x) PROVE y = x
  BY <1>0, <1>5 DEF Gives
<1> QED BY <1>1, <1>4, <1>5

(* Junk in an expression selects nothing else.                             *)
LEMMA JunkSkipped ==
  ASSUME NEW s \in Seq(Token), NEW b \in 1 .. Len(s) + 1, NEW a \in 1 .. b,
         \A j \in a .. b - 1 : s[j].t = "junk", NEW x \in Node
  PROVE  Gives(s, a, x) = Gives(s, b, x)
<1> DEFINE T == {d \in Nat : d \in a .. b /\ Gives(s, d, x) # Gives(s, b, x)}
           U == {b - d : d \in T}
<1>0. Len(s) \in Nat /\ DOMAIN s = 1 .. Len(s)
  OBVIOUS
<1>1. SUFFICES ASSUME a \in T PROVE FALSE
  BY <1>0
<1>2. U \in SUBSET Nat /\ U # {}
  BY <1>0, <1>1
<1>3. PICK u \in U : \A v \in U : u <= v
  <2> HIDE DEF U, T
  <2> QED BY <1>2, Least
<1>4. PICK d \in T : u = b - d
  OBVIOUS
<1>5. d # b /\ d \in a .. b - 1 /\ d + 1 \in a .. b /\ d \in 1 .. Len(s)
  BY <1>0, <1>4
<1>6. d + 1 \notin T
  <2>1. d + 1 \in T => b - (d + 1) \in U
    OBVIOUS
  <2> HIDE DEF U, T
  <2> QED BY <1>0, <1>3, <1>4, <1>5, <2>1
<1>7. Gives(s, d + 1, x) = Gives(s, b, x)
  BY <1>0, <1>5, <1>6
<1>8. s[d].t = "junk" /\ d \in DOMAIN s
  BY <1>0, <1>5
<1>9. Selects(s, d, x) = {x} /\ ~ Misfit(s[d], x)
  <2>1. Selects(s, d, x) = {x}
    BY <1>8, SelectsJunk
  <2> QED BY <1>8, <2>1 DEF Misfit
<1>10. \A y : y \in Gives(s, d, x) <=> y \in Gives(s, d + 1, x)
  BY <1>8, <1>9, GivesStep
<1> QED BY <1>4, <1>7, <1>10

(* The definition of Selected, unfolded: its recursion says the same as    *)
(* the chains.                                                             *)
Front(s, r, k) ==
  {y \in Node : \E c \in [1 .. k + 1 -> Node] : Chain(s, 1, k + 1, c) /\ c[1] = r /\ c[k + 1] = y}

LEMMA FrontStep ==
  ASSUME NEW s \in Seq(Token), NEW r \in Node, NEW k \in Nat \ {0}
  PROVE  Front(s, r, k) = UNION {Selects(s, k, x) : x \in Front(s, r, k - 1)}
<1>1. ASSUME NEW y \in Front(s, r, k)
      PROVE  \E x \in Front(s, r, k - 1) : y \in Selects(s, k, x)
  <2>1. PICK c \in [1 .. k + 1 -> Node] : Chain(s, 1, k + 1, c) /\ c[1] = r /\ c[k + 1] = y
    BY <1>1 DEF Front
  <2>2. PICK n \in Nat : n = k - 1 /\ n + 1 = k
    OBVIOUS
  <2> DEFINE d == [j \in 1 .. n + 1 |-> c[j]]
  <2>3. d \in [1 .. n + 1 -> Node] /\ d[1] = r /\ d[n + 1] = c[k]
    BY <2>1, <2>2
  <2>4. \A j \in 1 .. n + 1 - 1 : d[j + 1] \in Selects(s, j, d[j])
    <3> TAKE j \in 1 .. n + 1 - 1
    <3>1. j \in 1 .. k + 1 - 1 /\ j \in 1 .. n + 1 /\ j + 1 \in 1 .. n + 1
      BY <2>2
    <3> QED BY <2>1, <3>1 DEF Chain
  <2> HIDE DEF d
  <2>5. c[k] \in Front(s, r, n)
    <3>1. Chain(s, 1, n + 1, d)
      BY <2>3, <2>4 DEF Chain
    <3>2. c[k] \in Node
      BY <2>1
    <3> QED BY <2>3, <3>1, <3>2 DEF Front
  <2>6. y \in Selects(s, k, c[k])
    <3>1. k \in 1 .. k + 1 - 1
      OBVIOUS
    <3> QED BY <2>1, <3>1 DEF Chain
  <2> QED BY <2>2, <2>5, <2>6
<1>2. ASSUME NEW x \in Front(s, r, k - 1), NEW y \in Selects(s, k, x)
      PROVE  y \in Front(s, r, k)
  <2>2. PICK n \in Nat : n = k - 1 /\ n + 1 = k
    OBVIOUS
  <2>1. PICK c \in [1 .. n + 1 -> Node] : Chain(s, 1, n + 1, c) /\ c[1] = r /\ c[n + 1] = x
    BY <1>2, <2>2 DEF Front
  <2>3. y \in Node
    BY <1>2, SelectsNodes DEF Front
  <2> DEFINE d == [j \in 1 .. k + 1 |-> IF j = k + 1 THEN y ELSE c[j]]
  <2>4. d \in [1 .. k + 1 -> Node] /\ d[1] = r /\ d[k + 1] = y
    BY <2>1, <2>2, <2>3
  <2>5. ASSUME NEW j \in 1 .. k + 1 - 1 PROVE d[j + 1] \in Selects(s, j, d[j])
    <3>1. CASE j = k
      BY <1>2, <2>1, <2>2, <3>1
    <3>2. CASE j # k
      <4>1. j \in 1 .. n + 1 - 1 /\ d[j] = c[j] /\ d[j + 1] = c[j + 1]
        BY <2>2, <3>2
      <4> QED BY <2>1, <4>1 DEF Chain
    <3> QED BY <3>1, <3>2
  <2> HIDE DEF d
  <2>6. Chain(s, 1, k + 1, d)
    BY <2>4, <2>5 DEF Chain
  <2> QED BY <2>3, <2>4, <2>6 DEF Front
<1> QED BY <1>1, <1>2

LEMMA FrontFirst ==
  ASSUME NEW s, NEW r \in Node
  PROVE  Front(s, r, 0) = {r}
<1>1. PICK c : c = [j \in 1 .. 1 |-> r]
  OBVIOUS
<1>2. c \in [1 .. 0 + 1 -> Node] /\ c[1] = r /\ c[0 + 1] = r /\ Chain(s, 1, 0 + 1, c)
  BY <1>1 DEF Chain
<1> QED BY <1>2 DEF Front

Recurs(s, r, g) ==
  g = [k \in 0 .. Len(s) |->
         IF k = 0 THEN {r} ELSE UNION {Selects(s, k, x) : x \in g[k - 1]}]

LEMMA FrontOnly ==
  ASSUME NEW s \in Seq(Token), NEW r \in Node, NEW g, Recurs(s, r, g)
  PROVE  \A k \in 0 .. Len(s) : g[k] = Front(s, r, k)
<1> DEFINE T == {k \in Nat : k \in 0 .. Len(s) /\ g[k] # Front(s, r, k)}
<1>0. Len(s) \in Nat
  OBVIOUS
<1>1. SUFFICES ASSUME T # {} PROVE FALSE
  BY <1>0
<1>2. PICK k \in T : \A l \in T : k <= l
  <2>1. T \in SUBSET Nat
    OBVIOUS
  <2> HIDE DEF T
  <2> QED BY <1>1, <2>1, Least
<1>3. k \in 0 .. Len(s) /\ g[k] = IF k = 0 THEN {r} ELSE UNION {Selects(s, k, x) : x \in g[k - 1]}
  <2>1. k \in 0 .. Len(s)
    OBVIOUS
  <2> HIDE DEF T
  <2> QED BY <2>1 DEF Recurs
<1>4. k # 0
  BY <1>3, FrontFirst
<1>5. k - 1 \in Nat /\ k - 1 \in 0 .. Len(s) /\ ~ (k <= k - 1) /\ k \in Nat \ {0}
  BY <1>0, <1>3, <1>4
<1>6. g[k - 1] = Front(s, r, k - 1)
  BY <1>2, <1>5
<1>7. g[k] = UNION {Selects(s, k, x) : x \in Front(s, r, k - 1)}
  BY <1>3, <1>4, <1>6
<1>8. g[k] = Front(s, r, k)
  BY <1>5, <1>7, FrontStep
<1> QED BY <1>2, <1>8

LEMMA SelectedGiven ==
  ASSUME NEW e, NEW r \in Node, AfterRoot(e) \in Seq(Token)
  PROVE  Selected(e, r) = Gives(AfterRoot(e), 1, r)
<1>1. PICK s : s = AfterRoot(e)
  OBVIOUS
<1>0. s \in Seq(Token) /\ Len(s) \in Nat /\ DOMAIN s = 1 .. Len(s)
  BY <1>1
<1>2. PICK g : g = CHOOSE f : Recurs(s, r, f)
  OBVIOUS
<1>3. Selected(e, r) = g[Len(s)] \cup {x \in Node : \E k \in DOMAIN s : x \in g[k - 1] /\ Misfit(s[k], x)}
  BY <1>1, <1>2 DEF Selected, Recurs
<1>4. Recurs(s, r, g)
  <2> DEFINE h == [k \in 0 .. Len(s) |-> Front(s, r, k)]
  <2>1. ASSUME NEW k \in 0 .. Len(s)
        PROVE  h[k] = IF k = 0 THEN {r} ELSE UNION {Selects(s, k, x) : x \in h[k - 1]}
    <3>1. CASE k = 0
      BY <3>1, FrontFirst
    <3>2. CASE k # 0
      <4>1. k \in Nat \ {0} /\ k - 1 \in 0 .. Len(s)
        BY <1>0, <3>2
      <4>2. Front(s, r, k) = UNION {Selects(s, k, x) : x \in Front(s, r, k - 1)}
        BY <1>0, <4>1, FrontStep
      <4> QED BY <3>2, <4>1, <4>2
    <3> QED BY <3>1, <3>2
  <2>2. h = [k \in 0 .. Len(s) |-> h[k]]
    OBVIOUS
  <2> HIDE DEF h
  <2>3. Recurs(s, r, h)
    BY <2>1, <2>2 DEF Recurs
  <2> HIDE DEF Recurs
  <2> QED BY <1>2, <2>3
<1>5. \A k \in 0 .. Len(s) : g[k] = Front(s, r, k)
  BY <1>0, <1>4, FrontOnly
<1>6. ASSUME NEW y \in Selected(e, r) PROVE y \in Gives(s, 1, r)
  <2>1. CASE y \in Front(s, r, Len(s))
    <3>1. PICK c \in [1 .. Len(s) + 1 -> Node] :
            Chain(s, 1, Len(s) + 1, c) /\ c[1] = r /\ c[Len(s) + 1] = y /\ y \in Node
      BY <2>1 DEF Front
    <3>2. Ends(s, Len(s) + 1, y) /\ Len(s) + 1 \in 1 .. Len(s) + 1
      BY <1>0 DEF Ends
    <3> QED BY <3>1, <3>2 DEF Gives
  <2>2. CASE y \notin Front(s, r, Len(s))
    <3>1. PICK k \in DOMAIN s : y \in g[k - 1] /\ Misfit(s[k], y)
      <4>1. Len(s) \in 0 .. Len(s)
        BY <1>0
      <4> QED BY <1>3, <1>5, <1>6, <2>2, <4>1
    <3>2. k - 1 \in 0 .. Len(s) /\ k \in 1 .. Len(s) + 1 /\ (k - 1) + 1 = k
      BY <1>0
    <3>3. y \in Front(s, r, k - 1)
      BY <1>5, <3>1, <3>2
    <3>4. PICK c \in [1 .. k -> Node] : Chain(s, 1, k, c) /\ c[1] = r /\ c[k] = y /\ y \in Node
      BY <3>2, <3>3 DEF Front
    <3> QED BY <3>1, <3>2, <3>4 DEF Gives, Ends
  <2> QED BY <2>1, <2>2
<1>7. ASSUME NEW y \in Gives(s, 1, r) PROVE y \in Selected(e, r)
  <2>1. PICK m \in 1 .. Len(s) + 1 : \E c \in [1 .. m -> Node] :
          Chain(s, 1, m, c) /\ c[1] = r /\ c[m] = y /\ Ends(s, m, y) /\ y \in Node
    BY <1>7 DEF Gives
  <2>7. PICK c \in [1 .. m -> Node] :
          Chain(s, 1, m, c) /\ c[1] = r /\ c[m] = y /\ Ends(s, m, y) /\ y \in Node
    BY <2>1
  <2>2. PICK k \in 0 .. Len(s) : k + 1 = m /\ k = m - 1
    BY <1>0
  <2>3. y \in Front(s, r, k)
    BY <2>7, <2>2 DEF Front
  <2>4. y \in g[k]
    BY <1>5, <2>3
  <2>5. CASE m = Len(s) + 1
    <3>1. k = Len(s)
      BY <1>0, <2>2, <2>5
    <3> QED BY <1>3, <2>4, <3>1
  <2>6. CASE m # Len(s) + 1
    <3>1. m \in DOMAIN s /\ Misfit(s[m], y)
      BY <2>7, <2>6 DEF Ends
    <3> QED BY <1>3, <2>7, <2>2, <2>4, <3>1
  <2> QED BY <2>5, <2>6
<1> QED BY <1>1, <1>6, <1>7

-----------------------------------------------------------------------------
(* The walk against the expression.                                        *)

(* A path node is what the compiler makes of a token.                      *)
Matches(n, t) ==
  \/ t.t = ".."  /\ n = [type |-> "RECURSIVE_DESCENT"]
  \/ t.t = ".*"  /\ n = [type |-> "WILDCARD_MEMBER"]
  \/ t.t = "[*]" /\ n = [type |-> "WILDCARD_ELEMENT"]
  \/ t.t = "name"  /\ n = [type |-> "CHILD_MEMBER", name |-> t.name]
  \/ t.t = "index" /\ n = [type |-> "CHILD_ELEMENT", index |-> t.index]
  \/ t.t = "set"   /\ n = [type |-> "ELEMENT_SET", indices |-> t.indices]
  \/ t.t = "slice" /\ n = SliceOf(t)

(* The path is made, in order, of the tokens that f says; all others are   *)
(* junk.  0 stands for a "$" before the first of them.                     *)
Follows(s, f) ==
  /\ f \in [DOMAIN nodes -> 0 .. Len(s)]
  /\ \A k \in DOMAIN nodes :
       \/ f[k] = 0 /\ nodes[k] = [type |-> "ROOT"]
       \/ f[k] # 0 /\ Matches(nodes[k], s[f[k]])
  /\ \A k, l \in DOMAIN nodes : k < l => f[k] < f[l]
  /\ \A i \in DOMAIN s : s[i].t = "junk" \/ \E k \in DOMAIN nodes : f[k] = i

Spells(s, f) == s \in Seq(Token) /\ Dots(s) /\ Follows(s, f)

(* What the path nodes from the k-th on give, from x.                      *)
Past(s, f, k, x) ==
  IF k > Len(nodes) THEN {x} ELSE IF f[k] = 0 THEN Gives(s, 1, x) ELSE Gives(s, f[k], x)

(* The kids that a loop over a slice comes to, from one on.                *)
End(slice, x) == slice.end + IF slice.start < 0 THEN Len(Kids[x]) ELSE 0
Ahead(slice, x, from) ==
  {i \in DOMAIN Kids[x] : Kind[x] = "array" /\ from <= i - 1 /\ i - 1 < End(slice, x)
                            /\ (i - 1 - from) % slice.step = 0}

(* The results that a call is still to give.                               *)
Looping(t) == t.at <= Len(nodes) /\ nodes[t.at].type = "ELEMENT_SLICE" /\ t.from # NULL
Yield(s, f, t) ==
  IF t.node = NULL THEN {}
  ELSE IF Looping(t)
       THEN UNION {Past(s, f, t.at + 1, Kid(t.node, i)) : i \in Ahead(nodes[t.at], t.node, t.from)}
       ELSE Past(s, f, t.at, t.node)

(* The calls in tasks are to give what the one at hand was to give.        *)
Shares(s, f, tasks) ==
  \A y : y \in Yield(s, f, This) <=> \E j \in DOMAIN tasks : y \in Yield(s, f, tasks[j])

(* After the k-th path node comes the next one, for there is only junk     *)
(* between their tokens.                                                   *)
LEMMA Between ==
  ASSUME nodes \in Seq(PathNode), NEW s, NEW f, Spells(s, f), NEW k \in 1 .. Len(nodes),
         NEW x \in Node
  PROVE  Gives(s, f[k] + 1, x) = Past(s, f, k + 1, x)
<1>0. /\ s \in Seq(Token) /\ Len(s) \in Nat /\ DOMAIN s = 1 .. Len(s)
      /\ Len(nodes) \in Nat /\ DOMAIN nodes = 1 .. Len(nodes)
      /\ \A l \in DOMAIN nodes : f[l] \in 0 .. Len(s)
  BY DEF Spells, Follows
<1>1. ASSUME NEW i \in DOMAIN s, i > f[k], k + 1 \in DOMAIN nodes => i < f[k + 1]
      PROVE  s[i].t = "junk"
  <2>1. SUFFICES ASSUME NEW l \in DOMAIN nodes, f[l] = i PROVE FALSE
    BY DEF Spells, Follows
  <2>2. /\ l < k => f[l] < f[k]
        /\ k + 1 \in DOMAIN nodes /\ k + 1 < l => f[k + 1] < f[l]
    BY <1>0 DEF Spells, Follows
  <2>3. l \in Nat /\ k \in Nat /\ l <= Len(nodes) /\ f[l] \in Nat /\ f[k] \in Nat
        /\ (k + 1 \in DOMAIN nodes <=> k + 1 <= Len(nodes))
    BY <1>0
  <2>4. l > k
    BY <1>1, <2>1, <2>2, <2>3
  <2>5. k + 1 \in DOMAIN nodes /\ f[k + 1] \in Nat
    BY <1>0, <2>3, <2>4
  <2>6. l = k + 1 \/ k + 1 < l
    BY <2>3, <2>4
  <2> QED BY <1>1, <2>1, <2>2, <2>3, <2>5, <2>6
<1>2. CASE k + 1 > Len(nodes)
  <2>1. \A j \in f[k] + 1 .. (Len(s) + 1) - 1 : s[j].t = "junk"
    BY <1>0, <1>1, <1>2
  <2>2. Len(s) + 1 \in 1 .. Len(s) + 1 /\ f[k] + 1 \in 1 .. Len(s) + 1
    BY <1>0
  <2>3. Gives(s, f[k] + 1, x) = Gives(s, Len(s) + 1, x)
    BY <1>0, <2>1, <2>2, JunkSkipped
  <2> QED BY <1>0, <1>2, <2>3, GivesEnd DEF Past
<1>3. CASE ~ (k + 1 > Len(nodes))
  <2>1. k + 1 \in DOMAIN nodes /\ k \in DOMAIN nodes /\ k < k + 1
    BY <1>0, <1>3
  <2>2. f[k] < f[k + 1] /\ f[k + 1] \in 0 .. Len(s) /\ f[k] \in 0 .. Len(s)
    BY <1>0, <2>1 DEF Spells, Follows
  <2>3. f[k + 1] \in 1 .. Len(s) + 1 /\ f[k] + 1 \in 1 .. f[k + 1] /\ f[k + 1] # 0
    BY <1>0, <2>2
  <2>4. \A j \in f[k] + 1 .. f[k + 1] - 1 : s[j].t = "junk"
    BY <1>0, <1>1, <2>1, <2>2
  <2>5. Gives(s, f[k] + 1, x) = Gives(s, f[k + 1], x)
    BY <1>0, <2>3, <2>4, JunkSkipped
  <2> QED BY <1>3, <2>3, <2>5 DEF Past
<1> QED BY <1>2, <1>3

(* One path node, and those after it.                                      *)
LEMMA PastStep ==
  ASSUME nodes \in Seq(PathNode), NEW s, NEW f, Spells(s, f), NEW k \in 1 .. Len(nodes),
         NEW x \in Node
  PROVE  /\ k \in DOMAIN nodes /\ f[k] \in 0 .. Len(s)
         /\ f[k] = 0 => Past(s, f, k, x) = Past(s, f, k + 1, x)
         /\ f[k] # 0 =>
              /\ f[k] \in DOMAIN s /\ s[f[k]] \in Token
              /\ Selects(s, f[k], x) \subseteq Node
              /\ \A y : y \in Past(s, f, k, x) <=>
                   \/ y = x /\ Misfit(s[f[k]], x)
                   \/ \E z \in Selects(s, f[k], x) : y \in Past(s, f, k + 1, z)
<1>0. /\ s \in Seq(Token) /\ Len(s) \in Nat /\ DOMAIN s = 1 .. Len(s)
      /\ Len(nodes) \in Nat /\ k \in DOMAIN nodes /\ f[k] \in 0 .. Len(s) /\ ~ (k > Len(nodes))
  BY DEF Spells, Follows
<1>1. \A z \in Node : Gives(s, f[k] + 1, z) = Past(s, f, k + 1, z)
  BY Between
<1>2. ASSUME f[k] = 0 PROVE Past(s, f, k, x) = Past(s, f, k + 1, x)
  <2>1. Past(s, f, k, x) = Gives(s, 1, x) /\ f[k] + 1 = 1
    BY <1>0, <1>2 DEF Past
  <2> QED BY <1>1, <2>1
<1>3. ASSUME f[k] # 0
      PROVE  /\ f[k] \in DOMAIN s /\ s[f[k]] \in Token
             /\ Selects(s, f[k], x) \subseteq Node
             /\ \A y : y \in Past(s, f, k, x) <=>
                  \/ y = x /\ Misfit(s[f[k]], x)
                  \/ \E z \in Selects(s, f[k], x) : y \in Past(s, f, k + 1, z)
  <2>1. f[k] \in DOMAIN s
    BY <1>0, <1>3
  <2>2. Past(s, f, k, x) = Gives(s, f[k], x)
    BY <1>0, <1>3 DEF Past
  <2>3. Selects(s, f[k], x) \subseteq Node
    BY SelectsNodes
  <2>4. \A y : y \in Gives(s, f[k], x) <=>
          \/ y = x /\ Misfit(s[f[k]], x)
          \/ \E z \in Selects(s, f[k], x) : y \in Gives(s, f[k] + 1, z)
    BY <1>0, <2>1, GivesStep
  <2>5. s[f[k]] \in Token
    BY <1>0, <2>1
  <2> QED BY <1>1, <2>1, <2>2, <2>3, <2>4, <2>5
<1> QED BY <1>0, <1>2, <1>3

LEMMA MatchesKind ==
  ASSUME NEW n, NEW t \in Token, Matches(n, t)
  PROVE  /\ n.type # "ROOT"
         /\ n.type = "RECURSIVE_DESCENT" => t.t = ".."
         /\ n.type = "WILDCARD_MEMBER" => t.t = ".*"
         /\ n.type = "WILDCARD_ELEMENT" => t.t = "[*]"
         /\ n.type = "CHILD_MEMBER" <=> t.t = "name"
         /\ n.type = "CHILD_MEMBER" => n.name = t.name
         /\ n.type = "CHILD_ELEMENT" => t.t = "index" /\ n.index = t.index
         /\ n.type = "ELEMENT_SET" => t.t = "set" /\ n.indices = t.indices
         /\ n.type = "ELEMENT_SLICE" => t.t = "slice" /\ n = SliceOf(t)
<1>1. SliceOf(t).type = "ELEMENT_SLICE"
  BY DEF SliceOf
<1> QED BY <1>1 DEF Matches

(* The path node the walk is at, and the token it was made of.             *)
LEMMA AtToken ==
  ASSUME Typed, NEW s, NEW f, Spells(s, f), NEW type, Walking(type)
  PROVE  /\ This.at \in 1 .. Len(nodes) /\ This.at + 1 \in Nat \ {0} /\ This.at + 1 <= Len(nodes) + 1
         /\ nodes \in Seq(PathNode) /\ PathHere = nodes[This.at] /\ PathHere.type = type
         /\ call = "match" /\ todo # <<>> /\ Here \in Node \cup {NULL}
         /\ f[This.at] = 0 => type = "ROOT"
         /\ f[This.at] # 0 => Matches(PathHere, s[f[This.at]]) /\ s[f[This.at]] \in Token
         /\ type = "ROOT" => f[This.at] = 0
<1>1. /\ call = "match" /\ todo # <<>> /\ This.at \in Nat \ {0} /\ This.at <= Len(nodes)
      /\ Len(nodes) \in Nat /\ nodes \in Seq(PathNode) /\ Here \in Node \cup {NULL}
      /\ nodes[This.at] = PathHere /\ PathHere.type = type
  BY WalkingHere
<1>2. \/ f[This.at] = 0 /\ PathHere = [type |-> "ROOT"]
      \/ f[This.at] # 0 /\ Matches(PathHere, s[f[This.at]])
  <2>1. This.at \in DOMAIN nodes
    BY <1>1
  <2>2. \/ f[This.at] = 0 /\ nodes[This.at] = [type |-> "ROOT"]
        \/ f[This.at] # 0 /\ Matches(nodes[This.at], s[f[This.at]])
    BY <2>1 DEF Spells, Follows
  <2> QED BY <2>2 DEF PathHere
<1>3. f[This.at] # 0 => s[f[This.at]] \in Token
  <2>1. This.at \in 1 .. Len(nodes)
    BY <1>1
  <2>2. f[This.at] \in 0 .. Len(s) /\ s \in Seq(Token)
    BY <1>1, <2>1 DEF Spells, Follows
  <2> QED BY <2>2
<1>4. f[This.at] # 0 => PathHere.type # "ROOT"
  BY <1>2, <1>3, MatchesKind
<1> QED BY <1>1, <1>2, <1>3, <1>4

LEMMA OnwardYield ==
  ASSUME NEW s, NEW f, NEW n \in Node \cup {NULL}
  PROVE  /\ n = NULL => Yield(s, f, Onward(n)) = {}
         /\ n # NULL => Yield(s, f, Onward(n)) = Past(s, f, This.at + 1, n)
<1>1. Onward(n).node = n /\ Onward(n).at = This.at + 1 /\ Onward(n).from = NULL
  BY DEF Onward, Call
<1> QED BY <1>1 DEF Yield, Looping

LEMMA CallYield ==
  ASSUME NEW s, NEW f, NEW k, NEW n
  PROVE  /\ n = NULL => Yield(s, f, Call(k, n)) = {}
         /\ n # NULL => Yield(s, f, Call(k, n)) = Past(s, f, k, n)
<1>1. Call(k, n).node = n /\ Call(k, n).at = k /\ Call(k, n).from = NULL
  BY DEF Call
<1> QED BY <1>1 DEF Yield, Looping

LEMMA HereYield ==
  ASSUME NEW s, NEW f
  PROVE  /\ Here = NULL => Yield(s, f, This) = {}
         /\ Here # NULL /\ ~ Looping(This) => Yield(s, f, This) = Past(s, f, This.at, Here)
BY DEF Yield, Here

LEMMA NoneShares ==
  ASSUME NEW s, NEW f, Yield(s, f, This) = {}
  PROVE  Shares(s, f, <<>>)
BY DEF Shares

LEMMA OneShares ==
  ASSUME NEW s, NEW f, NEW t, Yield(s, f, t) = Yield(s, f, This)
  PROVE  Shares(s, f, <<t>>)
BY DEF Shares

(* One turn of the walk keeps what is still to come, without one result    *)
(* more or less.                                                           *)
Keeps(s, f) == \E tasks : tasks \in Seq(TaskFor(nodes)) /\ Walk(tasks) /\ Shares(s, f, tasks)

LEMMA RootShares ==
  ASSUME Typed, NEW s, NEW f, Spells(s, f), WalkRoot
  PROVE  Keeps(s, f)
<1>1. Walking("ROOT") /\ Walk(<<Onward(Here)>>)
  BY DEF WalkRoot
<1>2. /\ This.at \in 1 .. Len(nodes) /\ nodes \in Seq(PathNode) /\ f[This.at] = 0
      /\ Here \in Node \cup {NULL} /\ nodes[This.at].type = "ROOT"
      /\ call = "match" /\ todo # <<>>
  BY <1>1, AtToken
<1>3. ~ Looping(This)
  BY <1>2 DEF Looping
<1>4. Here # NULL => Past(s, f, This.at, Here) = Past(s, f, This.at + 1, Here)
  BY <1>2, PastStep
<1>5. Yield(s, f, Onward(Here)) = Yield(s, f, This)
  BY <1>2, <1>3, <1>4, OnwardYield, HereYield
<1>6. <<Onward(Here)>> \in Seq(TaskFor(nodes))
  BY <1>2, OnwardTyped
<1> QED BY <1>1, <1>5, <1>6, OneShares DEF Keeps

(* A path node that is no loop: what is selected there, and the rest of    *)
(* the path from it.                                                       *)
LEMMA HereParts ==
  ASSUME Typed, NEW s, NEW f, Spells(s, f), NEW type, Walking(type),
         type # "ROOT", Here # NULL, ~ Looping(This)
  PROVE  /\ Here \in Node /\ Selects(s, f[This.at], Here) \subseteq Node
         /\ \A y : y \in Yield(s, f, This) <=>
              \/ y = Here /\ Misfit(s[f[This.at]], Here)
              \/ \E z \in Selects(s, f[This.at], Here) : y \in Past(s, f, This.at + 1, z)
<1>1. /\ This.at \in 1 .. Len(nodes) /\ nodes \in Seq(PathNode) /\ f[This.at] # 0 /\ Here \in Node
  BY AtToken
<1>2. Yield(s, f, This) = Past(s, f, This.at, Here)
  BY HereYield
<1> QED BY <1>1, <1>2, PastStep

LEMMA MemberShares ==
  ASSUME Typed, NEW s, NEW f, Spells(s, f), WalkMember
  PROVE  Keeps(s, f)
<1>1. Walking("CHILD_MEMBER")
  BY DEF WalkMember
<1>2. PICK t : t = s[f[This.at]]
  OBVIOUS
<1>3. /\ This.at \in 1 .. Len(nodes) /\ This.at <= Len(nodes) /\ f[This.at] # 0
      /\ Here \in Node \cup {NULL} /\ nodes[This.at].type = "CHILD_MEMBER"
      /\ call = "match" /\ todo # <<>> /\ Matches(PathHere, t) /\ t \in Token
      /\ PathHere.type = "CHILD_MEMBER"
  BY <1>1, <1>2, AtToken
<1>4. t.t = "name" /\ t.name = PathHere.name /\ ~ Looping(This) /\ ~ Misfit(t, Here)
  BY <1>3, MatchesKind DEF Looping, Misfit
<1>5. Here # NULL => Selects(s, f[This.at], Here) =
                       IF Kind[Here] = "object" THEN Member(Here, PathHere.name) ELSE {}
  BY <1>2, <1>4, SelectsName
<1>6. CASE Holds("object") /\ HasMember(PathHere.name)
  <2>1. PICK i \in DOMAIN Kids[Here] :
          Kids[Here][i].name = PathHere.name /\ Walk(<<Onward(Kids[Here][i].node)>>)
    BY <1>6 DEF WalkMember
  <2>2. Here \in Node /\ Here # NULL /\ Kind[Here] = "object"
    BY <1>3, <1>6 DEF Holds
  <2>3. Kid(Here, i) \in Node /\ Kid(Here, i) = Kids[Here][i].node /\ Kid(Here, i) # NULL
    BY <2>2, KidThere, PathAssumption
  <2>4. \A j \in DOMAIN Kids[Here] : Kids[Here][j].name = PathHere.name => j = i
    BY <2>1, <2>2, PathAssumption
  <2>5. Member(Here, PathHere.name) = {Kid(Here, i)}
    BY <2>1, <2>3, <2>4 DEF Member, Kid
  <2>6. \A y : y \in Yield(s, f, This) <=> y \in Past(s, f, This.at + 1, Kid(Here, i))
    BY <1>1, <1>2, <1>4, <1>5, <2>2, <2>5, HereParts
  <2>7. Yield(s, f, Onward(Kid(Here, i))) = Yield(s, f, This)
    BY <2>3, <2>6, OnwardYield
  <2>8. <<Onward(Kid(Here, i))>> \in Seq(TaskFor(nodes))
    BY <1>3, <2>3, OnwardTyped
  <2> QED BY <2>1, <2>3, <2>7, <2>8, OneShares DEF Keeps
<1>7. CASE ~ (Holds("object") /\ HasMember(PathHere.name))
  <2>1. Walk(<<>>)
    BY <1>7 DEF WalkMember
  <2>2. Here # NULL => Selects(s, f[This.at], Here) = {}
    BY <1>5, <1>7 DEF Holds, HasMember, Member
  <2>3. Yield(s, f, This) = {}
    BY <1>1, <1>2, <1>4, <2>2, HereParts, HereYield
  <2> QED BY <2>1, <2>3, NoneShares, NoTasks DEF Keeps
<1> QED BY <1>6, <1>7

(* The elements of an array at an index: one, or none past the end.        *)
LEMMA ElementFound ==
  ASSUME Here \in Node, NEW i \in Int
  PROVE  /\ Element(i) \in Node \cup {NULL}
         /\ At0(Here, i) = IF Element(i) = NULL THEN {} ELSE {Element(i)}
<1>1. /\ Kids[Here] \in Seq([name : Name \cup {NULL}, node : Node])
      /\ DOMAIN Kids[Here] = 1 .. Len(Kids[Here]) /\ Len(Kids[Here]) \in Nat
  <2>1. Kids[Here] \in Seq([name : Name \cup {NULL}, node : Node])
    BY PathAssumption
  <2> QED BY <2>1
<1>2. CASE i \in 0 .. Len(Kids[Here]) - 1
  <2>1. i + 1 \in DOMAIN Kids[Here] /\ Element(i) = Kid(Here, i + 1)
    BY <1>1, <1>2 DEF Element, Kid
  <2>2. Element(i) \in Node /\ Element(i) # NULL
    BY <2>1, KidThere, PathAssumption
  <2>3. At0(Here, i) = {Kid(Here, i + 1)}
    BY <2>1 DEF At0, Kid
  <2> QED BY <2>1, <2>2, <2>3
<1>3. CASE i \notin 0 .. Len(Kids[Here]) - 1
  <2>1. i + 1 \notin DOMAIN Kids[Here] /\ Element(i) = NULL
    BY <1>1, <1>3 DEF Element
  <2> QED BY <2>1 DEF At0
<1> QED BY <1>2, <1>3

(* What a call for the element at an index gives.                          *)
LEMMA ElementYield ==
  ASSUME NEW s, NEW f, Here \in Node, NEW i \in Int
  PROVE  \A y : y \in Yield(s, f, Onward(Element(i))) <=>
           \E z \in At0(Here, i) : y \in Past(s, f, This.at + 1, z)
<1>1. /\ Element(i) \in Node \cup {NULL}
      /\ At0(Here, i) = IF Element(i) = NULL THEN {} ELSE {Element(i)}
  BY ElementFound
<1> QED BY <1>1, OnwardYield

(* What is found in an array at some indices.                              *)
LEMMA FoundYield ==
  ASSUME Typed, NEW s, NEW f, Spells(s, f), NEW type, Walking(type),
         type # "ROOT", Here # NULL, ~ Looping(This), ~ Misfit(s[f[This.at]], Here),
         NEW J, Selects(s, f[This.at], Here) = FoundAt(Here, J), Kind[Here] = "array"
  PROVE  \A y : y \in Yield(s, f, This) <=>
           \E i \in J : \E z \in At0(Here, i) : y \in Past(s, f, This.at + 1, z)
<1>1. Selects(s, f[This.at], Here) = UNION {At0(Here, i) : i \in J}
  BY DEF FoundAt
<1>2. \A y : y \in Yield(s, f, This) <=>
        \/ y = Here /\ Misfit(s[f[This.at]], Here)
        \/ \E z \in Selects(s, f[This.at], Here) : y \in Past(s, f, This.at + 1, z)
  BY HereParts
<1>3. \A y : y \in Yield(s, f, This) <=>
        \E z \in UNION {At0(Here, i) : i \in J} : y \in Past(s, f, This.at + 1, z)
  BY <1>1, <1>2
<1> QED BY <1>3

LEMMA FoundNone ==
  ASSUME Typed, NEW s, NEW f, Spells(s, f), NEW type, Walking(type),
         type # "ROOT", ~ Looping(This), ~ Misfit(s[f[This.at]], Here),
         NEW J, Selects(s, f[This.at], Here) = FoundAt(Here, J),
         Here = NULL \/ Kind[Here] # "array"
  PROVE  Yield(s, f, This) = {}
<1>1. CASE Here = NULL
  BY <1>1, HereYield
<1>2. CASE Here # NULL
  <2>1. Selects(s, f[This.at], Here) = {}
    BY <1>2 DEF FoundAt
  <2> QED BY <1>2, <2>1, HereParts
<1> QED BY <1>1, <1>2

LEMMA ElementShares ==
  ASSUME Typed, NEW s, NEW f, Spells(s, f), WalkElement
  PROVE  Keeps(s, f)
<1>1. Walking("CHILD_ELEMENT")
  BY DEF WalkElement
<1>2. PICK t : t = s[f[This.at]]
  OBVIOUS
<1>3. /\ This.at \in 1 .. Len(nodes) /\ This.at <= Len(nodes)
      /\ Here \in Node \cup {NULL} /\ nodes[This.at].type = "CHILD_ELEMENT"
      /\ call = "match" /\ todo # <<>> /\ Matches(PathHere, t) /\ t \in Token
      /\ PathHere.type = "CHILD_ELEMENT" /\ PathHere \in PathNode
  BY <1>1, <1>2, AtToken, WalkingHere
<1>4. t.t = "index" /\ t.index = PathHere.index /\ ~ Looping(This) /\ ~ Misfit(t, Here)
  BY <1>3, MatchesKind DEF Looping, Misfit
<1>5. PathHere.index \in Int
  BY <1>3 DEF PathNode
<1>6. Selects(s, f[This.at], Here) = FoundAt(Here, {PathHere.index})
  <2>1. PICK k : k = f[This.at]
    OBVIOUS
  <2>2. s[k].t = "index" /\ s[k].index = PathHere.index
    BY <1>2, <1>4, <2>1
  <2>3. PICK J : Selects(s, k, Here) = FoundAt(Here, J) /\ J = {s[k].index}
    BY <2>2, SelectsFound
  <2> QED BY <2>1, <2>2, <2>3
<1>7. CASE Holds("array") /\ PathHere.index \in 0 .. Len(Kids[Here])
  <2>1. Walk(<<Onward(Element(PathHere.index))>>)
    BY <1>7 DEF WalkElement
  <2>2. Here \in Node /\ Here # NULL /\ Kind[Here] = "array"
    BY <1>3, <1>7 DEF Holds
  <2>3. \A y : y \in Yield(s, f, This) <=>
          \E z \in At0(Here, PathHere.index) : y \in Past(s, f, This.at + 1, z)
    BY <1>1, <1>2, <1>4, <1>6, <2>2, FoundYield
  <2>4. Yield(s, f, Onward(Element(PathHere.index))) = Yield(s, f, This)
    BY <1>5, <2>2, <2>3, ElementYield
  <2>5. <<Onward(Element(PathHere.index))>> \in Seq(TaskFor(nodes))
    <3>1. Element(PathHere.index) \in Node \cup {NULL}
      BY <1>5, <2>2, ElementFound
    <3> QED BY <1>3, <3>1, OnwardTyped
  <2> QED BY <2>1, <2>4, <2>5, OneShares DEF Keeps
<1>8. CASE ~ Holds("array")
  <2>1. Walk(<<>>)
    BY <1>8 DEF WalkElement
  <2>2. Yield(s, f, This) = {}
    BY <1>1, <1>2, <1>4, <1>6, <1>8, FoundNone DEF Holds
  <2> QED BY <2>1, <2>2, NoneShares, NoTasks DEF Keeps
<1>9. CASE Holds("array") /\ PathHere.index \notin 0 .. Len(Kids[Here])
  <2>1. Walk(<<>>)
    BY <1>9 DEF WalkElement
  <2>2. Here \in Node /\ Here # NULL /\ Kind[Here] = "array"
    BY <1>3, <1>9 DEF Holds
  <2>3. At0(Here, PathHere.index) = {}
    <3>1. Kids[Here] \in Seq([name : Name \cup {NULL}, node : Node])
      BY <2>2, PathAssumption
    <3>2. Len(Kids[Here]) \in Nat
      BY <3>1
    <3>3. PathHere.index \notin 0 .. Len(Kids[Here]) - 1
      BY <1>5, <1>9, <3>2
    <3>4. Element(PathHere.index) = NULL
      BY <3>3 DEF Element
    <3> QED BY <1>5, <2>2, <3>4, ElementFound
  <2>4. \A y : y \in Yield(s, f, This) <=>
          \E z \in At0(Here, PathHere.index) : y \in Past(s, f, This.at + 1, z)
    BY <1>1, <1>2, <1>4, <1>6, <2>2, FoundYield
  <2>5. Yield(s, f, This) = {}
    BY <2>3, <2>4
  <2> QED BY <2>1, <2>5, NoneShares, NoTasks DEF Keeps
<1> QED BY <1>7, <1>8, <1>9

LEMMA SetShares ==
  ASSUME Typed, NEW s, NEW f, Spells(s, f), WalkSet
  PROVE  Keeps(s, f)
<1>1. Walking("ELEMENT_SET")
  BY DEF WalkSet
<1>2. PICK t : t = s[f[This.at]]
  OBVIOUS
<1>3. /\ This.at \in 1 .. Len(nodes) /\ This.at <= Len(nodes)
      /\ Here \in Node \cup {NULL} /\ nodes[This.at].type = "ELEMENT_SET"
      /\ call = "match" /\ todo # <<>> /\ Matches(PathHere, t) /\ t \in Token
      /\ PathHere.type = "ELEMENT_SET" /\ PathHere \in PathNode
  BY <1>1, <1>2, AtToken, WalkingHere
<1>4. t.t = "set" /\ t.indices = PathHere.indices /\ ~ Looping(This) /\ ~ Misfit(t, Here)
  BY <1>3, MatchesKind DEF Looping, Misfit
<1>5. PathHere.indices \in Seq(Int)
  BY <1>3 DEF PathNode
<1>6. Selects(s, f[This.at], Here) = FoundAt(Here, Range(PathHere.indices))
  <2>1. PICK J : /\ Selects(s, f[This.at], Here) = FoundAt(Here, J)
                 /\ t.t = "index" => J = {t.index}
                 /\ t.t = "set" => J = Range(t.indices)
    BY <1>2, <1>4, SelectsFound
  <2> QED BY <1>4, <2>1
<1>7. CASE Holds("array")
  <2> DEFINE tasks == [i \in DOMAIN PathHere.indices |-> Onward(Element(PathHere.indices[i]))]
  <2>1. Walk(tasks)
    BY <1>7 DEF WalkSet
  <2>2. Here \in Node /\ Here # NULL /\ Kind[Here] = "array"
    BY <1>3, <1>7 DEF Holds
  <2>3. \A y : y \in Yield(s, f, This) <=>
          \E i \in Range(PathHere.indices) :
            \E z \in At0(Here, i) : y \in Past(s, f, This.at + 1, z)
    BY <1>1, <1>2, <1>4, <1>6, <2>2, FoundYield
  <2>4. \A y : \A i \in DOMAIN PathHere.indices :
          y \in Yield(s, f, tasks[i]) <=>
            \E z \in At0(Here, PathHere.indices[i]) : y \in Past(s, f, This.at + 1, z)
    <3> TAKE y
    <3> TAKE i \in DOMAIN PathHere.indices
    <3>1. PathHere.indices[i] \in Int
      BY <1>5
    <3>2. tasks[i] = Onward(Element(PathHere.indices[i]))
      OBVIOUS
    <3> HIDE DEF tasks
    <3> QED BY <2>2, <3>1, <3>2, ElementYield
  <2>5. DOMAIN tasks = DOMAIN PathHere.indices
    OBVIOUS
  <2>6. tasks \in Seq(TaskFor(nodes))
    <3>1. ASSUME NEW i \in DOMAIN PathHere.indices
          PROVE  Onward(Element(PathHere.indices[i])) \in TaskFor(nodes)
      <4>1. PathHere.indices[i] \in Int
        BY <1>5
      <4>2. Element(PathHere.indices[i]) \in Node \cup {NULL}
        BY <2>2, <4>1, ElementFound
      <4> QED BY <1>3, <4>2, OnwardTyped
    <3>2. tasks \in [DOMAIN PathHere.indices -> TaskFor(nodes)]
      BY <3>1
    <3> HIDE DEF tasks
    <3> QED BY <1>5, <3>2, Listed
  <2> HIDE DEF tasks
  <2>7. Shares(s, f, tasks)
    <3>1. \A y : y \in Yield(s, f, This) <=>
            \E i \in DOMAIN PathHere.indices :
              \E z \in At0(Here, PathHere.indices[i]) : y \in Past(s, f, This.at + 1, z)
      BY <2>3 DEF Range
    <3> QED BY <2>4, <2>5, <3>1 DEF Shares
  <2> QED BY <2>1, <2>6, <2>7 DEF Keeps
<1>8. CASE ~ Holds("array")
  <2>1. Walk(<<>>)
    BY <1>8 DEF WalkSet
  <2>2. Yield(s, f, This) = {}
    BY <1>1, <1>2, <1>4, <1>6, <1>8, FoundNone DEF Holds
  <2> QED BY <2>1, <2>2, NoneShares, NoTasks DEF Keeps
<1> QED BY <1>7, <1>8

LEMMA WildcardShares ==
  ASSUME Typed, NEW s, NEW f, Spells(s, f), WalkWildcard
  PROVE  Keeps(s, f)
<1>1. PICK kind \in {"object", "array"}, type \in {"WILDCARD_MEMBER", "WILDCARD_ELEMENT"} :
        /\ type = IF kind = "object" THEN "WILDCARD_MEMBER" ELSE "WILDCARD_ELEMENT"
        /\ Walking(type)
        /\ IF Holds(kind) THEN Walk(EachKid) ELSE Walk(<<Call(Len(nodes) + 1, Here)>>)
  BY DEF WalkWildcard
<1>2. PICK t : t = s[f[This.at]]
  OBVIOUS
<1>3. /\ This.at \in 1 .. Len(nodes) /\ This.at <= Len(nodes)
      /\ Here \in Node \cup {NULL} /\ nodes[This.at].type = type
      /\ call = "match" /\ todo # <<>> /\ Matches(PathHere, t) /\ t \in Token
      /\ PathHere.type = type /\ nodes \in Seq(PathNode)
  BY <1>1, <1>2, AtToken
<1>4. t.t = (IF kind = "object" THEN ".*" ELSE "[*]") /\ ~ Looping(This)
  BY <1>1, <1>3, MatchesKind DEF Looping
<1>5. Misfit(t, Here) <=> Kind[Here] # kind
  BY <1>1, <1>4 DEF Misfit
<1>6. Selects(s, f[This.at], Here) = IF Misfit(t, Here) THEN {} ELSE KidsOf(Here)
  BY <1>2, <1>4, SelectsAll
<1>7. CASE Holds(kind)
  <2>1. Walk(EachKid) /\ Here \in Node /\ Here # NULL /\ Kind[Here] = kind
    BY <1>1, <1>3, <1>7 DEF Holds
  <2>2. \A y : y \in Yield(s, f, This) <=>
          \E z \in KidsOf(Here) : y \in Past(s, f, This.at + 1, z)
    BY <1>1, <1>2, <1>4, <1>5, <1>6, <2>1, HereParts
  <2>3. DOMAIN EachKid = DOMAIN Kids[Here]
        /\ \A i \in DOMAIN Kids[Here] : EachKid[i] = Onward(Kid(Here, i))
    BY DEF EachKid, Kid
  <2>4. \A i \in DOMAIN Kids[Here] :
          Yield(s, f, EachKid[i]) = Past(s, f, This.at + 1, Kid(Here, i))
    BY <2>1, <2>3, KidThere, OnwardYield, PathAssumption
  <2>5. KidsOf(Here) = {Kid(Here, i) : i \in DOMAIN Kids[Here]}
    BY <2>1, KidsAre
  <2>6. Shares(s, f, EachKid)
    BY <2>2, <2>3, <2>4, <2>5 DEF Shares
  <2>7. EachKid \in Seq(TaskFor(nodes))
    <3>1. /\ EachKid = [i \in DOMAIN Kids[Here] |-> EachKid[i]]
          /\ \A i \in DOMAIN Kids[Here] : EachKid[i] = Onward(Kids[Here][i].node)
      BY DEF EachKid
    <3> QED BY <1>3, <2>1, <3>1, KidsTyped
  <2> QED BY <2>1, <2>6, <2>7 DEF Keeps
<1>8. CASE ~ Holds(kind)
  <2>1. Walk(<<Call(Len(nodes) + 1, Here)>>)
    BY <1>1, <1>8
  <2>2. Yield(s, f, Call(Len(nodes) + 1, Here)) = Yield(s, f, This)
    <3>1. CASE Here = NULL
      BY <3>1, CallYield, HereYield
    <3>2. CASE Here # NULL
      <4>1. Misfit(t, Here) /\ Selects(s, f[This.at], Here) = {}
        BY <1>5, <1>6, <1>8, <3>2 DEF Holds
      <4>2. \A y : y \in Yield(s, f, This) <=> y = Here
        BY <1>1, <1>2, <1>4, <3>2, <4>1, HereParts
      <4>3. Len(nodes) + 1 > Len(nodes)
        BY <1>3
      <4>4. Yield(s, f, Call(Len(nodes) + 1, Here)) = {Here}
        BY <3>2, <4>3, CallYield DEF Past
      <4> QED BY <4>2, <4>4
    <3> QED BY <3>1, <3>2
  <2>3. <<Call(Len(nodes) + 1, Here)>> \in Seq(TaskFor(nodes))
    <3>1. Len(nodes) + 1 \in Nat \ {0} /\ Len(nodes) + 1 <= Len(nodes) + 1
      BY <1>3
    <3> QED BY <1>3, <3>1, CallsTyped
  <2> QED BY <2>1, <2>2, <2>3, OneShares DEF Keeps
<1> QED BY <1>7, <1>8

(* The numbers a loop comes to are the first of them and those the rest of *)
(* it comes to.                                                            *)
LEMMA Multiple ==
  ASSUME NEW n \in Nat, NEW d \in Nat \ {0}, n >= d
  PROVE  n % d = (n - d) % d
<1>1. PICK m \in Nat : m = n - d
  OBVIOUS
<1>2. PICK q, r : q = n \div d /\ r = n % d
  OBVIOUS
<1>3. PICK p, t : p = m \div d /\ t = m % d
  OBVIOUS
<1>4. q \in Int /\ r \in 0 .. d - 1 /\ n = d * q + r
  BY <1>2
<1>5. p \in Int /\ t \in 0 .. d - 1 /\ m = d * p + t
  BY <1>3
<1>6. PICK k \in Int : k = q - p - 1
  BY <1>4, <1>5
<1>7. d * k = t - r
  BY <1>1, <1>4, <1>5, <1>6
<1>8. k = 0
  <2>1. k >= 1 => d * k >= d
    OBVIOUS
  <2>2. k <= -1 => d * k <= -d
    OBVIOUS
  <2> QED BY <1>4, <1>5, <1>7, <2>1, <2>2
<1>9. t = r
  BY <1>4, <1>5, <1>7, <1>8
<1> QED BY <1>1, <1>2, <1>3, <1>9

LEMMA Small ==
  ASSUME NEW n \in Nat, NEW d \in Nat \ {0}, n < d
  PROVE  n % d = n
OBVIOUS

LEMMA Stride ==
  ASSUME NEW a \in Int, NEW j \in Int, NEW d \in Nat \ {0}
  PROVE  a <= j /\ (j - a) % d = 0 <=>
           j = a \/ (a + d <= j /\ (j - (a + d)) % d = 0)
<1>1. CASE j < a
  BY <1>1
<1>2. CASE a <= j /\ j < a + d
  <2>1. j - a \in Nat /\ j - a < d
    BY <1>2
  <2>2. (j - a) % d = j - a
    BY <2>1, Small
  <2> QED BY <1>2, <2>2
<1>3. CASE a + d <= j
  <2>1. j - a \in Nat /\ j - a >= d /\ (j - a) - d = j - (a + d)
    BY <1>3
  <2>2. (j - a) % d = (j - (a + d)) % d
    BY <2>1, Multiple
  <2> QED BY <1>3, <2>2
<1> QED BY <1>1, <1>2, <1>3

LEMMA AheadStep ==
  ASSUME NEW n, n.end \in Int, n.step \in Nat \ {0}, NEW x \in Node, Kind[x] = "array",
         NEW a \in Int, a < End(n, x)
  PROVE  \A i \in DOMAIN Kids[x] :
           i \in Ahead(n, x, a) <=> i = a + 1 \/ i \in Ahead(n, x, a + n.step)
<1> TAKE i \in DOMAIN Kids[x]
<1>1. i \in Nat /\ Len(Kids[x]) \in Nat
  <2>1. Kids[x] \in Seq([name : Name \cup {NULL}, node : Node])
    BY PathAssumption
  <2> QED BY <2>1
<1>2. PICK j \in Int : j = i - 1
  BY <1>1
<1>3. PICK d \in Nat \ {0} : d = n.step
  OBVIOUS
<1>4. PICK e \in Int : e = End(n, x)
  BY <1>1 DEF End
<1>5. /\ i \in Ahead(n, x, a) <=> a <= j /\ j < e /\ (j - a) % d = 0
      /\ i \in Ahead(n, x, a + d) <=> a + d <= j /\ j < e /\ (j - (a + d)) % d = 0
      /\ i = a + 1 <=> j = a
  BY <1>1, <1>2, <1>3, <1>4 DEF Ahead
<1>6. a <= j /\ (j - a) % d = 0 <=> j = a \/ (a + d <= j /\ (j - (a + d)) % d = 0)
  BY Stride
<1>7. j = a => j < e
  BY <1>4
<1> QED BY <1>3, <1>5, <1>6, <1>7

LEMMA AheadNone ==
  ASSUME NEW n, n.end \in Int, NEW x \in Node, NEW a \in Int, ~ (a < End(n, x))
  PROVE  Ahead(n, x, a) = {}
<1>1. Kids[x] \in Seq([name : Name \cup {NULL}, node : Node])
  BY PathAssumption
<1>2. End(n, x) \in Int
  BY <1>1 DEF End
<1>3. ASSUME NEW i \in Ahead(n, x, a) PROVE FALSE
  <2>1. i \in Int /\ a <= i - 1 /\ i - 1 < End(n, x)
    BY <1>1, <1>3 DEF Ahead
  <2> QED BY <1>2, <2>1
<1> QED BY <1>3

(* What a slice selects is what its loop comes to.                         *)
Start(n, x) == n.start + IF n.start < 0 THEN Len(Kids[x]) ELSE 0

LEMMA SliceFound ==
  ASSUME NEW t \in Token, t.t = "slice", NEW n, n = SliceOf(t), NEW x \in Node, Kind[x] = "array"
  PROVE  \A j : j \in Indices(t, x) <=>
                  \E i \in Ahead(n, x, Start(n, x)) : j = i - 1
<1>1. /\ t.start \in Int \cup {NULL} /\ n.start = NumberOf(t.start) /\ n.start \in Int
      /\ n.end = NumberOf(t.end) /\ n.end \in Int /\ n.step = StepOf(t)
  BY DEF Token, SliceOf, NumberOf
<1>2. PICK l : l = Len(Kids[x])
  OBVIOUS
<1>3. l \in Nat /\ DOMAIN Kids[x] = 1 .. l
  <2>1. Kids[x] \in Seq([name : Name \cup {NULL}, node : Node])
    BY PathAssumption
  <2> QED BY <1>2, <2>1
<1>4. PICK shift \in Int : shift = IF n.start < 0 THEN l ELSE 0
  BY <1>3
<1>5. shift = IF t.start = NULL \/ t.start >= 0 THEN 0 ELSE l
  BY <1>1, <1>4 DEF NumberOf
<1>6. \A k : InSlice(k, t, l) <=>
        n.start + shift <= k /\ k < n.end + shift /\ (k - (n.start + shift)) % n.step = 0
  BY <1>1, <1>5 DEF InSlice
<1>7. Start(n, x) = n.start + shift /\ End(n, x) = n.end + shift
  BY <1>2, <1>4 DEF Start, End
<1>8. ASSUME NEW j \in 0 .. l - 1, InSlice(j, t, l)
      PROVE  \E i \in Ahead(n, x, Start(n, x)) : j = i - 1
  <2>1. PICK i \in 1 .. l : i = j + 1 /\ i - 1 = j
    BY <1>3
  <2>2. i \in Ahead(n, x, Start(n, x))
    BY <1>3, <1>6, <1>7, <1>8, <2>1 DEF Ahead
  <2> QED BY <2>1, <2>2
<1>9. ASSUME NEW i \in Ahead(n, x, Start(n, x))
      PROVE  i - 1 \in 0 .. l - 1 /\ InSlice(i - 1, t, l)
  <2>1. i \in 1 .. l /\ Start(n, x) <= i - 1 /\ i - 1 < End(n, x) /\ (i - 1 - Start(n, x)) % n.step = 0
    BY <1>3, <1>9 DEF Ahead
  <2>2. i - 1 \in 0 .. l - 1
    BY <1>3, <2>1
  <2> QED BY <1>6, <1>7, <2>1, <2>2
<1> QED BY <1>2, <1>8, <1>9 DEF Indices

(* What is still to come of a slice, whether its loop has begun or not.    *)
First(t) == IF t.from = NULL THEN Start(nodes[t.at], t.node) ELSE t.from

LEMMA SliceYield ==
  ASSUME Typed, NEW s, NEW f, Spells(s, f), Walking("ELEMENT_SLICE")
  PROVE  /\ ~ Holds("array") => Yield(s, f, This) = {}
         /\ Holds("array") => \A y : y \in Yield(s, f, This) <=>
              \E i \in Ahead(PathHere, Here, First(This)) :
                y \in Past(s, f, This.at + 1, Kid(Here, i))
<1>1. PICK t : t = s[f[This.at]]
  OBVIOUS
<1>2. /\ This.at \in 1 .. Len(nodes) /\ This.at <= Len(nodes)
      /\ Here \in Node \cup {NULL} /\ nodes[This.at] = PathHere
      /\ call = "match" /\ todo # <<>> /\ Matches(PathHere, t) /\ t \in Token
      /\ PathHere.type = "ELEMENT_SLICE" /\ PathHere \in PathNode
  BY <1>1, AtToken, WalkingHere
<1>3. t.t = "slice" /\ PathHere = SliceOf(t) /\ ~ Misfit(t, Here)
  BY <1>2, MatchesKind DEF Misfit
<1>4. CASE Looping(This)
  <2>1. First(This) = This.from
    BY <1>4 DEF First, Looping
  <2>2. Here # NULL => Yield(s, f, This) =
          UNION {Past(s, f, This.at + 1, Kid(Here, i)) : i \in Ahead(PathHere, Here, This.from)}
    BY <1>2, <1>4 DEF Yield, Here
  <2>3. ~ Holds("array") => Yield(s, f, This) = {}
    BY <2>2, HereYield DEF Holds, Ahead
  <2> QED BY <2>1, <2>2, <2>3 DEF Holds
<1>5. CASE ~ Looping(This)
  <2>1. This.from = NULL
    BY <1>2, <1>5 DEF Looping
  <2>2. First(This) = Start(PathHere, Here)
    BY <1>2, <2>1 DEF First, Here
  <2>3. PICK J : /\ Selects(s, f[This.at], Here) = FoundAt(Here, J)
                 /\ J = Indices(t, Here)
    <3>1. PICK k : k = f[This.at] /\ s[k] = t
      BY <1>1
    <3>2. s[k].t = "slice"
      BY <1>3, <3>1
    <3>3. PICK J : /\ Selects(s, k, Here) = FoundAt(Here, J)
                   /\ J = Indices(s[k], Here)
      BY <3>2, SelectsFound
    <3> QED BY <3>1, <3>2, <3>3
  <2>4. ~ Holds("array") => Yield(s, f, This) = {}
    BY <1>1, <1>3, <1>5, <2>3, FoundNone DEF Holds
  <2>5. ASSUME Holds("array")
        PROVE  \A y : y \in Yield(s, f, This) <=>
                 \E i \in Ahead(PathHere, Here, First(This)) :
                   y \in Past(s, f, This.at + 1, Kid(Here, i))
    <3>1. Here \in Node /\ Here # NULL /\ Kind[Here] = "array"
      BY <1>2, <2>5 DEF Holds
    <3>2. \A y : y \in Yield(s, f, This) <=>
            \E j \in J : \E z \in At0(Here, j) : y \in Past(s, f, This.at + 1, z)
      BY <1>1, <1>3, <1>5, <2>3, <3>1, FoundYield
    <3>3. \A j : j \in J <=> \E i \in Ahead(PathHere, Here, First(This)) : j = i - 1
      BY <1>2, <1>3, <2>2, <2>3, <3>1, SliceFound
    <3>4. \A i \in Ahead(PathHere, Here, First(This)) : At0(Here, i - 1) = {Kid(Here, i)}
      <4> TAKE i \in Ahead(PathHere, Here, First(This))
      <4>1. Kids[Here] \in Seq([name : Name \cup {NULL}, node : Node])
        BY <3>1, PathAssumption
      <4>2. i \in DOMAIN Kids[Here] /\ (i - 1) + 1 = i
        BY <4>1 DEF Ahead
      <4> QED BY <4>2 DEF At0, Kid
    <3> QED BY <3>2, <3>3, <3>4
  <2> QED BY <2>4, <2>5
<1> QED BY <1>4, <1>5

LEMMA SliceShares ==
  ASSUME Typed, NEW s, NEW f, Spells(s, f), WalkSlice
  PROVE  Keeps(s, f) \/ Endless'
<1>1. Walking("ELEMENT_SLICE")
  BY DEF WalkSlice
<1>2. /\ call = "match" /\ todo # <<>> /\ This.at <= Len(nodes) /\ Here \in Node \cup {NULL}
      /\ nodes[This.at] = PathHere /\ PathHere.type = "ELEMENT_SLICE" /\ PathHere \in PathNode
  BY <1>1, WalkingHere
<1>3. /\ PathHere.start \in Int /\ PathHere.end \in Int /\ PathHere.step \in Int
      /\ This \in TaskFor(nodes) /\ This \in Task /\ This.from \in Int \cup {NULL}
  <2>1. This \in TaskFor(nodes)
    BY <1>2, CallTyped
  <2>2. This.from \in Int \cup {NULL}
    BY <2>1 DEF TaskFor, Task
  <2> QED BY <1>2, <2>1, <2>2 DEF PathNode, TaskFor
<1>4. PICK i : i = First(This)
  OBVIOUS
<1>5. IF Holds("array") /\ i < End(PathHere, Here)
      THEN Walk(<<Onward(Element(i)), [This EXCEPT !.from = i + PathHere.step]>>)
      ELSE Walk(<<>>)
  BY <1>2, <1>4 DEF WalkSlice, First, Start, End, Here
<1>6. CASE ~ Holds("array")
  <2>1. Yield(s, f, This) = {}
    BY <1>1, <1>6, SliceYield
  <2> QED BY <1>5, <1>6, <2>1, NoneShares, NoTasks DEF Keeps
<1>7. ASSUME Holds("array")
      PROVE  Here \in Node /\ Here # NULL /\ Kind[Here] = "array" /\ i \in Int /\ End(PathHere, Here) \in Int
  <2>1. Here \in Node /\ Here # NULL /\ Kind[Here] = "array"
    BY <1>2, <1>7 DEF Holds
  <2>2. Kids[Here] \in Seq([name : Name \cup {NULL}, node : Node])
    BY <2>1, PathAssumption
  <2>3. Start(PathHere, Here) \in Int /\ End(PathHere, Here) \in Int
    BY <1>3, <2>2 DEF Start, End
  <2> QED BY <1>2, <1>3, <1>4, <2>1, <2>3 DEF First, Here
<1>8. CASE Holds("array") /\ ~ (i < End(PathHere, Here))
  <2>1. Ahead(PathHere, Here, i) = {}
    BY <1>3, <1>7, <1>8, AheadNone
  <2>2. Yield(s, f, This) = {}
    BY <1>1, <1>4, <1>8, <2>1, SliceYield
  <2> QED BY <1>5, <1>8, <2>2, NoneShares, NoTasks DEF Keeps
<1>9. CASE Holds("array") /\ i < End(PathHere, Here)
  <2>1. PICK t : t = [This EXCEPT !.from = i + PathHere.step]
    OBVIOUS
  <2>2. /\ t \in TaskFor(nodes) /\ t.node = Here /\ t.at = This.at
        /\ t.from = i + PathHere.step /\ t.from \in Int /\ t.from # NULL
    <3>1. t \in TaskFor(nodes) /\ t.node = Here /\ t.at = This.at /\ t.from = i + PathHere.step
      BY <1>3, <1>7, <1>9, <2>1 DEF TaskFor, Task, Here
    <3>2. i + PathHere.step \in Int
      BY <1>3, <1>7, <1>9
    <3> QED BY <3>1, <3>2, PathAssumption
  <2>3. PICK g : g = Onward(Element(i))
    OBVIOUS
  <2>4. g \in TaskFor(nodes)
    BY <1>2, <1>7, <1>9, <2>3, ElementTyped, OnwardTyped
  <2>5. Walk(<<g, t>>) /\ <<g, t>> \in Seq(TaskFor(nodes))
    BY <1>5, <1>9, <2>1, <2>2, <2>3, <2>4
  <2>6. CASE PathHere.step <= 0
    <3>1. i + PathHere.step < End(PathHere, Here)
      BY <1>3, <1>7, <1>9, <2>6
    <3>2. Turning(t)
      BY <1>2, <1>7, <1>9, <2>2, <2>6, <3>1 DEF Turning, End
    <3>3. todo' = <<g, t>> \o Tail(todo) /\ nodes' = nodes
      BY <2>5 DEF Walk
    <3>4. 2 \in DOMAIN todo' /\ todo'[2] = t
      <4>1. Tail(todo) \in Seq(TaskFor(nodes))
        BY <1>2, TodoTyped DEF Typed, TypeOK
      <4> QED BY <2>5, <3>3, <4>1
    <3>5. Turning(t)'
      BY <3>2, <3>3 DEF Turning
    <3> QED BY <3>4, <3>5 DEF Endless
  <2>7. CASE PathHere.step > 0
    <3>1. PathHere.step \in Nat \ {0}
      BY <1>3, <2>7
    <3>2. \A k \in DOMAIN Kids[Here] :
            k \in Ahead(PathHere, Here, i) <=>
              k = i + 1 \/ k \in Ahead(PathHere, Here, i + PathHere.step)
      BY <1>3, <1>7, <1>9, <3>1, AheadStep
    <3>3. \A k : /\ k \in Ahead(PathHere, Here, i) => k \in DOMAIN Kids[Here]
                 /\ k \in Ahead(PathHere, Here, i + PathHere.step) => k \in DOMAIN Kids[Here]
      BY DEF Ahead
    <3>4. \A y : y \in Yield(s, f, This) <=>
            \E k \in Ahead(PathHere, Here, i) : y \in Past(s, f, This.at + 1, Kid(Here, k))
      BY <1>1, <1>4, <1>9, SliceYield
    <3>5. \A y : y \in Yield(s, f, t) <=>
            \E k \in Ahead(PathHere, Here, i + PathHere.step) :
              y \in Past(s, f, This.at + 1, Kid(Here, k))
      <4>1. Looping(t) /\ t.node # NULL
        BY <1>2, <1>7, <1>9, <2>2 DEF Looping
      <4>2. Yield(s, f, t) = UNION {Past(s, f, This.at + 1, Kid(Here, k)) :
                                       k \in Ahead(PathHere, Here, i + PathHere.step)}
        BY <1>2, <2>2, <4>1 DEF Yield
      <4> QED BY <4>2
    <3>6. \A y : y \in Yield(s, f, g) <=>
            \E k \in DOMAIN Kids[Here] : k = i + 1 /\ y \in Past(s, f, This.at + 1, Kid(Here, k))
      <4>1. \A y : y \in Yield(s, f, g) <=>
              \E z \in At0(Here, i) : y \in Past(s, f, This.at + 1, z)
        BY <1>7, <1>9, <2>3, ElementYield
      <4>2. At0(Here, i) = {Kid(Here, k) : k \in DOMAIN Kids[Here] \cap {i + 1}}
        BY DEF At0, Kid
      <4> QED BY <4>1, <4>2
    <3>7. \A y : y \in Yield(s, f, This) <=> y \in Yield(s, f, g) \/ y \in Yield(s, f, t)
      BY <3>2, <3>3, <3>4, <3>5, <3>6
    <3>8. Shares(s, f, <<g, t>>)
      BY <3>7 DEF Shares
    <3> QED BY <2>5, <3>8 DEF Keeps
  <2> QED BY <1>3, <2>6, <2>7
<1> QED BY <1>6, <1>8, <1>9

(* The path node that follows a descent is made of the very next token.    *)
LEMMA DescentNext ==
  ASSUME Typed, NEW s, NEW f, Spells(s, f), NEW k \in 1 .. Len(nodes), f[k] # 0,
         nodes[k].type = "RECURSIVE_DESCENT"
  PROVE  /\ k + 1 \in 1 .. Len(nodes) /\ f[k + 1] = f[k] + 1 /\ f[k + 1] # 0
         /\ Matches(nodes[k + 1], s[f[k] + 1]) /\ s[f[k] + 1] \in Token
         /\ Dotted(s[f[k] + 1]) /\ s[f[k]].t = ".."
<1>0. /\ nodes \in Seq(PathNode) /\ Len(nodes) \in Nat /\ DOMAIN nodes = 1 .. Len(nodes)
      /\ s \in Seq(Token) /\ DOMAIN s = 1 .. Len(s)
      /\ \A l \in DOMAIN nodes : f[l] \in 0 .. Len(s) /\ f[l] \in Nat
      /\ \A l, m \in DOMAIN nodes : l < m => f[l] < f[m]
  BY DEF Typed, TypeOK, Spells, Follows
<1>1. k + 1 \in DOMAIN nodes
  <2>1. <<>> = <<>> /\ Owed(nodes, <<>>)
    BY DEF Typed, Inv
  <2> QED BY <1>0, <2>1 DEF Owed
<1>2. s[f[k]] \in Token /\ f[k] \in DOMAIN s
  BY <1>0
<1>3. s[f[k]].t = ".."
  <2>1. Matches(nodes[k], s[f[k]])
    BY <1>0 DEF Spells, Follows
  <2> QED BY <1>2, <2>1, MatchesKind
<1>4. f[k] + 1 \in DOMAIN s /\ Dotted(s[f[k] + 1])
  BY <1>2, <1>3 DEF Spells, Dots
<1>5. PICK l \in DOMAIN nodes : f[l] = f[k] + 1
  <2>1. s[f[k] + 1].t # "junk"
    BY <1>4 DEF Dotted
  <2> QED BY <1>4, <2>1 DEF Spells, Follows
<1>6. l = k + 1
  <2>1. ~ (l < k) /\ l # k
    BY <1>0, <1>5
  <2>2. ~ (k + 1 < l)
    <3>1. f[k] < f[k + 1]
      BY <1>0, <1>1
    <3>2. k + 1 < l => f[k + 1] < f[l]
      BY <1>0, <1>1
    <3> QED BY <1>0, <1>1, <1>5, <3>1, <3>2
  <2> QED BY <1>0, <2>1, <2>2
<1>7. f[k + 1] = f[k] + 1 /\ f[k + 1] # 0
  BY <1>0, <1>5, <1>6
<1>8. Matches(nodes[k + 1], s[f[k + 1]])
  BY <1>1, <1>7 DEF Spells, Follows
<1>9. s[f[k] + 1] \in Token
  BY <1>0, <1>4
<1> QED BY <1>0, <1>1, <1>3, <1>4, <1>7, <1>8, <1>9

LEMMA DescentShares ==
  ASSUME Treelike, Typed, NEW s, NEW f, Spells(s, f), WalkDescent
  PROVE  Keeps(s, f)
<1>1. Walking("RECURSIVE_DESCENT")
  BY DEF WalkDescent
<1>2. PICK k : k = This.at
  OBVIOUS
<1>3. /\ k \in 1 .. Len(nodes) /\ k <= Len(nodes) /\ nodes \in Seq(PathNode)
      /\ Here \in Node \cup {NULL} /\ nodes[k].type = "RECURSIVE_DESCENT" /\ f[k] # 0
      /\ call = "match" /\ todo # <<>>
  BY <1>1, <1>2, AtToken
<1>4. PICK u : u = s[f[k] + 1]
  OBVIOUS
<1>5. /\ k + 1 \in 1 .. Len(nodes) /\ f[k + 1] = f[k] + 1 /\ f[k + 1] # 0
      /\ Matches(nodes[k + 1], u) /\ u \in Token /\ Dotted(u) /\ s[f[k]].t = ".."
  BY <1>3, <1>4, DescentNext
<1>6. /\ nodes[k + 1].type = "CHILD_MEMBER" <=> u.t = "name"
      /\ nodes[k + 1].type = "CHILD_MEMBER" => nodes[k + 1].name = u.name
      /\ nodes[k + 1].type # "CHILD_ELEMENT"
  BY <1>5, MatchesKind DEF Dotted
<1>7. CASE Here = NULL
  <2>1. Walk(<<>>) /\ Yield(s, f, This) = {}
    BY <1>7, HereYield DEF WalkDescent
  <2> QED BY <2>1, NoneShares, NoTasks DEF Keeps
<1>8. CASE Here # NULL
  <2> DEFINE tasks == [i \in DOMAIN Kids[Here] |->
                         IF Entered(i) THEN Onward(Here) ELSE Call(This.at, Kids[Here][i].node)]
  <2>1. Walk(tasks)
    BY <1>8 DEF WalkDescent
  <2>2. Here \in Node
    BY <1>3, <1>8
  <2>3. tasks \in Seq(TaskFor(nodes))
    <3>1. /\ tasks = [i \in DOMAIN Kids[Here] |-> tasks[i]]
          /\ \A i \in DOMAIN Kids[Here] :
               tasks[i] = Onward(Here) \/ tasks[i] = Call(This.at, Kids[Here][i].node)
      OBVIOUS
    <3> HIDE DEF tasks
    <3> QED BY <1>2, <1>3, <1>8, <3>1, KidsTyped
  <2>4. \A i \in DOMAIN Kids[Here] :
          Entered(i) <=> /\ Holds("object") /\ u.t = "name" /\ u.name = Kids[Here][i].name
    BY <1>2, <1>6 DEF Entered
  <2>5. /\ DOMAIN tasks = DOMAIN Kids[Here]
        /\ \A i \in DOMAIN Kids[Here] :
             Yield(s, f, tasks[i]) = IF Entered(i) THEN Past(s, f, k + 1, Here)
                                     ELSE Past(s, f, k, Kid(Here, i))
    <3>1. ASSUME NEW i \in DOMAIN Kids[Here]
          PROVE  Yield(s, f, tasks[i]) = IF Entered(i) THEN Past(s, f, k + 1, Here)
                                         ELSE Past(s, f, k, Kid(Here, i))
      <4>1. tasks[i] = IF Entered(i) THEN Onward(Here) ELSE Call(k, Kid(Here, i))
        BY <1>2 DEF Kid
      <4>2. Kid(Here, i) \in Node /\ Kid(Here, i) # NULL
        BY <2>2, KidThere, PathAssumption
      <4> HIDE DEF tasks
      <4>3. Yield(s, f, Onward(Here)) = Past(s, f, k + 1, Here)
        BY <1>2, <1>8, <2>2, OnwardYield
      <4>4. Yield(s, f, Call(k, Kid(Here, i))) = Past(s, f, k, Kid(Here, i))
        BY <4>2, CallYield
      <4> QED BY <4>1, <4>3, <4>4
    <3> QED BY <3>1
  <2> HIDE DEF tasks
  <2>6. Yield(s, f, This) = Past(s, f, k, Here)
    <3>1. ~ Looping(This)
      BY <1>2, <1>3 DEF Looping
    <3> QED BY <1>2, <1>8, <3>1, HereYield
  <2>7. \A x \in Node : \A y : y \in Past(s, f, k, x) <=>
          \E z \in Selects(s, f[k], x) : y \in Past(s, f, k + 1, z)
    <3> TAKE x \in Node
    <3>1. ~ Misfit(s[f[k]], x)
      BY <1>5 DEF Misfit
    <3>2. \A y : y \in Past(s, f, k, x) <=>
            \/ y = x /\ Misfit(s[f[k]], x)
            \/ \E z \in Selects(s, f[k], x) : y \in Past(s, f, k + 1, z)
      BY <1>3, PastStep
    <3> QED BY <3>1, <3>2
  <2>8. \A x \in Node : Selects(s, f[k], x) = IF u.t = "name" THEN Outermost(x, u.name) ELSE {}
    <3> TAKE x \in Node
    <3>1. PICK i : i = f[k]
      OBVIOUS
    <3>2. s[i].t = ".." /\ u = s[i + 1]
      BY <1>4, <1>5, <3>1
    <3>3. Selects(s, i, x) = IF s[i + 1].t = "name" THEN Outermost(x, s[i + 1].name) ELSE {}
      BY <3>2, SelectsBelow
    <3> QED BY <3>1, <3>2, <3>3
  <2>9. CASE u.t # "name"
    <3>1. \A x \in Node : \A y : y \notin Past(s, f, k, x)
      BY <2>7, <2>8, <2>9
    <3>2. \A i \in DOMAIN Kids[Here] : ~ Entered(i) /\ Kid(Here, i) \in Node
      BY <2>2, <2>4, <2>9, KidThere
    <3>3. Shares(s, f, tasks)
      BY <2>2, <2>5, <2>6, <3>1, <3>2 DEF Shares
    <3> QED BY <2>1, <2>3, <3>3 DEF Keeps
  <2>10. CASE u.t = "name"
    <3>1. PICK m : m = u.name
      OBVIOUS
    <3>2. m \in Name
      BY <1>5, <2>10, <3>1 DEF Token
    <3>3. \A i \in DOMAIN Kids[Here] : Entered(i) <=> Kids[Here][i].name = m
      <4> TAKE i \in DOMAIN Kids[Here]
      <4>1. Kids[Here][i].name = m => Kind[Here] = "object"
        BY <2>2, <3>2, PathAssumption
      <4> QED BY <1>8, <2>4, <2>10, <3>1, <4>1 DEF Holds
    <3>4. ASSUME NEW y \in Past(s, f, k + 1, Here)
          PROVE  \E i \in DOMAIN Kids[Here] : Kids[Here][i].name = m
      <4>1. PICK j : j = f[k + 1]
        OBVIOUS
      <4>2. s[j].t = "name" /\ s[j].name = m
        BY <1>4, <1>5, <2>10, <3>1, <4>1
      <4>3. ~ Misfit(s[j], Here)
        BY <4>2 DEF Misfit
      <4>4. \/ y = Here /\ Misfit(s[j], Here)
            \/ \E z \in Selects(s, j, Here) : y \in Past(s, f, (k + 1) + 1, z)
        BY <1>3, <1>5, <2>2, <3>4, <4>1, PastStep
      <4>5. Selects(s, j, Here) # {}
        BY <4>3, <4>4
      <4>6. Selects(s, j, Here) = IF Kind[Here] = "object" THEN Member(Here, m) ELSE {}
        BY <4>2, SelectsName
      <4> QED BY <4>5, <4>6 DEF Member
    <3>5. \A y : y \in Yield(s, f, This) <=>
            \E z \in Outermost(Here, m) : y \in Past(s, f, k + 1, z)
      BY <2>2, <2>6, <2>7, <2>8, <2>10, <3>1
    <3>6. \A z : z \in Outermost(Here, m) <=>
            \/ z = Here
            \/ \E i \in DOMAIN Kids[Here] : Kids[Here][i].name # m /\ z \in Outermost(Kid(Here, i), m)
      BY <2>2, OutermostParts
    <3>7. \A i \in DOMAIN Kids[Here] : \A y : y \in Past(s, f, k, Kid(Here, i)) <=>
            \E z \in Outermost(Kid(Here, i), m) : y \in Past(s, f, k + 1, z)
      <4> TAKE i \in DOMAIN Kids[Here]
      <4>1. Kid(Here, i) \in Node
        BY <2>2, KidThere
      <4> QED BY <2>7, <2>8, <2>10, <3>1, <4>1
    <3>8. ASSUME NEW y
          PROVE  y \in Yield(s, f, This) <=>
                   \E i \in DOMAIN Kids[Here] : y \in Yield(s, f, tasks[i])
      <4>1. y \in Yield(s, f, This) <=>
              \/ y \in Past(s, f, k + 1, Here)
              \/ \E i \in DOMAIN Kids[Here] :
                   Kids[Here][i].name # m /\ y \in Past(s, f, k, Kid(Here, i))
        BY <3>5, <3>6, <3>7
      <4>2. \A i \in DOMAIN Kids[Here] : y \in Yield(s, f, tasks[i]) <=>
              IF Kids[Here][i].name = m THEN y \in Past(s, f, k + 1, Here)
              ELSE y \in Past(s, f, k, Kid(Here, i))
        BY <2>5, <3>3
      <4> QED BY <3>4, <4>1, <4>2
    <3>9. Shares(s, f, tasks)
      BY <2>5, <3>8 DEF Shares
    <3> QED BY <2>1, <2>3, <3>9 DEF Keeps
  <2> QED BY <2>9, <2>10
<1> QED BY <1>7, <1>8

-----------------------------------------------------------------------------
(* What is found, and what the calls to come are to find, is all that the  *)
(* whole path gives from the root.                                         *)
Accounts(s, f) ==
  \A y : y \in Range(results) \/ (\E k \in DOMAIN todo : y \in Yield(s, f, todo[k]))
           <=> y \in Gives(s, 1, root)

LEMMA WalkAccounts ==
  ASSUME Typed, call = "match", todo # <<>>, NEW s, NEW f, Accounts(s, f),
         NEW tasks \in Seq(TaskFor(nodes)), Shares(s, f, tasks), Walk(tasks)
  PROVE  Accounts(s, f)'
<1>1. todo' = tasks \o Tail(todo) /\ nodes' = nodes /\ results' = results /\ root' = root
  BY DEF Walk
<1>2. todo \in Seq(TaskFor(nodes)) /\ This = Head(todo)
  BY TodoTyped DEF Typed, TypeOK, This
<1> DEFINE m == Len(tasks)
<1>4. /\ m \in Nat /\ DOMAIN tasks = 1 .. m
      /\ \A k \in DOMAIN todo' :
           \/ k \in DOMAIN tasks /\ todo'[k] = tasks[k]
           \/ /\ k > m /\ k - m + 1 \in DOMAIN todo /\ k - m + 1 # 1
              /\ todo'[k] = todo[k - m + 1]
      /\ 1 \in DOMAIN todo /\ This = todo[1]
      /\ \A k \in DOMAIN todo : k > 1 => k - 1 + m \in DOMAIN todo' /\ todo'[k - 1 + m] = todo[k]
  <2>1. JoinOf(tasks, todo, todo')
    BY <1>1, <1>2, Joined
  <2> QED BY <1>2, <2>1 DEF JoinOf
<1>5. \A k \in DOMAIN tasks : k \in DOMAIN todo' /\ todo'[k] = tasks[k]
  <2>1. Tail(todo) \in Seq(TaskFor(nodes))
    BY <1>2
  <2> QED BY <1>1, <2>1
<1>6. DOMAIN todo \subseteq Nat \ {0}
  BY <1>2
<1> HIDE DEF m
<1>7. \A t : Yield(s, f, t)' = Yield(s, f, t)
  BY <1>1 DEF Yield, Looping, Past
<1>8. ASSUME NEW y
      PROVE  (\E k \in DOMAIN todo' : y \in Yield(s, f, todo'[k])) <=>
               \E k \in DOMAIN todo : y \in Yield(s, f, todo[k])
  <2>1. ASSUME NEW k \in DOMAIN todo', y \in Yield(s, f, todo'[k])
        PROVE  \E l \in DOMAIN todo : y \in Yield(s, f, todo[l])
    <3>1. CASE k \in DOMAIN tasks /\ todo'[k] = tasks[k]
      <4>1. y \in Yield(s, f, This)
        BY <2>1, <3>1 DEF Shares
      <4> QED BY <1>4, <4>1
    <3>2. CASE k - m + 1 \in DOMAIN todo /\ todo'[k] = todo[k - m + 1]
      BY <2>1, <3>2
    <3> QED BY <1>4, <3>1, <3>2
  <2>2. ASSUME NEW k \in DOMAIN todo, y \in Yield(s, f, todo[k])
        PROVE  \E l \in DOMAIN todo' : y \in Yield(s, f, todo'[l])
    <3>1. CASE k > 1
      BY <1>4, <2>2, <3>1
    <3>2. CASE ~ (k > 1)
      <4>1. k = 1
        BY <1>6, <3>2
      <4>2. PICK j \in DOMAIN tasks : y \in Yield(s, f, tasks[j])
        BY <1>4, <2>2, <4>1 DEF Shares
      <4> QED BY <1>5, <4>2
    <3> QED BY <3>1, <3>2
  <2> QED BY <2>1, <2>2
<1>10. ASSUME NEW y
       PROVE  (\E k \in DOMAIN todo' : y \in Yield(s, f, todo[k])') <=>
                \E k \in DOMAIN todo : y \in Yield(s, f, todo[k])
  BY <1>7, <1>8
<1> QED BY <1>1, <1>10 DEF Accounts

(* Every turn of the walk, then, leaves the account as it was, or the walk *)
(* is in a loop that has no end.                                           *)
LEMMA KeepsAccounts ==
  ASSUME Typed, call = "match", todo # <<>>, NEW s, NEW f, Endless \/ Accounts(s, f), Keeps(s, f),
         ~ Turning(This)
  PROVE  Endless' \/ Accounts(s, f)'
<1>1. PICK tasks : tasks \in Seq(TaskFor(nodes)) /\ Walk(tasks) /\ Shares(s, f, tasks)
  BY DEF Keeps
<1>2. CASE Endless
  BY <1>1, <1>2, EndlessKept
<1>3. CASE Accounts(s, f)
  BY <1>1, <1>3, WalkAccounts
<1> QED BY <1>2, <1>3

LEMMA SliceAccounts ==
  ASSUME Typed, NEW s, NEW f, Spells(s, f), Endless \/ Accounts(s, f), WalkSlice
  PROVE  Endless' \/ Accounts(s, f)'
<1>1. call = "match" /\ todo # <<>>
  BY DEF WalkSlice, Walking
<1>2. CASE Endless
  <2>1. Moves \/ Endless'
    BY SliceMoves
  <2>2. ASSUME Moves PROVE Endless'
    <3>1. PICK tasks :
            /\ Split(tasks) /\ Walk(tasks)
            /\ Turning(This) => \E k \in DOMAIN tasks : Turning(tasks[k])
      BY <2>2 DEF Moves
    <3>2. tasks \in Seq(TaskFor(nodes))
      BY <3>1 DEF Split
    <3> QED BY <1>1, <1>2, <3>1, <3>2, EndlessKept
  <2> QED BY <2>1, <2>2
<1>3. CASE Accounts(s, f)
  <2>1. Keeps(s, f) \/ Endless'
    BY SliceShares
  <2>2. ASSUME Keeps(s, f) PROVE Accounts(s, f)'
    <3>1. PICK tasks : tasks \in Seq(TaskFor(nodes)) /\ Walk(tasks) /\ Shares(s, f, tasks)
      BY <2>2 DEF Keeps
    <3> QED BY <1>1, <1>3, <3>1, WalkAccounts
  <2> QED BY <2>1, <2>2
<1> QED BY <1>2, <1>3

LEMMA RangeAppend ==
  ASSUME NEW S, NEW r \in Seq(S), NEW x \in S
  PROVE  Range(Append(r, x)) = Range(r) \cup {x}
<1>1. /\ DOMAIN Append(r, x) = 1 .. Len(r) + 1 /\ DOMAIN r = 1 .. Len(r) /\ Len(r) \in Nat
      /\ \A i \in 1 .. Len(r) : Append(r, x)[i] = r[i]
      /\ Append(r, x)[Len(r) + 1] = x
  OBVIOUS
<1>2. ASSUME NEW i \in DOMAIN Append(r, x) PROVE Append(r, x)[i] \in Range(r) \cup {x}
  <2>1. i = Len(r) + 1 \/ i \in 1 .. Len(r)
    BY <1>1
  <2> QED BY <1>1, <2>1 DEF Range
<1>3. ASSUME NEW i \in DOMAIN r PROVE r[i] \in Range(Append(r, x))
  <2>1. i \in DOMAIN Append(r, x) /\ Append(r, x)[i] = r[i]
    BY <1>1
  <2> QED BY <2>1 DEF Range
<1>4. x \in Range(Append(r, x))
  <2>1. Len(r) + 1 \in DOMAIN Append(r, x)
    BY <1>1
  <2> QED BY <1>1, <2>1 DEF Range
<1> QED BY <1>2, <1>3, <1>4 DEF Range

LEMMA DeliverAccounts ==
  ASSUME Typed, NEW s, NEW f, Accounts(s, f), Deliver
  PROVE  Accounts(s, f)'
<1>1. /\ call = "match" /\ todo # <<>> /\ todo' = Tail(todo) /\ nodes' = nodes /\ root' = root
      /\ results' = (IF Here = NULL THEN results ELSE Append(results, Here))
      /\ This.at > Len(nodes) /\ This = Head(todo)
  BY DEF Deliver, This
<1>2. /\ todo \in Seq(TaskFor(nodes)) /\ This.at \in Nat \ {0} /\ Len(nodes) \in Nat
      /\ Here \in Node \cup {NULL} /\ results \in Seq(Node)
  BY <1>1, CallTyped, TodoTyped DEF Typed, TypeOK
<1>3. Yield(s, f, This) = IF Here = NULL THEN {} ELSE {Here}
  <2>1. ~ Looping(This)
    BY <1>1, <1>2 DEF Looping
  <2>2. Past(s, f, This.at, Here) = {Here}
    BY <1>1 DEF Past
  <2> QED BY <2>1, <2>2, HereYield
<1>4. Range(results') = Range(results) \cup Yield(s, f, This)
  <2>1. CASE Here = NULL
    BY <1>1, <1>3, <2>1
  <2>2. CASE Here # NULL
    BY <1>1, <1>2, <1>3, <2>2, RangeAppend
  <2> QED BY <2>1, <2>2
<1>5. /\ 1 \in DOMAIN todo /\ This = todo[1] /\ DOMAIN todo \subseteq Nat \ {0}
      /\ \A k \in DOMAIN todo' : k + 1 \in DOMAIN todo /\ todo'[k] = todo[k + 1]
      /\ \A k \in DOMAIN todo : k # 1 => k - 1 \in DOMAIN todo' /\ todo'[k - 1] = todo[k]
  <2>1. /\ Len(todo) \in Nat /\ Len(todo) # 0 /\ DOMAIN todo = 1 .. Len(todo)
        /\ Len(Tail(todo)) = Len(todo) - 1 /\ DOMAIN Tail(todo) = 1 .. Len(todo) - 1
        /\ \A k \in 1 .. Len(todo) - 1 : Tail(todo)[k] = todo[k + 1]
        /\ Head(todo) = todo[1]
    BY <1>1, <1>2
  <2> QED BY <1>1, <2>1
<1>6. \A t : Yield(s, f, t)' = Yield(s, f, t)
  BY <1>1 DEF Yield, Looping, Past
<1>7. ASSUME NEW y
      PROVE  (\E k \in DOMAIN todo : y \in Yield(s, f, todo[k])) <=>
               \/ y \in Yield(s, f, This)
               \/ \E k \in DOMAIN todo' : y \in Yield(s, f, todo'[k])
  BY <1>5
<1>8. ASSUME NEW y
      PROVE  (\E k \in DOMAIN todo' : y \in Yield(s, f, todo[k])') <=>
               \E k \in DOMAIN todo' : y \in Yield(s, f, todo'[k])
  BY <1>6
<1> QED BY <1>1, <1>4, <1>7, <1>8 DEF Accounts

LEMMA StepAccounts ==
  ASSUME Treelike, Typed, NEW s, NEW f, Spells(s, f), Endless \/ Accounts(s, f), WalkStep
  PROVE  Endless' \/ Accounts(s, f)'
<1>1. CASE Deliver
  BY <1>1, DeliverAccounts, DeliverEndless
<1>2. CASE WalkSlice
  BY <1>2, SliceAccounts
<1>3. CASE WalkRoot \/ WalkMember \/ WalkElement \/ WalkDescent \/ WalkWildcard \/ WalkSet
  <2>1. Keeps(s, f)
    BY <1>3, RootShares, MemberShares, ElementShares, DescentShares, WildcardShares, SetShares
  <2>2. PICK type : Walking(type) /\ type # "ELEMENT_SLICE"
    BY <1>3 DEF WalkRoot, WalkMember, WalkElement, WalkDescent, WalkWildcard, WalkSet
  <2>3. call = "match" /\ todo # <<>> /\ ~ Turning(This)
    BY <2>2, WalkingHere
  <2> QED BY <2>1, <2>3, KeepsAccounts
<1>4. CASE Return
  <2>1. UNCHANGED <<nodes, todo, results, root>>
    BY <1>4 DEF Return, walker
  <2>2. (Endless' <=> Endless) /\ (Accounts(s, f)' <=> Accounts(s, f))
    BY <2>1 DEF Endless, Turning, Accounts, Yield, Looping, Past
  <2> QED BY <2>2
<1> QED BY <1>1, <1>2, <1>3, <1>4 DEF WalkStep

(* A match begins with one call, for all of the path.                      *)
LEMMA MatchAccounts ==
  ASSUME Typed, nodes # <<>>, NEW s, NEW f, Spells(s, f), NEW n \in Node, Match(n)
  PROVE  Accounts(s, f)'
<1>1. root' = n /\ results' = <<>> /\ todo' = <<Call(1, n)>> /\ nodes' = nodes
  BY DEF Match, Call
<1>2. /\ nodes \in Seq(PathNode) /\ s \in Seq(Token) /\ 1 \in DOMAIN nodes /\ ~ (1 > Len(nodes))
      /\ f[1] \in 0 .. Len(s) /\ Len(s) \in Nat /\ DOMAIN s = 1 .. Len(s)
  <2>1. nodes \in Seq(PathNode) /\ s \in Seq(Token)
    BY DEF Typed, TypeOK, Spells
  <2>2. 1 \in DOMAIN nodes /\ ~ (1 > Len(nodes))
    BY <2>1
  <2> QED BY <2>1, <2>2 DEF Spells, Follows
<1>3. Past(s, f, 1, n) = Gives(s, 1, n)
  <2>1. CASE f[1] = 0
    BY <1>2, <2>1 DEF Past
  <2>2. CASE f[1] # 0
    <3>1. ASSUME NEW j \in 1 .. f[1] - 1 PROVE s[j].t = "junk"
      <4>1. j \in DOMAIN s /\ j < f[1]
        BY <1>2
      <4>2. \A k \in DOMAIN nodes : f[k] # j
        <5> TAKE k \in DOMAIN nodes
        <5>1. k = 1 \/ 1 < k
          BY <1>2
        <5>2. 1 < k => f[1] < f[k]
          BY <1>2 DEF Spells, Follows
        <5>3. f[k] \in 0 .. Len(s)
          BY DEF Spells, Follows
        <5> QED BY <1>2, <4>1, <5>1, <5>2, <5>3
      <4> QED BY <4>1, <4>2 DEF Spells, Follows
    <3>2. f[1] \in 1 .. Len(s) + 1 /\ 1 \in 1 .. f[1]
      BY <1>2, <2>2
    <3>3. Gives(s, 1, n) = Gives(s, f[1], n)
      BY <1>2, <3>1, <3>2, JunkSkipped
    <3> QED BY <1>2, <2>2, <3>3 DEF Past
  <2> QED BY <2>1, <2>2
<1>4. Yield(s, f, Call(1, n)) = Gives(s, 1, n)
  BY <1>3, CallYield, PathAssumption
<1>5. \A t : Yield(s, f, t)' = Yield(s, f, t)
  BY <1>1 DEF Yield, Looping, Past
<1>6. DOMAIN todo' = {1} /\ todo'[1] = Call(1, n) /\ DOMAIN results' = {}
  BY <1>1
<1>7. Range(results') = {}
  BY <1>6 DEF Range
<1>8. ASSUME NEW y
      PROVE  (\E k \in DOMAIN todo' : y \in Yield(s, f, todo[k])') <=> y \in Gives(s, 1, n)
  BY <1>4, <1>5, <1>6
<1> QED BY <1>1, <1>7, <1>8 DEF Accounts

-----------------------------------------------------------------------------
(* The compiler against the expression.                                    *)

(* list is made, in order, of what the first q tokens of e say after the   *)
(* p-th, which is the "$", if there is one; f says of which.               *)
Traces(list, e, p, q, f) ==
  /\ f \in [DOMAIN list -> 0 .. q - p]
  /\ \A i \in 1 .. q : e[i].t = "$" <=> i = p
  /\ p # 0 => list # <<>>
  /\ \A k \in DOMAIN list :
       IF p # 0 /\ k = 1 THEN list[k] = [type |-> "ROOT"] /\ f[k] = 0
       ELSE f[k] \in 1 .. q - p /\ Matches(list[k], e[p + f[k]])
  /\ \A k, l \in DOMAIN list : k < l => f[k] < f[l]
  /\ \A i \in 1 .. q - p : e[p + i].t = "junk" \/ \E k \in DOMAIN list : f[k] = i

(* The first q tokens have been read, and rest is what follows them.       *)
ReadTo(q) ==
  /\ Len(rest) = Len(said) - q
  /\ \A i \in DOMAIN rest : rest[i] = said[q + i]

(* What is built says what has been read so far.                           *)
Compiling ==
  call = "compile" =>
    /\ root = NULL /\ WellSpelled(said)
    /\ \E q \in 0 .. Len(said) :
         ReadTo(q) /\ \E p \in 0 .. q : \E f : Traces(building, said, p, q, f)

(* One more token, that a path node is made of; that is junk; the first    *)
(* "$".                                                                   *)
LEMMA TracesAdd ==
  ASSUME NEW list \in Seq(PathNode), NEW e, NEW q \in Nat, NEW p \in 0 .. q, NEW f,
         Traces(list, e, p, q, f), e[q + 1].t # "$", NEW n, Matches(n, e[q + 1])
  PROVE  \E g : Traces(Append(list, n), e, p, q + 1, g)
<1>1. PICK m \in Nat : m = Len(list)
  OBVIOUS
<1>2. PICK b : b = Append(list, n)
  OBVIOUS
<1>3. /\ DOMAIN list = 1 .. m /\ DOMAIN b = 1 .. m + 1
      /\ \A k \in 1 .. m : b[k] = list[k]
      /\ b[m + 1] = n /\ b # <<>>
  BY <1>1, <1>2, AppendNotEmpty
<1>4. PICK r \in Nat : r = q - p /\ p + (r + 1) = q + 1 /\ q + 1 - p = r + 1
  OBVIOUS
<1> DEFINE g == [k \in 1 .. m + 1 |-> IF k = m + 1 THEN r + 1 ELSE f[k]]
<1>5. /\ f \in [1 .. m -> 0 .. r]
      /\ \A i \in 1 .. q : e[i].t = "$" <=> i = p
      /\ p # 0 => list # <<>>
      /\ \A k \in 1 .. m :
           IF p # 0 /\ k = 1 THEN list[k] = [type |-> "ROOT"] /\ f[k] = 0
           ELSE f[k] \in 1 .. r /\ Matches(list[k], e[p + f[k]])
      /\ \A k, l \in 1 .. m : k < l => f[k] < f[l]
      /\ \A i \in 1 .. r : e[p + i].t = "junk" \/ \E k \in 1 .. m : f[k] = i
  BY <1>3, <1>4 DEF Traces
<1>6. /\ g \in [1 .. m + 1 -> 0 .. r + 1] /\ g[m + 1] = r + 1
      /\ \A k \in 1 .. m : g[k] = f[k]
  BY <1>5
<1> HIDE DEF g
<1>7. \A i \in 1 .. q + 1 : e[i].t = "$" <=> i = p
  <2> TAKE i \in 1 .. q + 1
  <2>1. i \in 1 .. q \/ i = q + 1
    OBVIOUS
  <2> QED BY <1>5, <2>1
<1>8. ASSUME NEW k \in 1 .. m + 1
      PROVE  IF p # 0 /\ k = 1 THEN b[k] = [type |-> "ROOT"] /\ g[k] = 0
             ELSE g[k] \in 1 .. r + 1 /\ Matches(b[k], e[p + g[k]])
  <2>1. CASE k = m + 1
    <3>1. ~ (p # 0 /\ k = 1)
      <4>1. p # 0 => m # 0
        BY <1>1, <1>5, Emptiness
      <4> QED BY <2>1, <4>1
    <3>2. b[k] = n /\ g[k] = r + 1 /\ r + 1 \in 1 .. r + 1
      BY <1>3, <1>4, <1>6, <2>1
    <3>3. p + g[k] = q + 1
      BY <1>4, <3>2
    <3> QED BY <3>1, <3>2, <3>3
  <2>2. CASE k # m + 1
    <3>1. k \in 1 .. m
      BY <2>2
    <3>2. g[k] = f[k] /\ b[k] = list[k]
      BY <1>3, <1>6, <3>1
    <3>3. f[k] \in 1 .. r => f[k] \in 1 .. r + 1
      OBVIOUS
    <3> QED BY <1>5, <3>1, <3>2, <3>3
  <2> QED BY <2>1, <2>2
<1>9. ASSUME NEW k \in 1 .. m + 1, NEW l \in 1 .. m + 1, k < l PROVE g[k] < g[l]
  <2>1. k \in 1 .. m /\ f[k] \in 0 .. r
    BY <1>5, <1>9
  <2>2. CASE l = m + 1
    BY <1>6, <2>1, <2>2
  <2>3. CASE l # m + 1
    <3>1. l \in 1 .. m
      BY <2>3
    <3> QED BY <1>5, <1>6, <1>9, <2>1, <3>1
  <2> QED BY <2>2, <2>3
<1>10. ASSUME NEW i \in 1 .. r + 1
       PROVE  e[p + i].t = "junk" \/ \E k \in 1 .. m + 1 : g[k] = i
  <2>1. CASE i = r + 1
    BY <1>6, <2>1
  <2>2. CASE i # r + 1
    <3>1. i \in 1 .. r
      BY <2>2
    <3>2. \A k \in 1 .. m : k \in 1 .. m + 1
      OBVIOUS
    <3> QED BY <1>5, <1>6, <3>1, <3>2
  <2> QED BY <2>1, <2>2
<1>11. Traces(b, e, p, q + 1, g)
  <2>1. DOMAIN b = 1 .. m + 1 /\ q + 1 - p = r + 1
    BY <1>3, <1>4
  <2>2. g \in [DOMAIN b -> 0 .. q + 1 - p]
    BY <1>6, <2>1
  <2>3. \A k \in DOMAIN b :
          IF p # 0 /\ k = 1 THEN b[k] = [type |-> "ROOT"] /\ g[k] = 0
          ELSE g[k] \in 1 .. q + 1 - p /\ Matches(b[k], e[p + g[k]])
    BY <1>8, <2>1
  <2>4. \A k, l \in DOMAIN b : k < l => g[k] < g[l]
    BY <1>9, <2>1
  <2>5. \A i \in 1 .. q + 1 - p : e[p + i].t = "junk" \/ \E k \in DOMAIN b : g[k] = i
    BY <1>10, <2>1
  <2> QED BY <1>3, <1>7, <2>2, <2>3, <2>4, <2>5 DEF Traces
<1> QED BY <1>2, <1>11

LEMMA TracesJunk ==
  ASSUME NEW list, NEW e, NEW q \in Nat, NEW p \in 0 .. q, NEW f,
         Traces(list, e, p, q, f), e[q + 1].t = "junk"
  PROVE  Traces(list, e, p, q + 1, f)
<1>1. PICK r \in Nat : r = q - p /\ p + (r + 1) = q + 1 /\ q + 1 - p = r + 1
  OBVIOUS
<1>2. \A i \in 1 .. q + 1 : e[i].t = "$" <=> i = p
  <2> TAKE i \in 1 .. q + 1
  <2>1. i \in 1 .. q \/ i = q + 1
    OBVIOUS
  <2> QED BY <2>1 DEF Traces
<1>3. ASSUME NEW i \in 1 .. r + 1
      PROVE  e[p + i].t = "junk" \/ \E k \in DOMAIN list : f[k] = i
  <2>1. i = r + 1 \/ i \in 1 .. r
    OBVIOUS
  <2> QED BY <1>1, <2>1 DEF Traces
<1>4. f \in [DOMAIN list -> 0 .. r + 1]
  <2>1. 0 .. r \subseteq 0 .. r + 1 /\ f \in [DOMAIN list -> 0 .. r]
    BY <1>1 DEF Traces
  <2> QED BY <2>1
<1>5. ASSUME NEW k \in DOMAIN list
      PROVE  IF p # 0 /\ k = 1 THEN list[k] = [type |-> "ROOT"] /\ f[k] = 0
             ELSE f[k] \in 1 .. r + 1 /\ Matches(list[k], e[p + f[k]])
  <2>1. IF p # 0 /\ k = 1 THEN list[k] = [type |-> "ROOT"] /\ f[k] = 0
        ELSE f[k] \in 1 .. r /\ Matches(list[k], e[p + f[k]])
    BY <1>1 DEF Traces
  <2>2. f[k] \in 1 .. r => f[k] \in 1 .. r + 1
    OBVIOUS
  <2> QED BY <2>1, <2>2
<1>6. /\ p # 0 => list # <<>>
      /\ \A k, l \in DOMAIN list : k < l => f[k] < f[l]
  BY DEF Traces
<1> QED BY <1>1, <1>2, <1>3, <1>4, <1>5, <1>6 DEF Traces

LEMMA TracesRoot ==
  ASSUME NEW e, NEW q \in Nat, \A i \in 1 .. q : e[i].t # "$", e[q + 1].t = "$"
  PROVE  \E g : Traces(<<[type |-> "ROOT"]>>, e, q + 1, q + 1, g)
<1>1. PICK b : b = <<[type |-> "ROOT"]>>
  OBVIOUS
<1>2. DOMAIN b = {1} /\ b[1] = [type |-> "ROOT"] /\ b # <<>>
  BY <1>1
<1>3. PICK g : g = [k \in {1} |-> 0]
  OBVIOUS
<1>4. g \in [{1} -> 0 .. (q + 1) - (q + 1)] /\ g[1] = 0
  BY <1>3
<1>5. \A i \in 1 .. q + 1 : e[i].t = "$" <=> i = q + 1
  <2> TAKE i \in 1 .. q + 1
  <2>1. i \in 1 .. q \/ i = q + 1
    OBVIOUS
  <2>2. i \in 1 .. q => i # q + 1
    OBVIOUS
  <2> QED BY <2>1, <2>2
<1>6. 1 .. (q + 1) - (q + 1) = {} /\ q + 1 # 0
  OBVIOUS
<1>7. Traces(b, e, q + 1, q + 1, g)
  BY <1>2, <1>4, <1>5, <1>6 DEF Traces
<1> QED BY <1>1, <1>7

(* The root comes first, so that what a second "$" finds is a root.        *)
LEMMA Unrooted ==
  ASSUME NEW e, NEW q, NEW p, NEW f, Traces(building, e, p, q, f), building \in Seq(PathNode),
         ~ Rooted
  PROVE  p = 0
<1>1. SUFFICES ASSUME p # 0 PROVE FALSE
  OBVIOUS
<1>2. building # <<>>
  BY <1>1 DEF Traces
<1>3. 1 \in DOMAIN building
  BY <1>2
<1>4. building[1] = [type |-> "ROOT"]
  BY <1>1, <1>3 DEF Traces
<1> QED BY <1>2, <1>4 DEF Rooted

-----------------------------------------------------------------------------
(* One turn of the compiler.                                               *)
LEMMA BuildReads ==
  ASSUME Typed, NEW q \in 0 .. Len(said), ReadTo(q), rest # <<>>, NEW list, Build(list)
  PROVE  /\ Head(rest) = said[q + 1] /\ q + 1 \in 0 .. Len(said) /\ q \in Nat
         /\ ReadTo(q + 1)' /\ said' = said /\ building' = list
         /\ Head(rest) \in Token
<1>1. rest \in Seq(Token) /\ said \in Seq(Token)
  BY DEF Typed, TypeOK
<1>2. /\ Len(rest) \in Nat /\ Len(rest) # 0 /\ Len(said) \in Nat /\ DOMAIN rest = 1 .. Len(rest)
      /\ Head(rest) = rest[1] /\ Head(rest) \in Token
      /\ Len(Tail(rest)) = Len(rest) - 1 /\ DOMAIN Tail(rest) = 1 .. Len(rest) - 1
      /\ \A i \in 1 .. Len(rest) - 1 : Tail(rest)[i] = rest[i + 1]
  BY <1>1
<1>3. rest' = Tail(rest) /\ said' = said /\ building' = list
  BY DEF Build
<1>4. Len(rest) = Len(said) - q /\ \A i \in DOMAIN rest : rest[i] = said[q + i]
  BY DEF ReadTo
<1>5. Head(rest) = said[q + 1] /\ q + 1 \in 0 .. Len(said)
  BY <1>2, <1>4
<1>6. Len(rest') = Len(said') - (q + 1)
  BY <1>2, <1>3, <1>4
<1>7. ASSUME NEW i \in DOMAIN rest' PROVE rest'[i] = said'[(q + 1) + i]
  <2>1. i \in 1 .. Len(rest) - 1 /\ i + 1 \in DOMAIN rest /\ q + (i + 1) = (q + 1) + i
    BY <1>2, <1>3, <1>7
  <2> QED BY <1>2, <1>3, <1>4, <2>1
<1> QED BY <1>2, <1>3, <1>5, <1>6, <1>7 DEF ReadTo

LEMMA AddTraces ==
  ASSUME Typed, Compiling, call = "compile", rest # <<>>, NEW n, Matches(n, Head(rest)),
         Head(rest).t # "$", Add(n)
  PROVE  Compiling'
<1>1. PICK q \in 0 .. Len(said) :
        ReadTo(q) /\ \E p \in 0 .. q : \E f : Traces(building, said, p, q, f)
  BY DEF Compiling
<1>2. PICK p \in 0 .. q : \E f : Traces(building, said, p, q, f)
  BY <1>1
<1>3. PICK f : Traces(building, said, p, q, f)
  BY <1>2
<1>4. /\ Head(rest) = said[q + 1] /\ q + 1 \in 0 .. Len(said) /\ q \in Nat
      /\ ReadTo(q + 1)' /\ said' = said /\ building' = Append(building, n)
  BY <1>1, BuildReads DEF Add
<1>5. building \in Seq(PathNode)
  BY DEF Typed, TypeOK
<1>6. \E g : Traces(Append(building, n), said, p, q + 1, g)
  BY <1>3, <1>4, <1>5, TracesAdd
<1>7. p \in 0 .. q + 1 /\ root' = root
  BY <1>4 DEF Add, Build, walker
<1> QED BY <1>4, <1>6, <1>7 DEF Compiling

LEMMA JunkTraces ==
  ASSUME Typed, Compiling, call = "compile", rest # <<>>, Head(rest).t = "junk", Build(building)
  PROVE  Compiling'
<1>1. PICK q \in 0 .. Len(said) :
        ReadTo(q) /\ \E p \in 0 .. q : \E f : Traces(building, said, p, q, f)
  BY DEF Compiling
<1>2. PICK p \in 0 .. q : \E f : Traces(building, said, p, q, f)
  BY <1>1
<1>3. PICK f : Traces(building, said, p, q, f)
  BY <1>2
<1>4. /\ Head(rest) = said[q + 1] /\ q + 1 \in 0 .. Len(said) /\ q \in Nat
      /\ ReadTo(q + 1)' /\ said' = said /\ building' = building
  BY <1>1, BuildReads
<1>5. Traces(building, said, p, q + 1, f)
  BY <1>3, <1>4, TracesJunk
<1>6. p \in 0 .. q + 1 /\ root' = root
  BY <1>4 DEF Build, walker
<1> QED BY <1>4, <1>5, <1>6 DEF Compiling

LEMMA RootTraces ==
  ASSUME Typed, Compiling, call = "compile", rest # <<>>, Head(rest).t = "$", ~ Rooted,
         Build(<<[type |-> "ROOT"]>>)
  PROVE  Compiling'
<1>1. PICK q \in 0 .. Len(said) :
        ReadTo(q) /\ \E p \in 0 .. q : \E f : Traces(building, said, p, q, f)
  BY DEF Compiling
<1>2. PICK p \in 0 .. q : \E f : Traces(building, said, p, q, f)
  BY <1>1
<1>3. PICK f : Traces(building, said, p, q, f)
  BY <1>2
<1>4. /\ Head(rest) = said[q + 1] /\ q + 1 \in 0 .. Len(said) /\ q \in Nat
      /\ ReadTo(q + 1)' /\ said' = said /\ building' = <<[type |-> "ROOT"]>>
  BY <1>1, BuildReads
<1>5. building \in Seq(PathNode)
  BY DEF Typed, TypeOK
<1>6. p = 0
  BY <1>3, <1>5, Unrooted
<1>7. \A i \in 1 .. q : said[i].t # "$"
  BY <1>3, <1>6 DEF Traces
<1>8. \E g : Traces(<<[type |-> "ROOT"]>>, said, q + 1, q + 1, g)
  BY <1>4, <1>7, TracesRoot
<1>9. q + 1 \in 0 .. q + 1 /\ root' = root
  BY <1>4 DEF Build, walker
<1> QED BY <1>4, <1>8, <1>9 DEF Compiling

LEMMA TurnTraces ==
  ASSUME Typed, Compiling, CompileStep
  PROVE  Compiling'
<1>1. call = "compile"
  BY DEF CompileStep, CompileRoot, CompileDot, CompileBracket, CompileSlice, CompileJunk,
       CompileDone, At
<1>2. ASSUME Refuse \/ CompileDone PROVE Compiling'
  <2>1. call' = "none"
    BY <1>2 DEF Refuse, CompileDone
  <2> QED BY <2>1 DEF Compiling
<1>3. CASE CompileRoot
  BY <1>1, <1>2, <1>3, RootTraces DEF CompileRoot, At
<1>4. CASE CompileDot
  <2>1. CASE At({".."}) /\ Add([type |-> "RECURSIVE_DESCENT"])
    <3>1. rest # <<>> /\ Head(rest).t = ".." /\ Matches([type |-> "RECURSIVE_DESCENT"], Head(rest))
      BY <2>1 DEF At, Matches
    <3> QED BY <1>1, <2>1, <3>1, AddTraces
  <2>2. CASE At({".*"}) /\ Add([type |-> "WILDCARD_MEMBER"])
    <3>1. rest # <<>> /\ Head(rest).t = ".*" /\ Matches([type |-> "WILDCARD_MEMBER"], Head(rest))
      BY <2>2 DEF At, Matches
    <3> QED BY <1>1, <2>2, <3>1, AddTraces
  <2>3. CASE At({"name"}) /\ Add([type |-> "CHILD_MEMBER", name |-> Head(rest).name])
    <3>1. /\ rest # <<>> /\ Head(rest).t = "name"
          /\ Matches([type |-> "CHILD_MEMBER", name |-> Head(rest).name], Head(rest))
      BY <2>3 DEF At, Matches
    <3> QED BY <1>1, <2>3, <3>1, AddTraces
  <2> QED BY <1>2, <1>4, <2>1, <2>2, <2>3 DEF CompileDot
<1>5. CASE CompileBracket
  <2>1. CASE At({"[*]"}) /\ Add([type |-> "WILDCARD_ELEMENT"])
    <3>1. rest # <<>> /\ Head(rest).t = "[*]" /\ Matches([type |-> "WILDCARD_ELEMENT"], Head(rest))
      BY <2>1 DEF At, Matches
    <3> QED BY <1>1, <2>1, <3>1, AddTraces
  <2>2. CASE At({"index"}) /\ Add([type |-> "CHILD_ELEMENT", index |-> Head(rest).index])
    <3>1. /\ rest # <<>> /\ Head(rest).t = "index"
          /\ Matches([type |-> "CHILD_ELEMENT", index |-> Head(rest).index], Head(rest))
      BY <2>2 DEF At, Matches
    <3> QED BY <1>1, <2>2, <3>1, AddTraces
  <2>3. CASE At({"set"}) /\ Add([type |-> "ELEMENT_SET", indices |-> Head(rest).indices])
    <3>1. /\ rest # <<>> /\ Head(rest).t = "set"
          /\ Matches([type |-> "ELEMENT_SET", indices |-> Head(rest).indices], Head(rest))
      BY <2>3 DEF At, Matches
    <3> QED BY <1>1, <2>3, <3>1, AddTraces
  <2> QED BY <1>2, <1>5, <2>1, <2>2, <2>3 DEF CompileBracket
<1>6. CASE CompileSlice
  <2>1. rest # <<>> /\ Head(rest).t = "slice" /\ Matches(SliceOf(Head(rest)), Head(rest))
    BY <1>6 DEF CompileSlice, At, Matches
  <2> QED BY <1>1, <1>2, <1>6, <2>1, AddTraces DEF CompileSlice
<1>7. CASE CompileJunk
  BY <1>1, <1>2, <1>7, JunkTraces DEF CompileJunk, At
<1>8. CASE CompileDone
  BY <1>2, <1>8
<1> QED BY <1>3, <1>4, <1>5, <1>6, <1>7, <1>8 DEF CompileStep

-----------------------------------------------------------------------------
(* What a compiled path has, when it is done.                              *)
(* AfterRoot takes what is after the p-th token, if that is the "$".       *)
LEMMA AfterThe ==
  ASSUME NEW e \in Seq(Token), NEW p \in 0 .. Len(e),
         \A i \in DOMAIN e : e[i].t = "$" <=> i = p
  PROVE  /\ AfterRoot(e) \in Seq(Token) /\ Len(AfterRoot(e)) = Len(e) - p
         /\ \A i \in 1 .. Len(e) - p : AfterRoot(e)[i] = e[p + i]
<1>1. Len(e) \in Nat /\ DOMAIN e = 1 .. Len(e)
  OBVIOUS
<1>2. CASE p = 0
  <2>1. ~ \E i \in DOMAIN e : e[i].t = "$"
    BY <1>1, <1>2
  <2>2. AfterRoot(e) = e
    BY <2>1 DEF AfterRoot
  <2> QED BY <1>1, <1>2, <2>2
<1>3. CASE p # 0
  <2>1. p \in DOMAIN e /\ e[p].t = "$"
    BY <1>1, <1>3
  <2>2. p = CHOOSE i \in DOMAIN e : e[i].t = "$"
    BY <2>1
  <2>3. AfterRoot(e) = SubSeq(e, 1 + p, Len(e))
    BY <2>1, <2>2 DEF AfterRoot
  <2> QED BY <1>1, <2>1, <2>3
<1> QED BY <1>2, <1>3

LEMMA DoneSpells ==
  ASSUME Typed, Compiling, CompileDone
  PROVE  \E s, f : s = AfterRoot(said) /\ Spells(s, f)'
<1>1. /\ call = "compile" /\ rest = <<>> /\ nodes' = building /\ said \in Seq(Token)
      /\ building \in Seq(PathNode)
  BY DEF CompileDone, Typed, TypeOK
<1>2. PICK q \in 0 .. Len(said) :
        ReadTo(q) /\ \E p \in 0 .. q : \E f : Traces(building, said, p, q, f)
  BY <1>1 DEF Compiling
<1>3. PICK p \in 0 .. q : \E f : Traces(building, said, p, q, f)
  BY <1>2
<1>4. PICK f : Traces(building, said, p, q, f)
  BY <1>3
<1>5. q = Len(said) /\ q \in Nat /\ DOMAIN said = 1 .. q
  BY <1>1, <1>2 DEF ReadTo
<1>6. PICK s : s = AfterRoot(said)
  OBVIOUS
<1>7. PICK r \in Nat : r = q - p /\ p + r = q
  <2>1. p \in Nat /\ p <= q /\ q \in Nat
    BY <1>5
  <2>2. q - p \in Nat /\ p + (q - p) = q
    BY <2>1
  <2> QED BY <2>2
<1>8. s \in Seq(Token) /\ Len(s) = r /\ DOMAIN s = 1 .. r /\ \A i \in 1 .. r : s[i] = said[p + i]
  <2>1. \A i \in DOMAIN said : said[i].t = "$" <=> i = p
    BY <1>4, <1>5 DEF Traces
  <2>2. /\ AfterRoot(said) \in Seq(Token) /\ Len(AfterRoot(said)) = Len(said) - p
        /\ \A i \in 1 .. Len(said) - p : AfterRoot(said)[i] = said[p + i]
    BY <1>1, <1>5, <2>1, AfterThe
  <2> QED BY <1>5, <1>6, <1>7, <2>2
<1>9. Dots(s)
  <2> SUFFICES ASSUME NEW i \in 1 .. r, s[i].t = ".."
               PROVE  i + 1 \in 1 .. r /\ Dotted(s[i + 1])
    BY <1>8 DEF Dots
  <2>1. p + i \in DOMAIN said /\ said[p + i].t = ".."
    BY <1>5, <1>7, <1>8
  <2>2. p + i < Len(said) /\ Dotted(said[(p + i) + 1])
    BY <1>1, <2>1 DEF Compiling, WellSpelled
  <2>3. i + 1 \in 1 .. r /\ p + (i + 1) = (p + i) + 1
    BY <1>5, <1>7, <2>2
  <2> QED BY <1>8, <2>2, <2>3
<1>10. /\ f \in [DOMAIN building -> 0 .. Len(s)]
       /\ \A k, l \in DOMAIN building : k < l => f[k] < f[l]
       /\ \A i \in DOMAIN s : s[i].t = "junk" \/ \E k \in DOMAIN building : f[k] = i
  BY <1>4, <1>7, <1>8 DEF Traces
<1>11. ASSUME NEW k \in DOMAIN building
       PROVE  \/ f[k] = 0 /\ building[k] = [type |-> "ROOT"]
              \/ f[k] # 0 /\ Matches(building[k], s[f[k]])
  <2>1. IF p # 0 /\ k = 1 THEN building[k] = [type |-> "ROOT"] /\ f[k] = 0
        ELSE f[k] \in 1 .. r /\ Matches(building[k], said[p + f[k]])
    BY <1>4, <1>7 DEF Traces
  <2>2. f[k] \in 1 .. r => s[f[k]] = said[p + f[k]] /\ f[k] # 0
    BY <1>8
  <2> QED BY <2>1, <2>2
<1>12. Follows(s, f)'
  BY <1>1, <1>10, <1>11 DEF Follows
<1> QED BY <1>6, <1>8, <1>9, <1>12 DEF Spells

(* What the path was compiled from, and what its match has come to.        *)
Due(s) == \E f : Spells(s, f) /\ (root # NULL => Endless \/ Accounts(s, f))

FoundInv ==
  /\ Typed /\ Compiling
  /\ root # NULL => nodes # <<>>
  /\ nodes # <<>> => Due(AfterRoot(compiled))

LEMMA SpellsKept ==
  ASSUME NEW s, NEW f, Spells(s, f), UNCHANGED nodes
  PROVE  Spells(s, f)'
BY DEF Spells, Follows

LEMMA StepFound ==
  ASSUME Treelike, FoundInv, [Next]_vars
  PROVE  FoundInv'
<1>1. Typed'
  BY StepTyped DEF FoundInv
<1>2. PICK s : s = AfterRoot(compiled)
  OBVIOUS
<1>3. CASE CompileStep
  <2>1. Compiling'
    BY <1>3, TurnTraces DEF FoundInv
  <2>2. root = NULL /\ root' = NULL
    <3>1. call = "compile" /\ root' = root
      BY <1>3 DEF CompileStep, CompileRoot, CompileDot, CompileBracket, CompileSlice, CompileJunk,
           CompileDone, At, Add, Build, Refuse, walker
    <3> QED BY <3>1 DEF FoundInv, Compiling
  <2>3. CASE CompileDone
    <3>1. /\ nodes' = building
          /\ building # <<>> => compiled' = said
      BY <2>3 DEF CompileDone
    <3>2. PICK t, f : t = AfterRoot(said) /\ Spells(t, f)'
      BY <2>3, DoneSpells DEF FoundInv
    <3>3. nodes' # <<>> => AfterRoot(compiled') = t
      BY <3>1, <3>2
    <3>4. nodes' # <<>> => Due(AfterRoot(compiled))'
      BY <2>2, <3>2, <3>3 DEF Due
    <3> QED BY <1>1, <2>1, <2>2, <3>4 DEF FoundInv
  <2>4. CASE ~ CompileDone
    <3>1. nodes' = nodes /\ compiled' = compiled
      BY <1>3, <2>4 DEF CompileStep, CompileRoot, CompileDot, CompileBracket, CompileSlice,
           CompileJunk, Add, Build, Refuse
    <3>2. nodes # <<>> => Due(AfterRoot(compiled))'
      <4>1. SUFFICES ASSUME nodes # <<>> PROVE Due(AfterRoot(compiled))'
        OBVIOUS
      <4>2. PICK f : Spells(s, f)
        BY <1>2, <4>1 DEF FoundInv, Due
      <4>3. Spells(s, f)'
        BY <3>1, <4>2, SpellsKept
      <4>4. AfterRoot(compiled') = s
        BY <1>2, <3>1
      <4> QED BY <2>2, <4>3, <4>4 DEF Due
    <3> QED BY <1>1, <2>1, <2>2, <3>1, <3>2 DEF FoundInv
  <2> QED BY <2>3, <2>4
<1>4. ASSUME NEW e \in Expression, Compile(e) PROVE FoundInv'
  <2>1. /\ root' = NULL /\ rest' = e /\ said' = e /\ building' = <<>>
        /\ UNCHANGED <<nodes, compiled>>
    BY <1>4 DEF Compile, NoAnswer
  <2>2. e \in Seq(Token) /\ WellSpelled(e)
    BY PathAssumption
  <2>3. ReadTo(0)' /\ 0 \in 0 .. Len(said') /\ 0 \in 0 .. 0
    BY <2>1, <2>2 DEF ReadTo
  <2>4. \E f : Traces(<<>>, e, 0, 0, f)
    <3>1. PICK b : b = <<>>
      OBVIOUS
    <3>2. DOMAIN b = {}
      BY <3>1
    <3>3. PICK f : f = [k \in {} |-> 0]
      OBVIOUS
    <3>4. f \in [{} -> 0 .. 0 - 0] /\ 1 .. 0 = {} /\ 1 .. 0 - 0 = {}
      BY <3>3
    <3>5. Traces(b, e, 0, 0, f)
      BY <3>2, <3>4 DEF Traces
    <3> QED BY <3>1, <3>5
  <2>5. Compiling'
    BY <2>1, <2>2, <2>3, <2>4 DEF Compiling
  <2>6. nodes # <<>> => Due(AfterRoot(compiled))'
    <3>1. SUFFICES ASSUME nodes # <<>> PROVE Due(AfterRoot(compiled))'
      OBVIOUS
    <3>2. PICK f : Spells(s, f)
      BY <1>2, <3>1 DEF FoundInv, Due
    <3>3. Spells(s, f)'
      BY <2>1, <3>2, SpellsKept
    <3>4. AfterRoot(compiled') = s
      BY <1>2, <2>1
    <3> QED BY <2>1, <3>3, <3>4 DEF Due
  <2> QED BY <1>1, <2>1, <2>5, <2>6 DEF FoundInv
<1>5. CASE PathNew
  <2>1. call' = "none" /\ nodes' = <<>> /\ root' = NULL
    BY <1>5 DEF PathNew, NoAnswer
  <2> QED BY <1>1, <2>1 DEF FoundInv, Compiling
<1>6. ASSUME NEW n \in Node, Match(n) PROVE FoundInv'
  <2>1. call' = "match" /\ nodes # <<>> /\ UNCHANGED <<nodes, compiled>>
    BY <1>6 DEF Match
  <2>2. PICK f : Spells(s, f)
    BY <1>2, <2>1 DEF FoundInv, Due
  <2>3. Spells(s, f)'
    BY <2>1, <2>2, SpellsKept
  <2>4. Accounts(s, f)'
    BY <1>6, <2>1, <2>2, MatchAccounts DEF FoundInv
  <2>5. AfterRoot(compiled') = s
    BY <1>2, <2>1
  <2>6. Due(AfterRoot(compiled))'
    BY <2>3, <2>4, <2>5 DEF Due
  <2> QED BY <1>1, <2>1, <2>6 DEF FoundInv, Compiling
<1>7. CASE WalkStep
  <2>1. call = "match" /\ UNCHANGED <<nodes, root, compiled>>
    BY <1>7, WalkFixed
  <2>2. call' # "compile"
    BY <1>7, <2>1 DEF WalkStep, Deliver, WalkRoot, WalkMember, WalkElement, WalkDescent,
         WalkWildcard, WalkSet, WalkSlice, Return, Walk
  <2>3. nodes # <<>> => Due(AfterRoot(compiled))'
    <3>1. SUFFICES ASSUME nodes # <<>> PROVE Due(AfterRoot(compiled))'
      OBVIOUS
    <3>2. PICK f : Spells(s, f) /\ (root # NULL => Endless \/ Accounts(s, f))
      BY <1>2, <3>1 DEF FoundInv, Due
    <3>3. Spells(s, f)'
      BY <2>1, <3>2, SpellsKept
    <3>4. root # NULL => Endless' \/ Accounts(s, f)'
      BY <1>7, <3>2, StepAccounts DEF FoundInv
    <3>5. AfterRoot(compiled') = s
      BY <1>2, <2>1
    <3> QED BY <2>1, <3>3, <3>4, <3>5 DEF Due
  <2> QED BY <1>1, <2>1, <2>2, <2>3 DEF FoundInv, Compiling
<1>8. CASE UNCHANGED vars
  <2>1. UNCHANGED <<nodes, call, rest, building, said, root, todo, results, compiled>>
    BY <1>8 DEF vars, compiler, walker
  <2>2. Compiling' <=> Compiling
    BY <2>1 DEF Compiling, ReadTo
  <2>3. Due(AfterRoot(compiled))' <=> Due(AfterRoot(compiled))
    BY <2>1 DEF Due, Spells, Follows, Endless, Turning, Accounts, Yield, Looping, Past
  <2> QED BY <1>1, <2>1, <2>2, <2>3 DEF FoundInv
<1> QED BY <1>3, <1>4, <1>5, <1>6, <1>7, <1>8 DEF Next

(* In every tree, a match finds just the nodes that the expression selects *)
(* by their place, whatever way the walk takes to them, and the expression *)
(* is the one whose compilation succeeded last.                            *)
THEOREM SelectedFound ==
  ASSUME Treelike
  PROVE  Spec => []Found
<1>1. Init => FoundInv
  <2> SUFFICES ASSUME Init PROVE FoundInv
    OBVIOUS
  <2>1. call = "none" /\ root = NULL /\ nodes = <<>>
    BY DEF Init
  <2> QED BY <2>1, InitTyped DEF FoundInv, Compiling
<1>2. FoundInv /\ [Next]_vars => FoundInv'
  BY StepFound
<1>3. FoundInv => Found
  <2> SUFFICES ASSUME FoundInv, Answered
               PROVE  Range(results) = Selected(compiled, root)
    BY DEF Found
  <2>1. call = "none" /\ root # NULL /\ root \in Node /\ todo = <<>>
    BY DEF Answered, FoundInv, Typed, TypeOK
  <2>2. PICK s : s = AfterRoot(compiled)
    OBVIOUS
  <2>3. PICK f : Spells(s, f) /\ (Endless \/ Accounts(s, f))
    BY <2>1, <2>2 DEF FoundInv, Due
  <2>4. ~ Endless
    BY <2>1 DEF Endless
  <2>5. \A y : y \in Range(results) <=> y \in Gives(s, 1, root)
    BY <2>1, <2>3, <2>4 DEF Accounts
  <2>6. Selected(compiled, root) = Gives(s, 1, root)
    BY <2>1, <2>2, <2>3, SelectedGiven DEF Spells
  <2> QED BY <2>5, <2>6
<1> QED BY <1>1, <1>2, <1>3, PTL DEF Spec
=============================================================================
