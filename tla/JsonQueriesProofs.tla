-------------------------- MODULE JsonQueriesProofs --------------------------
(***************************************************************************)
(* What asks of a tree without changing it.                                *)
(*                                                                         *)
(* The cursor of a JsonReader keeps to the trail, for every tree in which  *)
(* each node records its parent.  previous_node alone does not tell how to *)
(* go back more than one level.  The invariant adds where the levels above *)
(* are: the trail goes down the tree, so by Linked each step's parent is   *)
(* the step before it.                                                     *)
(*                                                                         *)
(* Equality and hashes agree, and the hash an immutable container keeps is *)
(* fresh, for any containers that hold one another without a cycle.  What  *)
(* a container's hash, tree or equals are is a recursion over what it      *)
(* holds: a table, of which TLA+ says that it solves its equation if any   *)
(* table does.  One does, since containers hold only ones of a higher      *)
(* number, and what holds of every container above those it holds for      *)
(* below holds of all.                                                     *)
(***************************************************************************)
EXTENDS JsonReader, JsonCompare, FiniteSetTheorems, WellFoundedInduction, TLAPS


Inv == TypeOK /\ CursorOnTrail /\ WayBack

-----------------------------------------------------------------------------

LEMMA ElementType ==
  ASSUME NEW R, NEW s \in Seq(R), NEW i \in DOMAIN s
  PROVE  s[i] \in R
OBVIOUS

LEMMA Emptiness ==
  ASSUME NEW S, NEW t \in Seq(S)
  PROVE  Len(t) \in Nat /\ (t = <<>> <=> Len(t) = 0)
OBVIOUS

LEMMA Small ==
  ASSUME NEW n \in Nat
  PROVE  /\ n = 0 \/ n = 1 \/ n > 1
         /\ n <= 1 => n = 0 \/ n = 1
<1>1. n = 0 \/ n = 1 \/ n > 1
  OBVIOUS
<1>2. n <= 1 => n = 0 \/ n = 1
  OBVIOUS
<1> QED BY <1>1, <1>2

LEMMA EmptyIsSeq ==
  ASSUME NEW S PROVE <<>> \in Seq(S)
OBVIOUS

(* A node's children are nodes, and know it. *)
LEMMA KidFacts ==
  ASSUME Linked, NEW n \in Node, NEW i \in DOMAIN Kids[n]
  PROVE  /\ Kids[n][i].node \in Node
         /\ Kids[n][i].name \in Name \cup {NULL}
         /\ Parent[Kids[n][i].node] = n
<1>1. PICK R : R = [name : Name \cup {NULL}, node : Node]
  OBVIOUS
<1>2. Kids[n] \in Seq(R)
  BY <1>1, ReaderAssumption
<1>3. Kids[n][i] \in R
  BY <1>2, ElementType
<1> QED BY <1>1, <1>3 DEF Linked

(* Where a read starts from: on the last step of a trail. *)
LEMMA HereFacts ==
  ASSUME Inv, Here # NULL
  PROVE  /\ source \in Node
         /\ TrailHere \in Seq(Step) /\ TrailHere # <<>>
         /\ Here \in Node \cup {Copy}
         /\ Original(Here) \in Node
         /\ Original(Here) = Last(TrailHere).node
         /\ TrailHere[1].node = source
         /\ Len(TrailHere) > 1 => Here # Copy
         /\ Descends(TrailHere)
<1>1. CASE current = NULL
  <2>1. source \in Node /\ Here = Copy /\ TrailHere = <<RootStep(source)>>
    BY <1>1 DEF Inv, TypeOK, Here, Root, TrailHere
  <2>2. RootStep(source) \in Step /\ RootStep(source).node = source
    BY <2>1, ReaderAssumption DEF RootStep, Step, Inv, TypeOK
  <2> QED BY <2>1, <2>2, ReaderAssumption DEF Original, Last, Descends
<1>2. CASE current # NULL
  <2>1. Here = current /\ TrailHere = trail
    BY <1>2 DEF Here, TrailHere
  <2>2. trail # <<>> /\ Original(current) = Last(trail).node
    BY <1>2 DEF Inv, CursorOnTrail
  <2>3. source \in Node /\ trail[1].node = source
    BY <2>2 DEF Inv, WayBack, TypeOK
  <2>4. current \in Node \cup {Copy}
    BY <1>2 DEF Inv, TypeOK
  <2>5. Original(current) \in Node
    BY <2>3, <2>4 DEF Original
  <2>6. Descends(trail)
    BY DEF Inv, WayBack
  <2> QED BY <2>1, <2>2, <2>3, <2>4, <2>5, <2>6 DEF Inv, TypeOK, WayBack
<1> QED BY <1>1, <1>2

(* A trail with one step more, and with one less. *)
LEMMA PushFacts ==
  ASSUME NEW t \in Seq(Step), NEW s \in Step
  PROVE  /\ Append(t, s) \in Seq(Step)
         /\ Append(t, s) # <<>>
         /\ Len(Append(t, s)) = Len(t) + 1
         /\ Last(Append(t, s)) = s
         /\ \A i \in 1 .. Len(t) : Append(t, s)[i] = t[i]
         /\ Append(t, s)[Len(t) + 1] = s
BY DEF Last

LEMMA PopFacts ==
  ASSUME NEW S, NEW t \in Seq(S), t # <<>>
  PROVE  /\ Front(t) \in Seq(S)
         /\ Len(t) = Len(Front(t)) + 1
         /\ \A i \in 1 .. Len(Front(t)) : Front(t)[i] = t[i]
         /\ Front(t) # <<>> => Last(Front(t)) = t[Len(Front(t))]
         /\ Last(t) = t[Len(t)]
<1>1. PICK m \in Nat : Len(t) = m + 1
  OBVIOUS
<1>2. Front(t) = SubSeq(t, 1, m)
  BY <1>1 DEF Front
<1>3. /\ SubSeq(t, 1, m) \in Seq(S)
      /\ Len(SubSeq(t, 1, m)) = m
      /\ \A i \in 1 .. m : SubSeq(t, 1, m)[i] = t[i]
  BY <1>1
<1>4. PICK f \in Seq(S) : f = Front(t)
  BY <1>2, <1>3
<1>5. Len(f) = m /\ \A i \in 1 .. m : f[i] = t[i]
  BY <1>2, <1>3, <1>4
<1>6. f # <<>> => Last(f) = t[m]
  BY <1>5 DEF Last
<1> QED BY <1>1, <1>4, <1>5, <1>6 DEF Last

LEMMA PushThenPop ==
  ASSUME NEW t \in Seq(Step), NEW s \in Step
  PROVE  Front(Append(t, s)) = t
BY DEF Front

-----------------------------------------------------------------------------

(* A step to nowhere, and one to the root. *)
LEMMA ToNowhere ==
  ASSUME trail' = <<>>, current' = NULL, previous' = NULL
  PROVE  CursorOnTrail' /\ WayBack'
<1>1. Len(trail') = 0 /\ Descends(trail')
  BY DEF Descends
<1> QED BY <1>1 DEF CursorOnTrail, WayBack

LEMMA ToRoot ==
  ASSUME NEW s \in Step, trail' = <<s>>, source' \in Node, s.node = source',
         current' = Copy, previous' = NULL
  PROVE  CursorOnTrail' /\ WayBack'
<1>1. Len(trail') = 1 /\ trail' # <<>> /\ trail'[1] = s /\ Last(trail') = s
  BY DEF Last
<1>2. Descends(trail')
  BY DEF Descends
<1>3. CursorOnTrail'
  BY <1>1, ReaderAssumption DEF CursorOnTrail, Original
<1>4. WayBack'
  BY <1>1, <1>2, ReaderAssumption DEF WayBack
<1> QED BY <1>3, <1>4

LEMMA SetRootKeeps ==
  ASSUME Inv, NEW r \in Node \cup {NULL}, SetRoot(r)
  PROVE  Inv'
<1>1. CASE r = NULL
  <2>1. source' = NULL /\ current' = NULL /\ previous' = NULL /\ trail' = <<>>
        /\ members' = members /\ error' = error
    BY <1>1 DEF SetRoot
  <2>2. CursorOnTrail' /\ WayBack'
    BY <2>1, ToNowhere
  <2>3. TypeOK'
    BY <2>1 DEF Inv, TypeOK
  <2> QED BY <2>2, <2>3 DEF Inv
<1>2. CASE r # NULL
  <2>1. PICK s \in Step : s = RootStep(r) /\ s.node = r
    <3>1. RootStep(r) \in Step /\ RootStep(r).node = r
      BY <1>2 DEF RootStep, Step, Inv, TypeOK
    <3> QED BY <3>1
  <2>2. source' = r /\ r \in Node /\ current' = Copy /\ previous' = NULL
        /\ trail' = <<s>> /\ members' = members /\ error' = error
    BY <1>2, <2>1 DEF SetRoot
  <2>3. CursorOnTrail' /\ WayBack'
    BY <2>1, <2>2, ToRoot
  <2>4. <<s>> \in Seq(Step)
    OBVIOUS
  <2>5. TypeOK'
    BY <2>2, <2>4 DEF Inv, TypeOK
  <2> QED BY <2>3, <2>5 DEF Inv
<1> QED BY <1>1, <1>2

LEMMA EnterKeeps ==
  ASSUME Linked, Inv, Here # NULL,
         NEW i \in DOMAIN KidsOf(Here), Enter(KidsOf(Here)[i])
  PROVE  Inv'
<1>1. PICK n \in Node : n = Original(Here)
  BY HereFacts
<1>2. PICK kid : kid = Kids[n][i] /\ i \in DOMAIN Kids[n]
  BY <1>1 DEF KidsOf
<1>3. kid.node \in Node /\ kid.name \in Name \cup {NULL} /\ Parent[kid.node] = n
  BY <1>2, KidFacts
<1>4. Enter(kid)
  BY <1>1, <1>2 DEF KidsOf
<1>5. members' \in Seq(Name)
  BY <1>3, <1>4 DEF Enter, Inv, TypeOK
<1>6. PICK s : s = [node |-> kid.node,
                    name |-> IF kid.name = NULL THEN Last(TrailHere).name ELSE kid.name,
                    mark |-> Len(members')]
  OBVIOUS
<1>7. Last(TrailHere) \in Step
  BY HereFacts DEF Last
<1>8. s \in Step /\ s.node = kid.node
  BY <1>3, <1>5, <1>6, <1>7 DEF Step
<1>9. trail' = Append(TrailHere, s) /\ previous' = Here /\ current' = kid.node
      /\ source' = source /\ error' = error
  BY <1>4, <1>6 DEF Enter
<1>10. PICK t \in Seq(Step) : t = TrailHere
  BY HereFacts
<1>11. /\ trail' \in Seq(Step) /\ trail' # <<>>
       /\ Len(trail') = Len(t) + 1 /\ Len(t) >= 1
       /\ Last(trail') = s
       /\ \A j \in 1 .. Len(t) : trail'[j] = t[j]
       /\ trail'[Len(t) + 1] = s
  BY <1>8, <1>9, <1>10, PushFacts, HereFacts
<1>12. TypeOK'
  BY <1>3, <1>5, <1>9, <1>11, HereFacts DEF TypeOK, Inv
<1>13. CursorOnTrail'
  BY <1>3, <1>8, <1>9, <1>11, ReaderAssumption DEF CursorOnTrail, Original
<1>14. Descends(trail')
  <2>1. t[Len(t)].node = n
    BY <1>1, <1>10, HereFacts DEF Last
  <2> SUFFICES ASSUME NEW i1 \in DOMAIN trail', NEW j1 \in DOMAIN trail', j1 = i1 + 1
               PROVE  \E k \in DOMAIN Kids[trail'[i1].node] :
                        Kids[trail'[i1].node][k].node = trail'[j1].node
    BY DEF Descends
  <2>2. i1 \in 1 .. Len(t) /\ trail'[i1] = t[i1]
    BY <1>11
  <2>3. CASE i1 = Len(t)
    BY <1>2, <1>8, <1>11, <2>1, <2>2, <2>3
  <2>4. CASE i1 # Len(t)
    <3>1. j1 \in 1 .. Len(t) /\ trail'[j1] = t[j1]
      BY <1>11, <2>2, <2>4
    <3> QED BY <1>10, <2>2, <3>1, HereFacts, SMTT(30) DEF Descends
  <2> QED BY <2>3, <2>4
<1>15. WayBack'
  <2>1. trail'[1].node = source' /\ source' # NULL
    BY <1>9, <1>10, <1>11, HereFacts, ReaderAssumption
  <2>2. Len(trail') > 1
    BY <1>10, <1>11
  <2>3. current' # Copy /\ previous' # NULL
    BY <1>3, <1>9, ReaderAssumption
  <2>4. Original(previous)' = Last(Front(trail')).node
    BY <1>8, <1>9, <1>10, HereFacts, PushThenPop DEF Original
  <2>5. Len(trail') > 2 => previous' # Copy
    BY <1>9, <1>10, <1>11, HereFacts
  <2> QED BY <1>11, <1>14, <2>1, <2>2, <2>3, <2>4, <2>5 DEF WayBack
<1> QED BY <1>12, <1>13, <1>15 DEF Inv

LEMMA FailHereKeeps ==
  ASSUME Inv, NEW e \in Errors, FailHere(e)
  PROVE  Inv'
<1>1. CASE Here = NULL
  <2>1. current' = current /\ trail' = trail /\ source' = source /\ previous' = previous
        /\ members' = members /\ error' = e
    BY <1>1, ReaderAssumption DEF FailHere, Here, TrailHere, Root, Inv, TypeOK
  <2> QED BY <2>1 DEF Inv, TypeOK, CursorOnTrail, WayBack, Original
<1>2. CASE Here # NULL
  <2>1. CASE current = NULL
    <3>1. trail = <<>>
      BY <2>1 DEF Inv, CursorOnTrail
    <3>2. source \in Node /\ Here = Copy /\ TrailHere = <<RootStep(source)>> /\ previous = NULL
      BY <1>2, <2>1, <3>1 DEF Inv, TypeOK, WayBack, Here, Root, TrailHere
    <3>3. PICK s \in Step : s = RootStep(source) /\ s.node = source
      BY <3>2 DEF RootStep, Step, Inv, TypeOK
    <3>4. /\ current' = Copy /\ trail' = <<s>> /\ source' = source
          /\ previous' = NULL /\ members' = members /\ error' = e
      BY <3>2, <3>3 DEF FailHere
    <3>5. CursorOnTrail' /\ WayBack'
      BY <3>2, <3>3, <3>4, ToRoot
    <3>6. <<s>> \in Seq(Step)
      OBVIOUS
    <3>7. TypeOK'
      BY <3>4, <3>6 DEF Inv, TypeOK
    <3> QED BY <3>5, <3>7 DEF Inv
  <2>2. CASE current # NULL
    <3>1. current' = current /\ trail' = trail /\ source' = source /\ previous' = previous
          /\ members' = members /\ error' = e
      BY <2>2 DEF FailHere, Here, TrailHere
    <3> QED BY <3>1 DEF Inv, TypeOK, CursorOnTrail, WayBack, Original
  <2> QED BY <2>1, <2>2
<1> QED BY <1>1, <1>2

LEMMA LeaveKeeps ==
  ASSUME Linked, Inv, MayEnd, NEW p \in Seq(Name), Leave(p)
  PROVE  Inv'
<1>1. /\ current' = previous /\ previous' = ParentOf(previous)
      /\ trail' = (IF trail = <<>> THEN trail ELSE Front(trail))
      /\ source' = source /\ error' = error /\ members' = p
  BY DEF Leave
<1>2. trail \in Seq(Step) /\ Len(trail) \in Nat
  BY DEF Inv, TypeOK
<1>5. trail = <<>> <=> Len(trail) = 0
  BY <1>2, Emptiness
<1>3. CASE Len(trail) <= 1
  <2>1. previous = NULL
    <3>1. CASE trail = <<>>
      BY <3>1 DEF Inv, WayBack
    <3>2. CASE Len(trail) = 1
      <4>1. source \in Node /\ (previous = NULL \/ previous = Parent[source])
        <5>1. trail # <<>>
          BY <1>5, <3>2
        <5> QED BY <3>2, <5>1 DEF Inv, WayBack, TypeOK
      <4>2. Parent[source] = NULL
        BY <3>2, <4>1, ReaderAssumption DEF MayEnd, ParentOf
      <4> QED BY <4>1, <4>2
    <3>3. trail = <<>> \/ Len(trail) = 1
      BY <1>2, <1>3, <1>5, Small
    <3> QED BY <3>1, <3>2, <3>3
  <2>2. trail' = <<>>
    BY <1>1, <1>2, <1>3, PopFacts
  <2>3. current' = NULL /\ previous' = NULL
    BY <1>1, <2>1 DEF ParentOf
  <2>4. CursorOnTrail' /\ WayBack'
    BY <2>2, <2>3, ToNowhere
  <2>5. TypeOK'
    BY <1>1, <2>2, <2>3, EmptyIsSeq DEF Inv, TypeOK
  <2> QED BY <2>4, <2>5 DEF Inv
<1>4. CASE Len(trail) > 1
  <2>1. PICK u \in Seq(Step) : u = Front(trail)
    BY <1>2, <1>4, PopFacts
  <2>2. /\ trail' = u /\ Len(trail) = Len(u) + 1 /\ Len(u) \in Nat /\ u # <<>>
        /\ \A i \in 1 .. Len(u) : u[i] = trail[i]
    BY <1>1, <1>2, <1>4, <2>1, PopFacts
  <2>3. source \in Node /\ u[1].node = source
    BY <1>2, <1>4, <2>2 DEF Inv, WayBack, TypeOK
  <2>4. previous \in Node \cup {Copy} /\ Original(previous) = Last(u).node
    BY <1>4, <2>1 DEF Inv, WayBack, TypeOK
  <2>5. previous' \in Node \cup {NULL}
    BY <1>1, <2>4, ReaderAssumption DEF ParentOf
  <2>6. TypeOK'
    BY <1>1, <2>2, <2>4, <2>5 DEF Inv, TypeOK
  <2>7. CursorOnTrail'
    BY <1>1, <2>2, <2>4, ReaderAssumption DEF CursorOnTrail, Original
  <2>8. Descends(u)
    <3> SUFFICES ASSUME NEW i \in DOMAIN u, NEW j \in DOMAIN u, j = i + 1
                 PROVE  \E k \in DOMAIN Kids[u[i].node] : Kids[u[i].node][k].node = u[j].node
      BY DEF Descends
    <3>1. i \in DOMAIN trail /\ j \in DOMAIN trail /\ u[i] = trail[i] /\ u[j] = trail[j]
      BY <1>2, <2>2
    <3>2. Descends(trail)
      BY DEF Inv, WayBack
    <3> QED BY <3>1, <3>2 DEF Descends
  <2>9. CASE Len(u) = 1
    <3>1. Original(previous) = source
      BY <2>3, <2>4, <2>9 DEF Last
    <3>2. previous' = NULL \/ previous' = Parent[source]
      BY <1>1, <2>4, <3>1 DEF ParentOf, Original
    <3>3. WayBack'
      <4>1. trail' = u /\ source' = source /\ source # NULL
        BY <1>1, <2>2, <2>3, ReaderAssumption
      <4>2. ~ (Len(u) > 1) /\ ~ (Len(u) > 2)
        BY <2>9
      <4> QED BY <2>2, <2>3, <2>8, <2>9, <3>2, <4>1, <4>2 DEF WayBack
    <3> QED BY <2>6, <2>7, <3>3 DEF Inv
  <2>10. CASE Len(u) > 1
    <3>1. previous # Copy /\ previous \in Node
      BY <1>2, <2>2, <2>4, <2>10 DEF Inv, WayBack
    <3>2. PICK w \in Seq(Step) : w = Front(u)
      BY <2>2, PopFacts
    <3>3. /\ Len(u) = Len(w) + 1 /\ Len(w) \in Nat /\ w # <<>>
          /\ Last(w) = u[Len(w)] /\ Last(u) = u[Len(u)]
      BY <2>2, <2>10, <3>2, PopFacts
    <3>4. Len(w) \in DOMAIN u /\ Len(u) \in DOMAIN u
      BY <2>2, <3>3
    <3>5. Last(w).node \in Node
      <4>1. u[Len(w)] \in Step
        BY <3>4, ElementType
      <4> QED BY <3>3, <4>1 DEF Step
    <3>6. \E k \in DOMAIN Kids[Last(w).node] : Kids[Last(w).node][k].node = Last(u).node
      <4>1. Len(u) = Len(w) + 1
        BY <3>3
      <4>2. \E k \in DOMAIN Kids[u[Len(w)].node] :
              Kids[u[Len(w)].node][k].node = u[Len(u)].node
        BY <2>8, <3>4, <4>1 DEF Descends
      <4> QED BY <3>3, <4>2
    <3>7. previous = Last(u).node
      BY <2>4, <3>1, ReaderAssumption DEF Original
    <3>8. previous' = Last(w).node
      <4>1. PICK k \in DOMAIN Kids[Last(w).node] :
                 Kids[Last(w).node][k].node = Last(u).node
        BY <3>6
      <4>2. Parent[Last(u).node] = Last(w).node
        BY <3>5, <4>1, KidFacts
      <4>3. previous' = Parent[previous]
        BY <1>1, <3>1, ReaderAssumption DEF ParentOf
      <4> QED BY <3>7, <4>2, <4>3
    <3>9. Original(previous)' = Last(Front(u)).node /\ previous' # NULL /\ previous' # Copy
      BY <3>2, <3>5, <3>8, ReaderAssumption DEF Original
    <3>10. current' # Copy
      BY <1>1, <3>1, ReaderAssumption
    <3>11. WayBack'
      <4>1. trail' = u /\ source' = source /\ source # NULL
        BY <1>1, <2>2, <2>3, ReaderAssumption
      <4>2. u # <<>> /\ u[1].node = source /\ Len(u) # 1
        BY <2>2, <2>3, <2>10
      <4>3. Descends(trail)'
        BY <2>8, <4>1, SMTT(30) DEF Descends
      <4>4. Original(previous)' = Last(Front(trail')).node
        BY <3>9, <4>1
      <4> QED BY <3>9, <3>10, <4>1, <4>2, <4>3, <4>4 DEF WayBack
    <3> QED BY <2>6, <2>7, <3>11 DEF Inv
  <2>11. Len(u) # 0
    BY <2>2, Emptiness
  <2>12. Len(u) = 1 \/ Len(u) > 1
    BY <2>2, <2>11, Small
  <2> QED BY <2>9, <2>10, <2>12
<1> QED BY <1>2, <1>3, <1>4

(* What only sets or clears the error disturbs nothing. *)
LEMMA ErrorKeeps ==
  ASSUME Inv, NEW e \in Errors \cup {NULL}, error' = e,
         source' = source, current' = current, previous' = previous,
         members' = members, trail' = trail
  PROVE  Inv'
BY DEF Inv, TypeOK, CursorOnTrail, WayBack, Original

LEMMA NextKeeps ==
  ASSUME Linked, Inv, [Next]_vars
  PROVE  Inv'
<1>1. ASSUME NEW r \in Node \cup {NULL}, SetRoot(r) PROVE Inv'
  BY <1>1, SetRootKeeps
<1>2. ASSUME NEW i \in 1 .. 1 + Cardinality(Node), ReadElement(i) PROVE Inv'
  <2>1. CASE KindOf(Here) \notin Containers
    BY <1>2, <2>1, FailHereKeeps DEF ReadElement, Errors
  <2>2. CASE KindOf(Here) \in Containers /\ i \notin DOMAIN KidsOf(Here)
    BY <1>2, <2>2, FailHereKeeps DEF ReadElement, Errors
  <2>3. CASE KindOf(Here) \in Containers /\ i \in DOMAIN KidsOf(Here)
    <3>1. Here # NULL
      BY <2>3 DEF KindOf, Containers
    <3> QED BY <1>2, <2>3, <3>1, EnterKeeps DEF ReadElement
  <2> QED BY <2>1, <2>2, <2>3
<1>3. ASSUME NEW n \in Name, ReadMember(n) PROVE Inv'
  <2>1. CASE KindOf(Here) # "object"
    BY <1>3, <2>1, FailHereKeeps DEF ReadMember, Errors
  <2>2. CASE KindOf(Here) = "object" /\ \A i \in DOMAIN KidsOf(Here) : KidsOf(Here)[i].name # n
    BY <1>3, <2>2, FailHereKeeps DEF ReadMember, Errors
  <2>3. CASE KindOf(Here) = "object" /\ ~ \A i \in DOMAIN KidsOf(Here) : KidsOf(Here)[i].name # n
    <3>1. Here # NULL
      BY <2>3 DEF KindOf
    <3>2. PICK i \in DOMAIN KidsOf(Here) : Enter(KidsOf(Here)[i])
      BY <1>3, <2>3 DEF ReadMember
    <3> QED BY <3>1, <3>2, EnterKeeps
  <2> QED BY <2>1, <2>2, <2>3
<1>4. Popped \in Seq(Name) /\ members \in Seq(Name)
  <2>1. members \in Seq(Name)
    BY DEF Inv, TypeOK
  <2>2. members # <<>> => Front(members) \in Seq(Name)
    BY <2>1 DEF Front
  <2> QED BY <2>1, <2>2 DEF Popped
<1>5. ASSUME ClearError PROVE Inv'
  BY <1>5, ErrorKeeps DEF ClearError
<1>6. CASE EndElement
  BY <1>4, <1>5, <1>6, LeaveKeeps DEF EndElement
<1>7. CASE EndMember
  BY <1>4, <1>5, <1>7, LeaveKeeps DEF EndMember
<1>8. ASSUME NEW e \in Errors, Fail(e) PROVE Inv'
  BY <1>8, ErrorKeeps DEF Fail
<1>9. CASE CountElements \/ ListMembers \/ GetMemberName
  BY <1>8, <1>9 DEF CountElements, ListMembers, GetMemberName, Errors
<1>10. ASSUME NEW kinds, GetWanting(kinds) PROVE Inv'
  BY <1>8, <1>10 DEF GetWanting, Errors
<1>11. CASE GetValue \/ GetIntValue \/ GetStringValue
  BY <1>8, <1>10, <1>11 DEF GetValue, GetIntValue, GetStringValue, Errors
<1>12. CASE UNCHANGED vars
  BY <1>12 DEF vars, Inv, TypeOK, CursorOnTrail, WayBack, Original
<1> QED BY <1>1, <1>2, <1>3, <1>6, <1>7, <1>9, <1>11, <1>12 DEF Next

LEMMA InitHolds == Init => Inv
<1> SUFFICES ASSUME Init PROVE Inv
  OBVIOUS
<1>1. trail = <<>> /\ Len(trail) = 0 /\ Descends(trail) /\ current = NULL /\ previous = NULL
  BY DEF Init, Descends
<1>3. CursorOnTrail /\ WayBack
  BY <1>1 DEF CursorOnTrail, WayBack
<1>2. TypeOK
  BY DEF Init, TypeOK
<1> QED BY <1>2, <1>3 DEF Inv

(* The way back, for every tree a parser has linked: what the end functions *)
(* of json-reader.c:584-607 and 752-774 rely on.                            *)
THEOREM WayBackKept ==
  ASSUME Linked PROVE Spec => []Inv
<1>1. Inv /\ [Next]_vars => Inv'
  BY NextKeeps
<1> QED BY <1>1, InitHolds, PTL DEF Spec

(* Every variable of the reader keeps its type. *)
THEOREM ReaderTypes ==
  ASSUME Linked PROVE Spec => []TypeOK
<1>1. Inv => TypeOK
  BY DEF Inv
<1> QED BY <1>1, WayBackKept, PTL

(* Going back takes the cursor to the container it was in, at every depth  *)
(* and for trees of any size.                                              *)
THEOREM CursorKept ==
  ASSUME Linked PROVE Spec => []CursorOnTrail
<1>1. Inv => CursorOnTrail
  BY DEF Inv
<1> QED BY <1>1, WayBackKept, PTL

-----------------------------------------------------------------------------
(* Member names. *)

LEMMA MarkedNowhere ==
  ASSUME NEW m \in Seq(Name)
  PROVE  Marked(<<>>, m)
BY DEF Marked, Stepped, Named, Sorted

LEMMA MarkedRoot ==
  ASSUME NEW m \in Seq(Name), NEW s \in Step, s.name = NULL, s.mark = Len(m)
  PROVE  Marked(<<s>>, m)
<1>1. Last(<<s>>) = s /\ DOMAIN <<s>> = {1} /\ <<s>>[1] = s
  BY DEF Last
<1>2. s.mark \in Nat
  BY DEF Step
<1> QED BY <1>1, <1>2 DEF Marked, Stepped, Named, Sorted

(* A step down, from an array and from an object. *)
LEMMA MarkedPush ==
  ASSUME NEW t \in Seq(Step), t # <<>>, NEW m \in Seq(Name), Marked(t, m),
         NEW s \in Step, NEW m2 \in Seq(Name),
         \A i \in DOMAIN m : i \in DOMAIN m2 /\ m2[i] = m[i],
         s.mark = Len(m2),
         s.mark = Len(m) + (IF Kind[Last(t).node] = "object" THEN 1 ELSE 0),
         s.name # NULL => s.mark \in DOMAIN m2 /\ m2[s.mark] = s.name
  PROVE  Marked(Append(t, s), m2)
<1>1. PICK u \in Seq(Step) : u = Append(t, s)
  BY PushFacts
<1>2. /\ u # <<>> /\ Last(u) = s
      /\ \A i \in DOMAIN t : i \in DOMAIN u /\ u[i] = t[i]
  BY <1>1, PushFacts
<1>3. PICK n \in Nat : n = Len(t)
  OBVIOUS
<1>4. DOMAIN t = 1 .. n /\ DOMAIN u = 1 .. n + 1 /\ u[n + 1] = s /\ n \in DOMAIN t
  BY <1>1, <1>3, PushFacts, Emptiness
<1>5. Last(t) = t[n] /\ t[n].mark = Len(m)
  BY <1>3 DEF Last, Marked
<1>6. \A i \in DOMAIN u : u[i].mark \in Nat
  <2> SUFFICES ASSUME NEW i \in DOMAIN u PROVE u[i].mark \in Nat
    OBVIOUS
  <2>1. u[i] \in Step
    BY ElementType
  <2> QED BY <2>1 DEF Step
<1>7. Stepped(u)
  <2> SUFFICES ASSUME NEW i \in DOMAIN u, NEW j \in DOMAIN u, j = i + 1
               PROVE  u[j].mark = u[i].mark + (IF Kind[u[i].node] = "object" THEN 1 ELSE 0)
    BY DEF Stepped
  <2>1. CASE j = n + 1
    <3>1. i = n
      BY <1>3, <1>4, <2>1
    <3> QED BY <1>2, <1>4, <1>5, <2>1, <3>1
  <2>2. CASE j # n + 1
    <3>1. i \in DOMAIN t /\ j \in DOMAIN t
      BY <1>3, <1>4, <2>2
    <3> QED BY <1>2, <3>1 DEF Marked, Stepped
  <2> QED BY <2>1, <2>2
<1>8. Named(u, m2)
  <2> SUFFICES ASSUME NEW i \in DOMAIN u, u[i].name # NULL
               PROVE  u[i].mark \in DOMAIN m2 /\ m2[u[i].mark] = u[i].name
    BY DEF Named
  <2>1. CASE i = n + 1
    BY <1>4, <2>1
  <2>2. CASE i # n + 1
    <3>1. i \in DOMAIN t
      BY <1>3, <1>4, <2>2
    <3> QED BY <1>2, <3>1 DEF Marked, Named
  <2> QED BY <2>1, <2>2
<1>9. Sorted(u)
  <2>1. Len(m) \in Nat /\ Len(m) <= s.mark
    <3>1. Len(m) \in Nat
      OBVIOUS
    <3> QED BY <3>1
  <2> SUFFICES ASSUME NEW i \in DOMAIN u, NEW j \in DOMAIN u, i <= j
               PROVE  u[i].mark <= u[j].mark
    BY DEF Sorted
  <2>2. CASE i = n + 1
    <3>1. j = n + 1
      BY <1>3, <1>4, <2>2
    <3> QED BY <1>6, <2>2, <3>1
  <2>3. CASE i # n + 1 /\ j = n + 1
    <3>1. i \in DOMAIN t /\ i <= n
      BY <1>3, <1>4, <2>3
    <3>2. t[i].mark <= t[n].mark
      BY <1>4, <3>1 DEF Marked, Sorted
    <3>3. u[i].mark <= Len(m) /\ u[j].mark = s.mark
      BY <1>2, <1>4, <1>5, <2>3, <3>1, <3>2
    <3>4. u[i].mark \in Nat /\ u[j].mark \in Nat
      BY <1>6
    <3> QED BY <2>1, <3>3, <3>4
  <2>4. CASE i # n + 1 /\ j # n + 1
    <3>1. i \in DOMAIN t /\ j \in DOMAIN t
      BY <1>3, <1>4, <2>4
    <3> QED BY <1>2, <3>1 DEF Marked, Sorted
  <2> QED BY <2>2, <2>3, <2>4
<1> QED BY <1>1, <1>2, <1>7, <1>8, <1>9 DEF Marked

(* A step up drops the name it came down with. *)
LEMMA MarkedPop ==
  ASSUME NEW t \in Seq(Step), t # <<>>, NEW u \in Seq(Step), u = Front(t), u # <<>>,
         NEW m \in Seq(Name), Marked(t, m),
         NEW m2 \in Seq(Name),
         Len(m) = Len(m2) + (IF Kind[Last(u).node] = "object" THEN 1 ELSE 0),
         \A i \in 1 .. Len(m2) : m2[i] = m[i]
  PROVE  Marked(u, m2)
<1>1. PICK n \in Nat : n = Len(u)
  OBVIOUS
<1>2. /\ DOMAIN u = 1 .. n /\ DOMAIN t = 1 .. n + 1 /\ n \in DOMAIN u
      /\ \A i \in DOMAIN u : i \in DOMAIN t /\ u[i] = t[i]
      /\ Last(u) = u[n] /\ Last(t) = t[n + 1]
  BY <1>1, PopFacts, Emptiness
<1>3. t[n + 1].mark = Len(m)
  BY <1>2 DEF Marked
<1>4. \A i \in DOMAIN u : u[i].mark \in Nat
  <2> SUFFICES ASSUME NEW i \in DOMAIN u PROVE u[i].mark \in Nat
    OBVIOUS
  <2>1. u[i] \in Step
    BY ElementType
  <2> QED BY <2>1 DEF Step
<1>5. Len(m) \in Nat /\ Len(m2) \in Nat /\ DOMAIN m2 = 1 .. Len(m2) /\ DOMAIN m = 1 .. Len(m)
  OBVIOUS
<1>6. t[n + 1].mark = t[n].mark + (IF Kind[t[n].node] = "object" THEN 1 ELSE 0)
  <2>1. n \in DOMAIN t /\ n + 1 \in DOMAIN t
    BY <1>1, <1>2
  <2>2. Stepped(t)
    BY DEF Marked
  <2> QED BY <2>1, <2>2 DEF Stepped
<1>7. Last(u).mark = Len(m2)
  BY <1>2, <1>3, <1>4, <1>5, <1>6
<1>8. Stepped(u) /\ Sorted(u)
  BY <1>2 DEF Marked, Stepped, Sorted
<1>9. Named(u, m2)
  <2> SUFFICES ASSUME NEW i \in DOMAIN u, u[i].name # NULL
               PROVE  u[i].mark \in DOMAIN m2 /\ m2[u[i].mark] = u[i].name
    BY DEF Named
  <2>1. u[i].mark \in DOMAIN m /\ m[u[i].mark] = u[i].name
    BY <1>2 DEF Marked, Named
  <2>2. u[i].mark <= u[n].mark
    <3>1. i <= n
      BY <1>1, <1>2
    <3> QED BY <1>2, <1>8, <3>1 DEF Sorted
  <2>3. u[i].mark \in 1 .. Len(m2)
    BY <1>2, <1>4, <1>5, <1>7, <2>1, <2>2
  <2> QED BY <1>5, <2>1, <2>3
<1> QED BY <1>7, <1>8, <1>9 DEF Marked

-----------------------------------------------------------------------------

NameInv == Inv /\ Marks

(* The start of a read, again. *)
LEMMA HereMarked ==
  ASSUME NameInv, Here # NULL
  PROVE  Marked(TrailHere, members)
<1>1. CASE current = NULL
  <2>1. source \in Node /\ TrailHere = <<RootStep(source)>>
    BY <1>1 DEF NameInv, Inv, TypeOK, Here, Root, TrailHere
  <2>2. PICK s \in Step : s = RootStep(source) /\ s.name = NULL /\ s.mark = Len(members)
    <3>1. RootStep(source) \in Step
      BY <2>1 DEF RootStep, Step, NameInv, Inv, TypeOK
    <3> QED BY <3>1 DEF RootStep
  <2> QED BY <2>1, <2>2, MarkedRoot DEF NameInv, Inv, TypeOK
<1>2. CASE current # NULL
  BY <1>2 DEF TrailHere, NameInv, Marks
<1> QED BY <1>1, <1>2

LEMMA EnterMarks ==
  ASSUME NameInv, Linked, Here # NULL, KindOf(Here) \in Containers,
         NEW i \in DOMAIN KidsOf(Here), Enter(KidsOf(Here)[i])
  PROVE  Marks'
<1>1. PICK n \in Node : n = Original(Here)
  BY HereFacts DEF NameInv
<1>2. PICK kid : kid = Kids[n][i] /\ i \in DOMAIN Kids[n]
  BY <1>1 DEF KidsOf
<1>3. /\ kid.node \in Node /\ kid.name \in Name \cup {NULL}
      /\ Kind[n] = IF kid.name = NULL THEN "array" ELSE "object"
  BY <1>2, KidFacts, ReaderAssumption
<1>4. Enter(kid)
  BY <1>1, <1>2 DEF KidsOf
<1>5. PICK m \in Seq(Name) : m = members
  BY DEF NameInv, Inv, TypeOK
<1>6. PICK m2 : m2 = IF kid.name = NULL THEN m ELSE Append(m, kid.name)
  OBVIOUS
<1>7. /\ m2 \in Seq(Name)
      /\ \A j \in DOMAIN m : j \in DOMAIN m2 /\ m2[j] = m[j]
      /\ Len(m2) = Len(m) + (IF Kind[n] = "object" THEN 1 ELSE 0)
      /\ kid.name # NULL => Len(m2) \in DOMAIN m2 /\ m2[Len(m2)] = kid.name
  <2>1. CASE kid.name = NULL
    <3>1. m2 = m /\ Kind[n] = "array" /\ Len(m) \in Nat
      BY <1>3, <1>6, <2>1
    <3> QED BY <2>1, <3>1
  <2>2. CASE kid.name # NULL
    <3>1. m2 = Append(m, kid.name) /\ Kind[n] = "object" /\ kid.name \in Name
      BY <1>3, <1>6, <2>2
    <3> QED BY <3>1
  <2> QED BY <2>1, <2>2
<1>8. PICK t \in Seq(Step) : t = TrailHere /\ t # <<>>
  BY HereFacts DEF NameInv
<1>9. Marked(t, m) /\ Last(t).node = n
  BY <1>1, <1>5, <1>8, HereMarked, HereFacts DEF NameInv
<1>10. PICK s : s = [node |-> kid.node,
                     name |-> IF kid.name = NULL THEN Last(t).name ELSE kid.name,
                     mark |-> Len(m2)]
  OBVIOUS
<1>11. trail' = Append(t, s) /\ members' = m2
  BY <1>4, <1>5, <1>6, <1>8, <1>10 DEF Enter
<1>12. PICK last \in Step : last = Last(t) /\ Len(t) \in DOMAIN t /\ last = t[Len(t)]
  <2>1. Len(t) \in DOMAIN t
    BY <1>8, Emptiness
  <2> QED BY <2>1, ElementType DEF Last
<1>13. s \in Step
  BY <1>3, <1>7, <1>10, <1>12 DEF Step
<1>14. s.name # NULL => s.mark \in DOMAIN m2 /\ m2[s.mark] = s.name
  <2>1. CASE kid.name # NULL
    BY <1>7, <1>10, <2>1
  <2>2. CASE kid.name = NULL
    <3>1. m2 = m /\ s.name = last.name /\ s.mark = Len(m)
      BY <1>6, <1>10, <1>12, <2>2
    <3>2. last.mark = Len(m)
      BY <1>8, <1>9, <1>12 DEF Marked
    <3>3. last.name # NULL => last.mark \in DOMAIN m /\ m[last.mark] = last.name
      BY <1>9, <1>12 DEF Marked, Named
    <3> QED BY <3>1, <3>2, <3>3
  <2> QED BY <2>1, <2>2
<1>15. s.mark = Len(m2)
  BY <1>10
<1>16. s.mark = Len(m) + (IF Kind[Last(t).node] = "object" THEN 1 ELSE 0)
  BY <1>7, <1>9, <1>15
<1>17. Marked(Append(t, s), m2)
  BY <1>7, <1>8, <1>9, <1>13, <1>14, <1>15, <1>16, MarkedPush
<1> QED BY <1>11, <1>17 DEF Marks

(* A reader inside something is inside a container. *)
LEMMA PreviousKind ==
  ASSUME Inv, NEW u \in Seq(Step), u = Front(trail), u # <<>>
  PROVE  /\ KindOf(previous) = Kind[Last(u).node]
         /\ KindOf(previous) \in Containers
<1>1. trail \in Seq(Step) /\ trail # <<>>
  <2>1. trail \in Seq(Step)
    BY DEF Inv, TypeOK
  <2>2. trail = <<>> => Front(trail) = <<>>
    BY DEF Front
  <2> QED BY <2>1, <2>2
<1>2. Len(trail) = Len(u) + 1 /\ Len(u) \in Nat /\ Len(u) # 0 /\ Last(u) = trail[Len(u)]
  BY <1>1, PopFacts, Emptiness
<1>3. Len(trail) > 1
  BY <1>2
<1>4. previous # NULL /\ Original(previous) = Last(u).node /\ Descends(trail)
  BY <1>3 DEF Inv, WayBack
<1>5. Len(u) \in DOMAIN trail /\ Len(u) + 1 \in DOMAIN trail
  BY <1>1, <1>2
<1>6. \E k \in DOMAIN Kids[Last(u).node] : TRUE
  BY <1>2, <1>4, <1>5 DEF Descends
<1>7. Last(u).node \in Node
  <2>1. trail[Len(u)] \in Step
    BY <1>1, <1>5, ElementType
  <2> QED BY <1>2, <2>1 DEF Step
<1>8. Kind[Last(u).node] \in Containers
  BY <1>6, <1>7, ReaderAssumption DEF Containers
<1> QED BY <1>4, <1>8 DEF KindOf

LEMMA LeaveMarks ==
  ASSUME NameInv, NEW p \in Seq(Name), Leave(p),
         KindOf(previous) = "object" => p = Popped,
         KindOf(previous) = "array" => p = members
  PROVE  Marks'
<1>1. members' = p /\ trail' = (IF trail = <<>> THEN trail ELSE Front(trail))
  BY DEF Leave
<1>2. trail \in Seq(Step) /\ members \in Seq(Name) /\ Marked(trail, members) /\ Inv
  BY DEF NameInv, Inv, TypeOK, Marks
<1>3. CASE trail' = <<>>
  BY <1>1, <1>3, MarkedNowhere DEF Marks
<1>4. CASE trail' # <<>>
  <2>1. PICK u \in Seq(Step) : u = Front(trail) /\ u # <<>> /\ trail' = u /\ trail # <<>>
    BY <1>1, <1>2, <1>4, PopFacts
  <2>2. KindOf(previous) = Kind[Last(u).node] /\ KindOf(previous) \in {"object", "array"}
    BY <1>2, <2>1, PreviousKind DEF Containers
  <2>3. CASE KindOf(previous) = "array"
    <3>1. p = members
      BY <2>3
    <3>2. Len(members) = Len(p) + (IF Kind[Last(u).node] = "object" THEN 1 ELSE 0)
      <4>1. Len(members) \in Nat
        BY <1>2
      <4> QED BY <2>2, <2>3, <3>1, <4>1
    <3>3. Marked(u, p)
      BY <1>2, <2>1, <3>1, <3>2, MarkedPop
    <3> QED BY <1>1, <2>1, <3>3 DEF Marks
  <2>4. CASE KindOf(previous) = "object"
    <3>1. PICK n \in Nat : n = Len(u) /\ n # 0 /\ Len(trail) = n + 1 /\ Last(u) = trail[n]
      BY <1>2, <2>1, PopFacts, Emptiness
    <3>2. n \in DOMAIN trail /\ n + 1 \in DOMAIN trail
      BY <1>2, <3>1
    <3>3. trail[n + 1].mark = trail[n].mark + 1
      BY <1>2, <2>2, <2>4, <3>1, <3>2 DEF Marked, Stepped
    <3>4. trail[n + 1].mark = Len(members)
      BY <1>2, <2>1, <3>1 DEF Marked, Last
    <3>5. trail[n].mark \in Nat
      <4>1. trail[n] \in Step
        BY <1>2, <3>2, ElementType
      <4> QED BY <4>1 DEF Step
    <3>6. members # <<>>
      BY <1>2, <3>3, <3>4, <3>5, Emptiness, SMTT(30)
    <3>7. p = Front(members)
      BY <2>4, <3>6 DEF Popped
    <3>8. Len(members) = Len(p) + 1 /\ \A i \in 1 .. Len(p) : p[i] = members[i]
      BY <1>2, <3>6, <3>7, PopFacts
    <3>9. Len(members) = Len(p) + (IF Kind[Last(u).node] = "object" THEN 1 ELSE 0)
      BY <2>2, <2>4, <3>8
    <3>10. Marked(u, p)
      BY <1>2, <2>1, <3>8, <3>9, MarkedPop
    <3> QED BY <1>1, <2>1, <3>10 DEF Marks
  <2> QED BY <2>2, <2>3, <2>4
<1> QED BY <1>3, <1>4

LEMMA FailHereMarks ==
  ASSUME NameInv, NEW e, FailHere(e)
  PROVE  Marks'
<1>1. trail' = TrailHere /\ members' = members
  BY DEF FailHere
<1>2. CASE Here = NULL
  <2>1. TrailHere = trail
    BY <1>2, ReaderAssumption DEF Here, TrailHere, Root, NameInv, Inv, TypeOK
  <2> QED BY <1>1, <2>1 DEF Marks, NameInv
<1>3. CASE Here # NULL
  BY <1>1, <1>3, HereMarked DEF Marks
<1> QED BY <1>2, <1>3

LEMMA NextMarks ==
  ASSUME Linked, NameInv, [Next]_vars
  PROVE  NameInv'
<1>1. Inv /\ Inv'
  BY NextKeeps DEF NameInv
<1>2. ASSUME trail' = trail, members' = members PROVE Marks'
  BY <1>2 DEF NameInv, Marks
<1>3. ASSUME NEW r \in Node \cup {NULL}, SetRoot(r) PROVE Marks'
  <2>1. members \in Seq(Name) /\ members' = members
    BY <1>1, <1>3 DEF SetRoot, Inv, TypeOK
  <2>2. CASE r = NULL
    BY <1>3, <2>1, <2>2, MarkedNowhere DEF SetRoot, Marks
  <2>3. CASE r # NULL
    <3>1. PICK s \in Step : s = RootStep(r) /\ s.name = NULL /\ s.mark = Len(members)
      <4>1. RootStep(r) \in Step
        BY <2>1, <2>3 DEF RootStep, Step
      <4> QED BY <4>1 DEF RootStep
    <3>2. trail' = <<s>>
      BY <1>3, <2>3, <3>1 DEF SetRoot
    <3> QED BY <2>1, <3>1, <3>2, MarkedRoot DEF Marks
  <2> QED BY <2>2, <2>3
<1>4. ASSUME NEW i \in 1 .. 1 + Cardinality(Node), ReadElement(i) PROVE Marks'
  <2>1. CASE \E e \in Errors : FailHere(e)
    BY <2>1, FailHereMarks
  <2>2. CASE ~ \E e \in Errors : FailHere(e)
    <3>1. KindOf(Here) \in Containers /\ i \in DOMAIN KidsOf(Here) /\ Enter(KidsOf(Here)[i])
      BY <1>4, <2>2 DEF ReadElement, Errors
    <3>2. Here # NULL
      BY <3>1 DEF KindOf, Containers
    <3> QED BY <3>1, <3>2, EnterMarks
  <2> QED BY <2>1, <2>2
<1>5. ASSUME NEW n \in Name, ReadMember(n) PROVE Marks'
  <2>1. CASE \E e \in Errors : FailHere(e)
    BY <2>1, FailHereMarks
  <2>2. CASE ~ \E e \in Errors : FailHere(e)
    <3>1. KindOf(Here) = "object" /\ \E i \in DOMAIN KidsOf(Here) : Enter(KidsOf(Here)[i])
      BY <1>5, <2>2 DEF ReadMember, Errors
    <3>2. Here # NULL /\ KindOf(Here) \in Containers
      BY <3>1 DEF KindOf, Containers
    <3> QED BY <3>1, <3>2, EnterMarks
  <2> QED BY <2>1, <2>2
<1>6. Popped \in Seq(Name) /\ members \in Seq(Name)
  <2>1. members \in Seq(Name)
    BY <1>1 DEF Inv, TypeOK
  <2>2. members # <<>> => Front(members) \in Seq(Name)
    BY <2>1, PopFacts
  <2> QED BY <2>1, <2>2 DEF Popped
<1>7. ASSUME ClearError PROVE Marks'
  BY <1>2, <1>7 DEF ClearError
<1>8. ASSUME EndElement PROVE Marks'
  <2>1. CASE KindOf(previous) = "object"
    BY <1>6, <1>7, <1>8, <2>1, LeaveMarks DEF EndElement
  <2>2. CASE KindOf(previous) # "object"
    BY <1>6, <1>7, <1>8, <2>2, LeaveMarks DEF EndElement
  <2> QED BY <2>1, <2>2
<1>9. ASSUME EndMember PROVE Marks'
  BY <1>6, <1>7, <1>9, LeaveMarks DEF EndMember
<1>10. ASSUME NEW e \in Errors, Fail(e) PROVE Marks'
  BY <1>2, <1>10 DEF Fail
<1>11. ASSUME CountElements \/ ListMembers \/ GetMemberName PROVE Marks'
  BY <1>10, <1>11 DEF CountElements, ListMembers, GetMemberName, Errors
<1>12. ASSUME NEW kinds, GetWanting(kinds) PROVE Marks'
  BY <1>10, <1>12 DEF GetWanting, Errors
<1>13. ASSUME GetValue \/ GetIntValue \/ GetStringValue PROVE Marks'
  BY <1>10, <1>12, <1>13 DEF GetValue, GetIntValue, GetStringValue, Errors
<1>14. ASSUME UNCHANGED vars PROVE Marks'
  BY <1>2, <1>14 DEF vars
<1>15. Marks'
  BY <1>3, <1>4, <1>5, <1>8, <1>9, <1>11, <1>13, <1>14 DEF Next
<1> QED BY <1>1, <1>15 DEF NameInv

LEMMA NameFollows ==
  ASSUME NameInv PROVE NameOfPlace
<1>1. trail \in Seq(Step) /\ members \in Seq(Name) /\ Marked(trail, members)
  BY DEF NameInv, Inv, TypeOK, Marks
<1> SUFFICES ASSUME trail # <<>>, Last(trail).name # NULL
             PROVE  members # <<>> /\ Last(members) = Last(trail).name
  BY DEF NameOfPlace
<1>2. Len(trail) \in DOMAIN trail /\ Last(trail) = trail[Len(trail)]
  BY <1>1, Emptiness DEF Last
<1>3. Last(trail).mark = Len(members)
  BY <1>1 DEF Marked
<1>4. Len(members) \in DOMAIN members /\ members[Len(members)] = Last(trail).name
  BY <1>1, <1>2, <1>3 DEF Marked, Named
<1> QED BY <1>1, <1>4 DEF Last

(* json_reader_get_member_name answers for the place the cursor is at,     *)
(* however objects and arrays are nested around it.                        *)
THEOREM NameKept ==
  ASSUME Linked PROVE Spec => []NameOfPlace
<1>1. Init => NameInv
  <2> SUFFICES ASSUME Init PROVE NameInv
    OBVIOUS
  <2>1. trail = <<>> /\ members = <<>>
    BY DEF Init
  <2>2. Marks
    BY <2>1, EmptyIsSeq, MarkedNowhere DEF Marks
  <2> QED BY <2>2, InitHolds DEF NameInv
<1>2. NameInv /\ [Next]_vars => NameInv'
  BY NextMarks
<1>3. NameInv => NameOfPlace
  BY NameFollows
<1> QED BY <1>1, <1>2, <1>3, PTL DEF Spec

-----------------------------------------------------------------------------
(* Equality and hashes. *)

(* What an item of a container is. *)
ItemOf(c) == IF kind[c] = "array" THEN NodeFor(c) ELSE Names \X NodeFor(c)

WellFormed ==
  /\ kind \in [Container -> {"array", "object"}]
  /\ items = [c \in Container |-> items[c]]
  /\ \A c \in Container : items[c] \in Seq(ItemOf(c))
  /\ immutable \in [Container -> BOOLEAN]
  /\ immutable_hash = [c \in Container |-> immutable_hash[c]]

(* The names of the members of an object differ. *)
NamedOnce ==
  \A c \in Container : kind[c] = "object" =>
    \A i, j \in DOMAIN items[c] : items[c][i][1] = items[c][j][1] => i = j

(* What is in an immutable container is immutable. *)
SealedBelow ==
  \A c \in Container : immutable[c] => \A d \in Held(c) : immutable[d]

CompareInv == WellFormed /\ NamedOnce /\ SealedBelow /\ CacheFresh

-----------------------------------------------------------------------------
(* A nonempty set of numbers has a least one.                              *)
LEMMA Least ==
  ASSUME NEW T \in SUBSET Nat, T # {}
  PROVE  \E m \in T : \A k \in T : m <= k
<1> DEFINE R == OpToRel(<, Nat)
<1>1. IsWellFoundedOn(R, Nat)
  BY NatLessThanWellFounded
<1>2. \A x, y \in Nat : x < y => <<x, y>> \in R
  BY DEF OpToRel
<1> HIDE DEF R
<1>3. PICK x \in T : \A y \in T : ~ (<<y, x>> \in R)
  BY <1>1, WFMin
<1>4. ASSUME NEW k \in T PROVE x <= k
  <2>1. k \in Nat /\ x \in Nat
    OBVIOUS
  <2>2. ~ (<<k, x>> \in R)
    BY <1>3
  <2>3. ~ (k < x)
    BY <2>1, <2>2, <1>2
  <2> QED BY <2>1, <2>3
<1> QED BY <1>4

(* Counting down. *)
LEMMA Downwards ==
  ASSUME NEW P \in SUBSET Nat, NEW m \in Nat, m + 1 \in P,
         \A n \in P : n > 1 => n - 1 \in P
  PROVE  1 \in P
<1> DEFINE Q == {n \in P : n >= 1}
<1>1. PICK n \in Q : \A k \in Q : n <= k
  <2>1. m + 1 \in Q
    OBVIOUS
  <2>2. Q \in SUBSET Nat /\ Q # {}
    BY <2>1
  <2> HIDE DEF Q
  <2> QED BY <2>2, Least
<1>2. CASE n = 1
  BY <1>1, <1>2
<1>3. CASE n # 1
  <2>1. n - 1 \in P /\ n - 1 >= 1 /\ n \in Nat /\ n > 1
    BY <1>1, <1>3
  <2> QED BY <1>1, <2>1
<1> QED BY <1>2, <1>3

LEMMA NodeIs ==
  WellFormed =>
    \A c \in Container : \A x \in NodeFor(c) :
      \/ HoldsContainer(x) /\ x[2] \in Container /\ x[2] > c /\ x = <<kind[x[2]], x[2]>>
      \/ /\ ~ HoldsContainer(x) /\ x \in Values
         /\ x # <<"null">> => x[1] \in Scalar /\ x = <<x[1], x[2]>>
<1> SUFFICES ASSUME WellFormed, NEW c \in Container, NEW x \in NodeFor(c)
             PROVE  \/ HoldsContainer(x) /\ x[2] \in Container /\ x[2] > c /\ x = <<kind[x[2]], x[2]>>
                    \/ /\ ~ HoldsContainer(x) /\ x \in Values
                       /\ x # <<"null">> => x[1] \in Scalar /\ x = <<x[1], x[2]>>
  OBVIOUS
<1>1. CASE x \in Values
  <2>1. x # <<"null">> => x[1] \in Scalar /\ x = <<x[1], x[2]>>
    BY <1>1, CompareAssumption
  <2>2. x = <<"null">> => x[1] = "null"
    OBVIOUS
  <2>3. x[1] \in {"null", "boolean", "string", "int", "double"}
    BY <2>1, <2>2 DEF Scalar
  <2> QED BY <1>1, <2>1, <2>3 DEF HoldsContainer
<1>2. CASE x \in {<<kind[d], d>> : d \in {e \in Container : e > c}}
  <2>1. PICK d \in Container : d > c /\ x = <<kind[d], d>>
    BY <1>2
  <2>2. x[1] = kind[d] /\ x[2] = d
    BY <2>1
  <2> QED BY <2>1, <2>2 DEF WellFormed, HoldsContainer
<1> QED BY <1>1, <1>2 DEF NodeFor

LEMMA ChildIs ==
  WellFormed =>
    \A c \in Container : \A i \in DOMAIN items[c] :
      /\ Child(items[c][i], c) \in NodeFor(c)
      /\ kind[c] = "array" \/ kind[c] = "object"
      /\ kind[c] = "array" => items[c][i] = Child(items[c][i], c)
      /\ kind[c] = "object" => /\ items[c][i][2] = Child(items[c][i], c)
                              /\ items[c][i] = <<items[c][i][1], items[c][i][2]>>
                              /\ items[c][i][1] \in Names
<1> SUFFICES ASSUME WellFormed, NEW c \in Container, NEW i \in DOMAIN items[c]
             PROVE  /\ Child(items[c][i], c) \in NodeFor(c)
                    /\ kind[c] = "array" \/ kind[c] = "object"
                    /\ kind[c] = "array" => items[c][i] = Child(items[c][i], c)
                    /\ kind[c] = "object" => /\ items[c][i][2] = Child(items[c][i], c)
                                            /\ items[c][i] = <<items[c][i][1], items[c][i][2]>>
                                            /\ items[c][i][1] \in Names
  OBVIOUS
<1>1. items[c][i] \in ItemOf(c) /\ kind[c] \in {"array", "object"}
  BY DEF WellFormed
<1>2. CASE kind[c] = "array"
  BY <1>1, <1>2 DEF ItemOf, Child
<1>3. CASE kind[c] = "object"
  <2>1. items[c][i] \in Names \X NodeFor(c)
    BY <1>1, <1>3 DEF ItemOf
  <2> QED BY <1>3, <2>1 DEF Child
<1> QED BY <1>1, <1>2, <1>3

(* The child of c at i, and what it is. *)
LEMMA ChildNode ==
  ASSUME WellFormed, NEW c \in Container, NEW i \in DOMAIN items[c]
  PROVE  LET x == Child(items[c][i], c)
         IN  \/ HoldsContainer(x) /\ x[2] \in Container /\ x[2] > c /\ x = <<kind[x[2]], x[2]>>
             \/ ~ HoldsContainer(x) /\ (x # <<"null">> => x[1] \in Scalar /\ x = <<x[1], x[2]>>)
BY ChildIs, NodeIs

LEMMA HeldLater ==
  WellFormed => \A c \in Container : \A d \in Held(c) : d \in Container /\ d > c
<1> SUFFICES ASSUME WellFormed, NEW c \in Container, NEW d \in Held(c)
             PROVE  d \in Container /\ d > c
  OBVIOUS
<1>1. PICK i \in DOMAIN items[c] : Child(items[c][i], c) = <<kind[d], d>> /\ d \in Container
  BY DEF Held
<1>2. PICK x : x = Child(items[c][i], c)
  OBVIOUS
<1>3. x[1] = kind[d] /\ x[2] = d /\ HoldsContainer(x)
  BY <1>1, <1>2 DEF WellFormed, HoldsContainer
<1> QED BY <1>1, <1>2, <1>3, ChildNode

LEMMA HoldsHeld ==
  ASSUME WellFormed, NEW c \in Container, NEW i \in DOMAIN items[c],
         HoldsContainer(Child(items[c][i], c))
  PROVE  Child(items[c][i], c)[2] \in Held(c)
BY ChildNode DEF Held

(* A step looks at the containers below only. *)
LEMMA HashLooksAtHeld ==
  ASSUME WellFormed, NEW f, NEW g, NEW c \in Container,
         \A d \in Held(c) : g[d] = f[d]
  PROVE  HashFrom(c, g) = HashFrom(c, f)
<1>1. ASSUME NEW i \in DOMAIN items[c] PROVE ItemHash(c, i, g) = ItemHash(c, i, f)
  <2>1. PICK x : x = Child(items[c][i], c)
    OBVIOUS
  <2>2. NodeHash(x, g) = NodeHash(x, f)
    BY <2>1, HoldsHeld DEF NodeHash
  <2>3. CASE kind[c] = "array"
    <3>1. items[c][i] = x
      BY <2>1, <2>3, ChildIs
    <3> QED BY <2>2, <2>3, <3>1 DEF ItemHash
  <2>4. CASE kind[c] # "array"
    <3>1. items[c][i][2] = x
      BY <2>1, <2>4, ChildIs
    <3> QED BY <2>2, <2>4, <3>1 DEF ItemHash
  <2> QED BY <2>3, <2>4
<1>2. [i \in DOMAIN items[c] |-> ItemHash(c, i, g)] = [i \in DOMAIN items[c] |-> ItemHash(c, i, f)]
  BY <1>1
<1> QED BY <1>2 DEF HashFrom

LEMMA HashLooksBelow ==
  ASSUME WellFormed, NEW f, NEW g, NEW c \in Container,
         \A d \in Container : d > c => g[d] = f[d]
  PROVE  HashFrom(c, g) = HashFrom(c, f)
BY HeldLater, HashLooksAtHeld

KeptStep(c, f) == IF immutable[c] THEN immutable_hash[c] ELSE HashFrom(c, f)
LEMMA KeptLooksBelow ==
  ASSUME WellFormed, NEW f, NEW g, NEW c \in Container,
         \A d \in Container : d > c => g[d] = f[d]
  PROVE  KeptStep(c, g) = KeptStep(c, f)
BY HashLooksBelow DEF KeptStep

EqualStep(c, f) == [d \in Container |-> c = d \/ EqualItems(c, d, f)]
LEMMA EqualLooksBelow ==
  ASSUME WellFormed, NEW f, NEW g, NEW c \in Container,
         \A d \in Container : d > c => g[d] = f[d]
  PROVE  EqualStep(c, g) = EqualStep(c, f)
<1>1. ASSUME NEW x, NEW y,
             HoldsContainer(x) => x[2] \in Container /\ x[2] > c
      PROVE  EqualNodes(x, y, g) = EqualNodes(x, y, f)
  <2>1. HoldsContainer(x) => g[x[2]][y[2]] = f[x[2]][y[2]]
    BY <1>1
  <2> QED BY <2>1 DEF EqualNodes
<1>2. ASSUME NEW d \in Container PROVE EqualItems(c, d, g) = EqualItems(c, d, f)
  <2>1. CASE kind[c] = "array"
    <3>1. \A i \in DOMAIN items[c] :
            EqualNodes(items[c][i], items[d][i], g) = EqualNodes(items[c][i], items[d][i], f)
      BY <1>1, <2>1, ChildIs, ChildNode
    <3> QED BY <2>1, <3>1 DEF EqualItems
  <2>2. CASE kind[c] # "array"
    <3>1. ASSUME NEW n \in NamesOf(c)
          PROVE  EqualNodes(MemberOf(c, n), MemberOf(d, n), g) = EqualNodes(MemberOf(c, n), MemberOf(d, n), f)
      <4>1. PICK i \in DOMAIN items[c] : MemberOf(c, n) = items[c][i][2]
        BY DEF MemberOf, NamesOf
      <4>2. items[c][i][2] = Child(items[c][i], c)
        BY <2>2, ChildIs
      <4> QED BY <1>1, <4>1, <4>2, ChildNode
    <3> QED BY <2>2, <3>1 DEF EqualItems
  <2> QED BY <2>1, <2>2
<1> QED BY <1>2 DEF EqualStep

ReachedStep(c, f) == IF immutable[c] THEN {} ELSE {c} \cup UNION {f[d] : d \in Held(c)}
LEMMA ReachedLooksBelow ==
  ASSUME WellFormed, NEW f, NEW g, NEW c \in Container,
         \A d \in Container : d > c => g[d] = f[d]
  PROVE  ReachedStep(c, g) = ReachedStep(c, f)
<1>1. \A d \in Held(c) : g[d] = f[d]
  BY HeldLater
<1>2. {g[d] : d \in Held(c)} = {f[d] : d \in Held(c)}
  BY <1>1
<1> QED BY <1>2 DEF ReachedStep

Under(c, i, f) == NodeTree(Child(items[c][i], c), f)
TreeStep(c, f) ==
  IF kind[c] = "array" THEN [i \in DOMAIN items[c] |-> Under(c, i, f)]
  ELSE {<<items[c][i][1], Under(c, i, f)>> : i \in DOMAIN items[c]}
LEMMA TreeLooksBelow ==
  ASSUME WellFormed, NEW f, NEW g, NEW c \in Container,
         \A d \in Container : d > c => g[d] = f[d]
  PROVE  TreeStep(c, g) = TreeStep(c, f)
<1>1. \A i \in DOMAIN items[c] : Under(c, i, g) = Under(c, i, f)
  BY ChildNode DEF Under, NodeTree
<1>2. [i \in DOMAIN items[c] |-> Under(c, i, g)] = [i \in DOMAIN items[c] |-> Under(c, i, f)]
  BY <1>1
<1>3. {<<items[c][i][1], Under(c, i, g)>> : i \in DOMAIN items[c]}
        = {<<items[c][i][1], Under(c, i, f)>> : i \in DOMAIN items[c]}
  BY <1>1
<1> QED BY <1>2, <1>3 DEF TreeStep

TypesStep(c, f) == UNION {NodeTypes(Child(items[c][i], c), f) : i \in DOMAIN items[c]}
LEMMA TypesLooksBelow ==
  ASSUME WellFormed, NEW f, NEW g, NEW c \in Container,
         \A d \in Container : d > c => g[d] = f[d]
  PROVE  TypesStep(c, g) = TypesStep(c, f)
<1>1. \A i \in DOMAIN items[c] :
        NodeTypes(Child(items[c][i], c), g) = NodeTypes(Child(items[c][i], c), f)
  BY ChildNode DEF NodeTypes
<1>2. {NodeTypes(Child(items[c][i], c), g) : i \in DOMAIN items[c]}
        = {NodeTypes(Child(items[c][i], c), f) : i \in DOMAIN items[c]}
  BY <1>1
<1> QED BY <1>2 DEF TypesStep

-----------------------------------------------------------------------------
(* The tables solve their equations. *)

LEMMA ComputedIs ==
  WellFormed => ComputedHash = [c \in Container |-> HashFrom(c, ComputedHash)]
<1> SUFFICES ASSUME WellFormed PROVE ComputedHash = [c \in Container |-> HashFrom(c, ComputedHash)]
  OBVIOUS
<1> DEFINE Solves(n, f) ==
             /\ f = [c \in Container |-> f[c]]
             /\ \A c \in Container : c >= n => f[c] = HashFrom(c, f)
           Solved == {n \in Nat : \E f : Solves(n, f)}
<1>1. MaxContainer + 1 \in Solved
  <2>1. Solves(MaxContainer + 1, [c \in Container |-> {}])
    BY CompareAssumption DEF Container
  <2>2. MaxContainer + 1 \in Nat
    BY CompareAssumption
  <2> HIDE DEF Solves
  <2> QED BY <2>1, <2>2
<1>2. ASSUME NEW n \in Solved, n > 1 PROVE n - 1 \in Solved
  <2>1. PICK f : Solves(n, f)
    BY <1>2
  <2>2. n \in Nat /\ n - 1 \in Nat
    BY <1>2
  <2> DEFINE k == n - 1
             g == [c \in Container |-> IF c = k THEN HashFrom(c, f) ELSE f[c]]
  <2>3. ASSUME NEW c \in Container, c >= k PROVE g[c] = HashFrom(c, g)
    <3>1. \A d \in Container : d > c => g[d] = f[d]
      BY <2>2, <2>3 DEF Container
    <3>2. g[c] = HashFrom(c, f)
      BY <2>1, <2>2, <2>3 DEF Container
    <3> HIDE DEF g
    <3> QED BY <3>1, <3>2, HashLooksBelow
  <2>4. g = [c \in Container |-> g[c]]
    OBVIOUS
  <2> HIDE DEF g
  <2>5. Solves(k, g)
    BY <2>3, <2>4
  <2> QED BY <2>2, <2>5
<1>3. 1 \in Solved
  <2> HIDE DEF Solved
  <2>1. Solved \in SUBSET Nat
    BY DEF Solved
  <2> QED BY <1>1, <1>2, <2>1, CompareAssumption, Downwards
<1>4. \E f : f = [c \in Container |-> HashFrom(c, f)]
  <2>1. PICK f : Solves(1, f)
    BY <1>3
  <2>2. \A c \in Container : f[c] = HashFrom(c, f)
    BY <2>1, CompareAssumption DEF Container
  <2>3. f = [c \in Container |-> f[c]]
    BY <2>1
  <2>4. f = [c \in Container |-> HashFrom(c, f)]
    BY <2>2, <2>3
  <2> QED BY <2>4
<1> QED BY <1>4 DEF ComputedHash

LEMMA KeptIs ==
  WellFormed => ContainerHash = [c \in Container |-> KeptStep(c, ContainerHash)]
<1> SUFFICES ASSUME WellFormed PROVE ContainerHash = [c \in Container |-> KeptStep(c, ContainerHash)]
  OBVIOUS
<1> DEFINE Solves(n, f) ==
             /\ f = [c \in Container |-> f[c]]
             /\ \A c \in Container : c >= n => f[c] = KeptStep(c, f)
           Solved == {n \in Nat : \E f : Solves(n, f)}
<1>1. MaxContainer + 1 \in Solved
  <2>1. Solves(MaxContainer + 1, [c \in Container |-> {}])
    BY CompareAssumption DEF Container
  <2>2. MaxContainer + 1 \in Nat
    BY CompareAssumption
  <2> HIDE DEF Solves
  <2> QED BY <2>1, <2>2
<1>2. ASSUME NEW n \in Solved, n > 1 PROVE n - 1 \in Solved
  <2>1. PICK f : Solves(n, f)
    BY <1>2
  <2>2. n \in Nat /\ n - 1 \in Nat
    BY <1>2
  <2> DEFINE k == n - 1
             g == [c \in Container |-> IF c = k THEN KeptStep(c, f) ELSE f[c]]
  <2>3. ASSUME NEW c \in Container, c >= k PROVE g[c] = KeptStep(c, g)
    <3>1. \A d \in Container : d > c => g[d] = f[d]
      BY <2>2, <2>3 DEF Container
    <3>2. g[c] = KeptStep(c, f)
      BY <2>1, <2>2, <2>3 DEF Container
    <3> HIDE DEF g
    <3> QED BY <3>1, <3>2, KeptLooksBelow
  <2>4. g = [c \in Container |-> g[c]]
    OBVIOUS
  <2> HIDE DEF g
  <2>5. Solves(k, g)
    BY <2>3, <2>4
  <2> QED BY <2>2, <2>5
<1>3. 1 \in Solved
  <2> HIDE DEF Solved
  <2>1. Solved \in SUBSET Nat
    BY DEF Solved
  <2> QED BY <1>1, <1>2, <2>1, CompareAssumption, Downwards
<1>4. \E f : f = [c \in Container |-> KeptStep(c, f)]
  <2>1. PICK f : Solves(1, f)
    BY <1>3
  <2>2. \A c \in Container : f[c] = KeptStep(c, f)
    BY <2>1, CompareAssumption DEF Container
  <2>3. f = [c \in Container |-> f[c]]
    BY <2>1
  <2>4. f = [c \in Container |-> KeptStep(c, f)]
    BY <2>2, <2>3
  <2> QED BY <2>4
<1> QED BY <1>4 DEF ContainerHash, KeptStep

LEMMA EqualsIs ==
  WellFormed => Equals = [c \in Container |-> EqualStep(c, Equals)]
<1> SUFFICES ASSUME WellFormed PROVE Equals = [c \in Container |-> EqualStep(c, Equals)]
  OBVIOUS
<1> DEFINE Solves(n, f) ==
             /\ f = [c \in Container |-> f[c]]
             /\ \A c \in Container : c >= n => f[c] = EqualStep(c, f)
           Solved == {n \in Nat : \E f : Solves(n, f)}
<1>1. MaxContainer + 1 \in Solved
  <2>1. Solves(MaxContainer + 1, [c \in Container |-> {}])
    BY CompareAssumption DEF Container
  <2>2. MaxContainer + 1 \in Nat
    BY CompareAssumption
  <2> HIDE DEF Solves
  <2> QED BY <2>1, <2>2
<1>2. ASSUME NEW n \in Solved, n > 1 PROVE n - 1 \in Solved
  <2>1. PICK f : Solves(n, f)
    BY <1>2
  <2>2. n \in Nat /\ n - 1 \in Nat
    BY <1>2
  <2> DEFINE k == n - 1
             g == [c \in Container |-> IF c = k THEN EqualStep(c, f) ELSE f[c]]
  <2>3. ASSUME NEW c \in Container, c >= k PROVE g[c] = EqualStep(c, g)
    <3>1. \A d \in Container : d > c => g[d] = f[d]
      BY <2>2, <2>3 DEF Container
    <3>2. g[c] = EqualStep(c, f)
      BY <2>1, <2>2, <2>3 DEF Container
    <3> HIDE DEF g
    <3> QED BY <3>1, <3>2, EqualLooksBelow
  <2>4. g = [c \in Container |-> g[c]]
    OBVIOUS
  <2> HIDE DEF g
  <2>5. Solves(k, g)
    BY <2>3, <2>4
  <2> QED BY <2>2, <2>5
<1>3. 1 \in Solved
  <2> HIDE DEF Solved
  <2>1. Solved \in SUBSET Nat
    BY DEF Solved
  <2> QED BY <1>1, <1>2, <2>1, CompareAssumption, Downwards
<1>4. \E f : f = [c \in Container |-> EqualStep(c, f)]
  <2>1. PICK f : Solves(1, f)
    BY <1>3
  <2>2. \A c \in Container : f[c] = EqualStep(c, f)
    BY <2>1, CompareAssumption DEF Container
  <2>3. f = [c \in Container |-> f[c]]
    BY <2>1
  <2>4. f = [c \in Container |-> EqualStep(c, f)]
    BY <2>2, <2>3
  <2> QED BY <2>4
<1> QED BY <1>4 DEF Equals, EqualStep

LEMMA ReachedIs ==
  WellFormed => Reached = [c \in Container |-> ReachedStep(c, Reached)]
<1> SUFFICES ASSUME WellFormed PROVE Reached = [c \in Container |-> ReachedStep(c, Reached)]
  OBVIOUS
<1> DEFINE Solves(n, f) ==
             /\ f = [c \in Container |-> f[c]]
             /\ \A c \in Container : c >= n => f[c] = ReachedStep(c, f)
           Solved == {n \in Nat : \E f : Solves(n, f)}
<1>1. MaxContainer + 1 \in Solved
  <2>1. Solves(MaxContainer + 1, [c \in Container |-> {}])
    BY CompareAssumption DEF Container
  <2>2. MaxContainer + 1 \in Nat
    BY CompareAssumption
  <2> HIDE DEF Solves
  <2> QED BY <2>1, <2>2
<1>2. ASSUME NEW n \in Solved, n > 1 PROVE n - 1 \in Solved
  <2>1. PICK f : Solves(n, f)
    BY <1>2
  <2>2. n \in Nat /\ n - 1 \in Nat
    BY <1>2
  <2> DEFINE k == n - 1
             g == [c \in Container |-> IF c = k THEN ReachedStep(c, f) ELSE f[c]]
  <2>3. ASSUME NEW c \in Container, c >= k PROVE g[c] = ReachedStep(c, g)
    <3>1. \A d \in Container : d > c => g[d] = f[d]
      BY <2>2, <2>3 DEF Container
    <3>2. g[c] = ReachedStep(c, f)
      BY <2>1, <2>2, <2>3 DEF Container
    <3> HIDE DEF g
    <3> QED BY <3>1, <3>2, ReachedLooksBelow
  <2>4. g = [c \in Container |-> g[c]]
    OBVIOUS
  <2> HIDE DEF g
  <2>5. Solves(k, g)
    BY <2>3, <2>4
  <2> QED BY <2>2, <2>5
<1>3. 1 \in Solved
  <2> HIDE DEF Solved
  <2>1. Solved \in SUBSET Nat
    BY DEF Solved
  <2> QED BY <1>1, <1>2, <2>1, CompareAssumption, Downwards
<1>4. \E f : f = [c \in Container |-> ReachedStep(c, f)]
  <2>1. PICK f : Solves(1, f)
    BY <1>3
  <2>2. \A c \in Container : f[c] = ReachedStep(c, f)
    BY <2>1, CompareAssumption DEF Container
  <2>3. f = [c \in Container |-> f[c]]
    BY <2>1
  <2>4. f = [c \in Container |-> ReachedStep(c, f)]
    BY <2>2, <2>3
  <2> QED BY <2>4
<1> QED BY <1>4 DEF Reached, ReachedStep

LEMMA TreeIs ==
  WellFormed => Tree = [c \in Container |-> TreeStep(c, Tree)]
<1> SUFFICES ASSUME WellFormed PROVE Tree = [c \in Container |-> TreeStep(c, Tree)]
  OBVIOUS
<1> DEFINE Solves(n, f) ==
             /\ f = [c \in Container |-> f[c]]
             /\ \A c \in Container : c >= n => f[c] = TreeStep(c, f)
           Solved == {n \in Nat : \E f : Solves(n, f)}
<1>1. MaxContainer + 1 \in Solved
  <2>1. Solves(MaxContainer + 1, [c \in Container |-> {}])
    BY CompareAssumption DEF Container
  <2>2. MaxContainer + 1 \in Nat
    BY CompareAssumption
  <2> HIDE DEF Solves
  <2> QED BY <2>1, <2>2
<1>2. ASSUME NEW n \in Solved, n > 1 PROVE n - 1 \in Solved
  <2>1. PICK f : Solves(n, f)
    BY <1>2
  <2>2. n \in Nat /\ n - 1 \in Nat
    BY <1>2
  <2> DEFINE k == n - 1
             g == [c \in Container |-> IF c = k THEN TreeStep(c, f) ELSE f[c]]
  <2>3. ASSUME NEW c \in Container, c >= k PROVE g[c] = TreeStep(c, g)
    <3>1. \A d \in Container : d > c => g[d] = f[d]
      BY <2>2, <2>3 DEF Container
    <3>2. g[c] = TreeStep(c, f)
      BY <2>1, <2>2, <2>3 DEF Container
    <3> HIDE DEF g
    <3> QED BY <3>1, <3>2, TreeLooksBelow
  <2>4. g = [c \in Container |-> g[c]]
    OBVIOUS
  <2> HIDE DEF g
  <2>5. Solves(k, g)
    BY <2>3, <2>4
  <2> QED BY <2>2, <2>5
<1>3. 1 \in Solved
  <2> HIDE DEF Solved
  <2>1. Solved \in SUBSET Nat
    BY DEF Solved
  <2> QED BY <1>1, <1>2, <2>1, CompareAssumption, Downwards
<1>4. \E f : f = [c \in Container |-> TreeStep(c, f)]
  <2>1. PICK f : Solves(1, f)
    BY <1>3
  <2>2. \A c \in Container : f[c] = TreeStep(c, f)
    BY <2>1, CompareAssumption DEF Container
  <2>3. f = [c \in Container |-> f[c]]
    BY <2>1
  <2>4. f = [c \in Container |-> TreeStep(c, f)]
    BY <2>2, <2>3
  <2> QED BY <2>4
<1> QED BY <1>4 DEF Tree, TreeStep, Under

LEMMA TypesIs ==
  WellFormed => Types = [c \in Container |-> TypesStep(c, Types)]
<1> SUFFICES ASSUME WellFormed PROVE Types = [c \in Container |-> TypesStep(c, Types)]
  OBVIOUS
<1> DEFINE Solves(n, f) ==
             /\ f = [c \in Container |-> f[c]]
             /\ \A c \in Container : c >= n => f[c] = TypesStep(c, f)
           Solved == {n \in Nat : \E f : Solves(n, f)}
<1>1. MaxContainer + 1 \in Solved
  <2>1. Solves(MaxContainer + 1, [c \in Container |-> {}])
    BY CompareAssumption DEF Container
  <2>2. MaxContainer + 1 \in Nat
    BY CompareAssumption
  <2> HIDE DEF Solves
  <2> QED BY <2>1, <2>2
<1>2. ASSUME NEW n \in Solved, n > 1 PROVE n - 1 \in Solved
  <2>1. PICK f : Solves(n, f)
    BY <1>2
  <2>2. n \in Nat /\ n - 1 \in Nat
    BY <1>2
  <2> DEFINE k == n - 1
             g == [c \in Container |-> IF c = k THEN TypesStep(c, f) ELSE f[c]]
  <2>3. ASSUME NEW c \in Container, c >= k PROVE g[c] = TypesStep(c, g)
    <3>1. \A d \in Container : d > c => g[d] = f[d]
      BY <2>2, <2>3 DEF Container
    <3>2. g[c] = TypesStep(c, f)
      BY <2>1, <2>2, <2>3 DEF Container
    <3> HIDE DEF g
    <3> QED BY <3>1, <3>2, TypesLooksBelow
  <2>4. g = [c \in Container |-> g[c]]
    OBVIOUS
  <2> HIDE DEF g
  <2>5. Solves(k, g)
    BY <2>3, <2>4
  <2> QED BY <2>2, <2>5
<1>3. 1 \in Solved
  <2> HIDE DEF Solved
  <2>1. Solved \in SUBSET Nat
    BY DEF Solved
  <2> QED BY <1>1, <1>2, <2>1, CompareAssumption, Downwards
<1>4. \E f : f = [c \in Container |-> TypesStep(c, f)]
  <2>1. PICK f : Solves(1, f)
    BY <1>3
  <2>2. \A c \in Container : f[c] = TypesStep(c, f)
    BY <2>1, CompareAssumption DEF Container
  <2>3. f = [c \in Container |-> f[c]]
    BY <2>1
  <2>4. f = [c \in Container |-> TypesStep(c, f)]
    BY <2>2, <2>3
  <2> QED BY <2>4
<1> QED BY <1>4 DEF Types, TypesStep

-----------------------------------------------------------------------------
(* CacheFresh. *)

(* What holds of every container above those it holds for below holds.     *)
LEMMA FromBelow ==
  ASSUME NEW S \in SUBSET Container,
         \A c \in Container : (\A d \in Container : d > c => d \in S) => c \in S
  PROVE  S = Container
<1> DEFINE P == {n \in Nat : \A c \in Container : c >= n => c \in S}
<1>1. MaxContainer + 1 \in P
  BY CompareAssumption DEF Container
<1>2. ASSUME NEW n \in P, n > 1 PROVE n - 1 \in P
  <2>1. n - 1 \in Nat /\ n \in Nat
    BY <1>2
  <2>2. ASSUME NEW c \in Container, c >= n - 1 PROVE c \in S
    <3>1. c \in Nat
      BY CompareAssumption DEF Container
    <3>2. CASE c >= n
      BY <3>2
    <3>3. CASE ~ (c >= n)
      <4>1. c = n - 1
        BY <2>1, <2>2, <3>1, <3>3
      <4>2. \A d \in Container : d > c => d \in S
        BY <2>1, <4>1, CompareAssumption DEF Container
      <4> QED BY <4>2
    <3> QED BY <3>2, <3>3
  <2> QED BY <2>1, <2>2
<1>3. 1 \in P
  <2>1. P \in SUBSET Nat
    OBVIOUS
  <2> HIDE DEF P
  <2> QED BY <1>1, <1>2, <2>1, CompareAssumption, Downwards
<1>4. \A c \in Container : c >= 1
  BY CompareAssumption DEF Container
<1> QED BY <1>3, <1>4

(* While the hashes kept are fresh, using them makes no difference.        *)
LEMMA KeptFresh ==
  ASSUME CompareInv
  PROVE  \A c \in Container : ContainerHash[c] = ComputedHash[c]
<1>0. WellFormed /\ CacheFresh
  BY DEF CompareInv
<1> DEFINE S == {c \in Container : ContainerHash[c] = ComputedHash[c]}
<1>1. ASSUME NEW c \in Container, \A d \in Container : d > c => d \in S
      PROVE  c \in S
  <2>1. HashFrom(c, ContainerHash) = HashFrom(c, ComputedHash)
    BY <1>0, <1>1, HashLooksBelow
  <2>2. ContainerHash[c] = KeptStep(c, ContainerHash)
    BY <1>0, KeptIs
  <2>3. ComputedHash[c] = HashFrom(c, ComputedHash)
    BY <1>0, ComputedIs
  <2> QED BY <1>0, <2>1, <2>2, <2>3 DEF KeptStep, CacheFresh
<1>2. S = Container
  <2>1. S \in SUBSET Container
    OBVIOUS
  <2> HIDE DEF S
  <2> QED BY <1>1, <2>1, FromBelow
<1> QED BY <1>2

(* What does not change immutable containers does not change their hashes. *)
LEMMA FreshUnchanged ==
  ASSUME WellFormed, SealedBelow, WellFormed', kind' = kind,
         \A c \in Container : immutable[c] => items'[c] = items[c]
  PROVE  \A c \in Container : immutable[c] => (ComputedHash')[c] = ComputedHash[c]
<1>1. ComputedHash' = [c \in Container |-> HashFrom(c, ComputedHash)']
  <2>1. (WellFormed => ComputedHash = [c \in Container |-> HashFrom(c, ComputedHash)])'
    BY ComputedIs, PTL
  <2> QED BY <2>1
<1>2. PICK h, k : h = ComputedHash /\ k = ComputedHash'
  OBVIOUS
<1>3. ASSUME NEW c \in Container, immutable[c] PROVE k[c] = HashFrom(c, k)
  BY <1>1, <1>2, <1>3 DEF HashFrom, ItemHash
<1>4. \A c \in Container : h[c] = HashFrom(c, h)
  BY <1>2, ComputedIs
<1> DEFINE S == {c \in Container : immutable[c] => k[c] = h[c]}
<1>5. ASSUME NEW c \in Container, \A d \in Container : d > c => d \in S
      PROVE  c \in S
  <2>1. SUFFICES ASSUME immutable[c] PROVE k[c] = h[c]
    OBVIOUS
  <2>2. \A d \in Held(c) : k[d] = h[d]
    BY <1>5, <2>1, HeldLater DEF SealedBelow
  <2>3. HashFrom(c, k) = HashFrom(c, h)
    BY <2>2, HashLooksAtHeld
  <2> QED BY <1>3, <1>4, <2>1, <2>3
<1>6. S = Container
  <2>1. S \in SUBSET Container
    OBVIOUS
  <2> HIDE DEF S
  <2> QED BY <1>5, <2>1, FromBelow
<1> QED BY <1>2, <1>6

LEMMA NothingIn ==
  ASSUME NEW R PROVE <<>> \in Seq(R)
OBVIOUS

LEMMA InitGood == CompareInit => CompareInv
<1> SUFFICES ASSUME CompareInit PROVE CompareInv
  OBVIOUS
<1>1. \A c \in Container : items[c] = <<>> /\ kind[c] \in {"array", "object"} /\ ~ immutable[c]
  BY DEF CompareInit
<1>2. WellFormed
  <2>1. \A c \in Container : items[c] \in Seq(ItemOf(c))
    BY <1>1, NothingIn
  <2> QED BY <2>1 DEF CompareInit, WellFormed
<1>3. NamedOnce /\ SealedBelow /\ CacheFresh
  BY <1>1 DEF NamedOnce, SealedBelow, CacheFresh
<1> QED BY <1>2, <1>3 DEF CompareInv

(* An action that gives a container that is not immutable the items s.     *)
LEMMA Changed ==
  ASSUME CompareInv, NEW c \in Container, NEW s \in Seq(ItemOf(c)),
         kind[c] = "object" => \A i, j \in DOMAIN s : s[i][1] = s[j][1] => i = j,
         Change(c, Items(c, s))
  PROVE  CompareInv'
<1>0. WellFormed /\ NamedOnce /\ SealedBelow /\ CacheFresh
  BY DEF CompareInv
<1>1. /\ ~ immutable[c] /\ items' = [items EXCEPT ![c] = s]
      /\ kind' = kind /\ immutable' = immutable /\ immutable_hash' = immutable_hash
  BY DEF Change, Items
<1>2. /\ items' = [d \in Container |-> items'[d]]
      /\ items'[c] = s
      /\ \A d \in Container : d # c => items'[d] = items[d]
  BY <1>0, <1>1 DEF WellFormed
<1>3. WellFormed'
  <2>1. ASSUME NEW d \in Container PROVE ItemOf(d)' = ItemOf(d)
    BY <1>1 DEF ItemOf, NodeFor
  <2>2. \A d \in Container : items'[d] \in Seq(ItemOf(d)')
    BY <1>0, <1>2, <2>1 DEF WellFormed
  <2> QED BY <1>0, <1>1, <1>2, <2>2 DEF WellFormed
<1>4. NamedOnce'
  BY <1>0, <1>1, <1>2 DEF NamedOnce
<1>5. SealedBelow'
  <2>1. ASSUME NEW d \in Container, immutable[d] PROVE Held(d)' = Held(d)
    BY <1>1, <1>2, <2>1 DEF Held, Child
  <2> QED BY <1>0, <1>1, <2>1 DEF SealedBelow
<1>6. CacheFresh'
  <2>1. \A d \in Container : immutable[d] => (ComputedHash')[d] = ComputedHash[d]
    BY <1>0, <1>1, <1>2, <1>3, FreshUnchanged
  <2> QED BY <1>0, <1>1, <2>1 DEF CacheFresh
<1> QED BY <1>3, <1>4, <1>5, <1>6 DEF CompareInv

LEMMA AddGood ==
  ASSUME CompareInv, NEW c \in Container, NEW x \in NodeFor(c), AddElement(c, x)
  PROVE  CompareInv'
<1>1. kind[c] = "array" /\ Change(c, Items(c, Append(items[c], x)))
  BY DEF AddElement, Change
<1>2. items[c] \in Seq(ItemOf(c)) /\ x \in ItemOf(c)
  BY <1>1 DEF CompareInv, WellFormed, ItemOf
<1>3. Append(items[c], x) \in Seq(ItemOf(c))
  BY <1>2
<1> QED BY <1>1, <1>3, Changed

LEMMA Removed ==
  ASSUME NEW R, NEW s \in Seq(R), NEW i \in DOMAIN s
  PROVE  RemoveAt(s, i) \in Seq(R)
<1>1. SubSeq(s, 1, i - 1) \in Seq(R) /\ SubSeq(s, i + 1, Len(s)) \in Seq(R)
  OBVIOUS
<1> QED BY <1>1 DEF RemoveAt

LEMMA RemoveGood ==
  ASSUME CompareInv, NEW c \in Container, NEW i \in 1 .. MaxItems, RemoveElement(c, i)
  PROVE  CompareInv'
<1>1. kind[c] = "array" /\ i \in DOMAIN items[c] /\ Change(c, Items(c, RemoveAt(items[c], i)))
  BY DEF RemoveElement, Change
<1>2. items[c] \in Seq(ItemOf(c))
  BY DEF CompareInv, WellFormed
<1>3. RemoveAt(items[c], i) \in Seq(ItemOf(c))
  BY <1>1, <1>2, Removed
<1> QED BY <1>1, <1>3, Changed

LEMMA StoreGood ==
  ASSUME CompareInv, NEW c \in Container, NEW n \in Names, NEW x \in NodeFor(c), StoreMember(c, n, x)
  PROVE  CompareInv'
<1>1. kind[c] = "object" /\ ~ immutable[c]
  BY DEF StoreMember, Change
<1>2. items[c] \in Seq(Names \X NodeFor(c)) /\ ItemOf(c) = Names \X NodeFor(c)
  BY <1>1 DEF CompareInv, WellFormed, ItemOf
<1>3. PICK s, m : s = items[c] /\ m = <<n, x>>
  OBVIOUS
<1>4. \A i, j \in DOMAIN s : s[i][1] = s[j][1] => i = j
  BY <1>1, <1>3 DEF CompareInv, NamedOnce
<1>5. s \in Seq(ItemOf(c)) /\ m \in ItemOf(c) /\ m[1] = n
  BY <1>2, <1>3
<1>6. CASE n \in NamesOf(c)
  <2> DEFINE t == [i \in DOMAIN s |-> IF s[i][1] = n THEN m ELSE s[i]]
  <2>1. Change(c, Items(c, t))
    BY <1>3, <1>6 DEF StoreMember, Change
  <2>2. t \in Seq(ItemOf(c))
    BY <1>5
  <2>3. \A i \in DOMAIN t : i \in DOMAIN s /\ t[i][1] = s[i][1]
    BY <1>5
  <2> HIDE DEF t
  <2>4. \A i, j \in DOMAIN t : t[i][1] = t[j][1] => i = j
    BY <1>4, <2>3
  <2> QED BY <2>1, <2>2, <2>4, Changed
<1>7. CASE n \notin NamesOf(c)
  <2> DEFINE t == Append(s, m)
  <2>1. Change(c, Items(c, t))
    BY <1>3, <1>7 DEF StoreMember, Change
  <2>2. t \in Seq(ItemOf(c)) /\ Len(s) \in Nat /\ DOMAIN s = 1 .. Len(s)
    BY <1>5
  <2>3. DOMAIN t = 1 .. Len(s) + 1 /\ t[Len(s) + 1] = m /\ \A i \in DOMAIN s : t[i] = s[i]
    BY <1>5
  <2>4. \A i \in DOMAIN s : s[i][1] # n
    BY <1>3, <1>7 DEF NamesOf
  <2> HIDE DEF t
  <2>5. \A i \in DOMAIN t : i \in DOMAIN s \/ i = Len(s) + 1
    BY <2>2, <2>3
  <2>6. \A i, j \in DOMAIN t : t[i][1] = t[j][1] => i = j
    BY <1>4, <1>5, <2>3, <2>4, <2>5
  <2> QED BY <2>1, <2>2, <2>6, Changed
<1> QED BY <1>6, <1>7

(* A seal reaches all that is not immutable yet.                           *)
LEMMA ReachedAll ==
  ASSUME WellFormed
  PROVE  \A c \in Container :
           /\ ~ immutable[c] => c \in Reached[c]
           /\ \A d \in Reached[c] : /\ d \in Container /\ ~ immutable[d]
                                    /\ \A e \in Held(d) : immutable[e] \/ e \in Reached[c]
<1> DEFINE Good(c) ==
             \A d \in Reached[c] : /\ d \in Container /\ ~ immutable[d]
                                   /\ \A e \in Held(d) : immutable[e] \/ e \in Reached[c]
           S == {c \in Container : Good(c)}
<1>1. \A c \in Container : Reached[c] = ReachedStep(c, Reached)
  BY ReachedIs
<1>2. \A c \in Container : ~ immutable[c] => c \in Reached[c]
  BY <1>1 DEF ReachedStep
<1>3. ASSUME NEW c \in Container, \A d \in Container : d > c => d \in S
      PROVE  Good(c)
  <2>1. SUFFICES ASSUME NEW d \in Reached[c]
                 PROVE  /\ d \in Container /\ ~ immutable[d]
                        /\ \A e \in Held(d) : immutable[e] \/ e \in Reached[c]
    OBVIOUS
  <2>2. ~ immutable[c] /\ Reached[c] = {c} \cup UNION {Reached[e] : e \in Held(c)}
    BY <1>1, <2>1 DEF ReachedStep
  <2>3. \A e \in Held(c) : e \in Container /\ Good(e)
    BY <1>3, HeldLater
  <2>4. CASE d = c
    BY <1>2, <2>2, <2>3, <2>4
  <2>5. CASE d # c
    <3>1. PICK e \in Held(c) : d \in Reached[e]
      BY <2>1, <2>2, <2>5
    <3>2. Reached[e] \subseteq Reached[c]
      BY <2>2
    <3> QED BY <2>3, <3>1, <3>2
  <2> QED BY <2>4, <2>5
<1>4. S = Container
  <2>1. S \in SUBSET Container
    OBVIOUS
  <2>2. \A c \in Container : (\A d \in Container : d > c => d \in S) => c \in S
    BY <1>3
  <2> HIDE DEF S
  <2> QED BY <2>1, <2>2, FromBelow
<1> QED BY <1>2, <1>4

LEMMA SealGood ==
  ASSUME CompareInv, NEW c \in Container, SealContainer(c)
  PROVE  CompareInv'
<1>0. WellFormed /\ NamedOnce /\ SealedBelow /\ CacheFresh
  BY DEF CompareInv
<1>1. /\ kind' = kind /\ items' = items
      /\ immutable' = [d \in Container |-> immutable[d] \/ d \in Reached[c]]
      /\ immutable_hash' = [d \in Container |-> IF d \in Reached[c] THEN ContainerHash[d] ELSE immutable_hash[d]]
  BY DEF SealContainer, SealHash
<1>2. WellFormed'
  <2>1. ASSUME NEW d \in Container PROVE ItemOf(d)' = ItemOf(d)
    BY <1>1 DEF ItemOf, NodeFor
  <2>2. \A d \in Container : items'[d] \in Seq(ItemOf(d)')
    BY <1>0, <1>1, <2>1 DEF WellFormed
  <2>3. immutable' \in [Container -> BOOLEAN] /\ immutable_hash' = [d \in Container |-> immutable_hash'[d]]
    BY <1>1
  <2> QED BY <1>0, <1>1, <2>2, <2>3 DEF WellFormed
<1>3. NamedOnce'
  BY <1>0, <1>1 DEF NamedOnce
<1>4. SealedBelow'
  <2>1. ASSUME NEW d \in Container PROVE Held(d)' = Held(d)
    BY <1>1 DEF Held, Child
  <2>2. ASSUME NEW d \in Container, immutable'[d], NEW e \in Held(d) PROVE immutable'[e]
    <3>1. e \in Container
      BY <1>0, HeldLater
    <3>2. CASE immutable[d]
      BY <1>0, <1>1, <2>2, <3>1, <3>2 DEF SealedBelow
    <3>3. CASE d \in Reached[c]
      BY <1>0, <1>1, <2>2, <3>1, <3>3, ReachedAll
    <3> QED BY <1>1, <2>2, <3>2, <3>3
  <2> QED BY <2>1, <2>2 DEF SealedBelow
<1>5. CacheFresh'
  <2>1. ComputedHash' = ComputedHash
    BY <1>1 DEF ComputedHash, HashFrom, ItemHash
  <2>2. ASSUME NEW d \in Container, immutable'[d] PROVE immutable_hash'[d] = ComputedHash[d]
    <3>1. CASE d \in Reached[c]
      BY <1>1, <3>1, KeptFresh
    <3>2. CASE d \notin Reached[c]
      BY <1>0, <1>1, <2>2, <3>2 DEF CacheFresh
    <3> QED BY <3>1, <3>2
  <2> QED BY <2>1, <2>2 DEF CacheFresh
<1> QED BY <1>2, <1>3, <1>4, <1>5 DEF CompareInv

LEMMA ReleaseGood ==
  ASSUME CompareInv, ReleaseAll
  PROVE  CompareInv'
<1>1. /\ kind' = kind /\ kind \in [Container -> {"array", "object"}]
      /\ items' = [c \in Container |-> <<>>]
      /\ immutable' = [c \in Container |-> FALSE]
      /\ immutable_hash' = [c \in Container |-> {}]
  BY DEF ReleaseAll, CompareInv, WellFormed
<1>2. \A c \in Container : items'[c] = <<>> /\ ~ immutable'[c]
  BY <1>1
<1>3. WellFormed'
  <2>1. \A c \in Container : items'[c] \in Seq(ItemOf(c)')
    BY <1>2, NothingIn
  <2> QED BY <1>1, <2>1 DEF WellFormed
<1>4. NamedOnce' /\ SealedBelow' /\ CacheFresh'
  BY <1>2 DEF NamedOnce, SealedBelow, CacheFresh
<1> QED BY <1>3, <1>4 DEF CompareInv

(* Whatever the client of arrays and objects does, they are well formed,   *)
(* members differ in their names, what is in an immutable container is     *)
(* immutable, and hashes that are kept are fresh.                          *)
THEOREM CompareInductive == CompareSpec => []CompareInv
<1>1. CompareInv /\ [CompareNext]_containers => CompareInv'
  <2> SUFFICES ASSUME CompareInv, [CompareNext]_containers PROVE CompareInv'
    OBVIOUS
  <2>1. CASE UNCHANGED containers
    <3>1. /\ kind' = kind /\ items' = items
          /\ immutable' = immutable /\ immutable_hash' = immutable_hash
      BY <2>1 DEF containers
    <3>2. \A c \in Container : ItemOf(c)' = ItemOf(c) /\ Held(c)' = Held(c)
      BY <3>1 DEF ItemOf, NodeFor, Held, Child
    <3>3. ComputedHash' = ComputedHash
      BY <3>1 DEF ComputedHash, HashFrom, ItemHash
    <3>4. WellFormed' /\ NamedOnce'
      BY <3>1, <3>2 DEF CompareInv, WellFormed, NamedOnce
    <3>5. SealedBelow' /\ CacheFresh'
      BY <3>1, <3>2, <3>3 DEF CompareInv, SealedBelow, CacheFresh
    <3> QED BY <3>4, <3>5 DEF CompareInv
  <2>2. CASE CompareNext
    BY <2>2, AddGood, StoreGood, RemoveGood, SealGood, ReleaseGood DEF CompareNext
  <2> QED BY <2>1, <2>2
<1> QED BY <1>1, InitGood, PTL DEF CompareSpec

(* The hash that json_array_seal or json_object_seal keeps stays that of   *)
(* what the container holds.                                               *)
THEOREM CacheStaysFresh == CompareSpec => []CacheFresh
<1>1. CompareInv => CacheFresh
  BY DEF CompareInv
<1> QED BY <1>1, CompareInductive, PTL

-----------------------------------------------------------------------------
(* EqualHash. *)

LEMMA NamesCount ==
  ASSUME WellFormed, NamedOnce, NEW c \in Container, kind[c] = "object"
  PROVE  LET name == [i \in DOMAIN items[c] |-> items[c][i][1]]
         IN  /\ name \in Bijection(DOMAIN items[c], NamesOf(c))
             /\ IsFiniteSet(NamesOf(c)) /\ IsFiniteSet(DOMAIN items[c])
             /\ Cardinality(NamesOf(c)) = Len(items[c])
             /\ Len(items[c]) \in Nat
             /\ DOMAIN items[c] = 1 .. Len(items[c])
<1> DEFINE name == [i \in DOMAIN items[c] |-> items[c][i][1]]
<1>1. items[c] \in Seq(ItemOf(c))
  BY DEF WellFormed
<1>2. Len(items[c]) \in Nat /\ DOMAIN items[c] = 1 .. Len(items[c])
  BY <1>1
<1>3. name \in Bijection(DOMAIN items[c], NamesOf(c))
  <2>1. name \in [DOMAIN items[c] -> NamesOf(c)]
    BY DEF NamesOf
  <2>2. \A i, j \in DOMAIN items[c] : name[i] = name[j] => i = j
    BY DEF NamedOnce
  <2>3. \A n \in NamesOf(c) : \E i \in DOMAIN items[c] : name[i] = n
    BY DEF NamesOf
  <2> HIDE DEF name
  <2> QED BY <2>1, <2>2, <2>3 DEF Bijection, Injection, Surjection, IsInjective
<1>4. IsFiniteSet(DOMAIN items[c]) /\ Cardinality(DOMAIN items[c]) = Len(items[c])
  <2>1. PICK n \in Nat : n = Len(items[c]) /\ DOMAIN items[c] = 1 .. n
    BY <1>2
  <2>2. IsFiniteSet(1 .. n) /\ Cardinality(1 .. n) = IF 1 > n THEN 0 ELSE n - 1 + 1
    BY FS_Interval
  <2> QED BY <2>1, <2>2
<1>5. ExistsBijection(DOMAIN items[c], NamesOf(c))
  BY <1>3 DEF ExistsBijection
<1> QED BY <1>2, <1>3, <1>4, <1>5, FS_Bijection

(* A member is what the object has under its name.                         *)
LEMMA MemberThere ==
  ASSUME WellFormed, NamedOnce, NEW c \in Container, kind[c] = "object"
  PROVE  /\ \A i \in DOMAIN items[c] : MemberOf(c, items[c][i][1]) = Child(items[c][i], c)
         /\ \A n \in NamesOf(c) : \E i \in DOMAIN items[c] :
              items[c][i][1] = n /\ MemberOf(c, n) = Child(items[c][i], c)
<1>1. \A i \in DOMAIN items[c] : MemberOf(c, items[c][i][1]) = Child(items[c][i], c)
  BY ChildIs DEF MemberOf, NamedOnce
<1> QED BY <1>1 DEF NamesOf

(* The order of hashes does not matter to their XOR.                       *)
LEMMA XorPermuted ==
  ASSUME NEW h, NEW k, IsFiniteSet(DOMAIN h), NEW p \in Bijection(DOMAIN h, DOMAIN k),
         \A i \in DOMAIN h : k[p[i]] = h[i]
  PROVE  XorAll(h) = XorAll(k)
<1>1. /\ \A i \in DOMAIN h : p[i] \in DOMAIN k
      /\ \A j \in DOMAIN k : \E i \in DOMAIN h : p[i] = j
      /\ \A i, j \in DOMAIN h : p[i] = p[j] => i = j
  BY DEF Bijection, Injection, Surjection, IsInjective
<1>2. UNION {h[i] : i \in DOMAIN h} = UNION {k[j] : j \in DOMAIN k}
  BY <1>1
<1>3. ASSUME NEW w
      PROVE  Cardinality({i \in DOMAIN h : w \in h[i]}) = Cardinality({j \in DOMAIN k : w \in k[j]})
  <2>1. PICK A, B : A = {i \in DOMAIN h : w \in h[i]} /\ B = {j \in DOMAIN k : w \in k[j]}
    OBVIOUS
  <2> DEFINE q == [i \in A |-> p[i]]
  <2>2. q \in [A -> B]
    BY <1>1, <2>1
  <2>3. \A i, j \in A : q[i] = q[j] => i = j
    BY <1>1, <2>1
  <2>4. \A j \in B : \E i \in A : q[i] = j
    BY <1>1, <2>1
  <2> HIDE DEF q
  <2>5. q \in Bijection(A, B)
    BY <2>2, <2>3, <2>4 DEF Bijection, Injection, Surjection, IsInjective
  <2>6. ExistsBijection(A, B)
    BY <2>5 DEF ExistsBijection
  <2>7. IsFiniteSet(A)
    BY <2>1, FS_Subset
  <2> QED BY <2>1, <2>6, <2>7, FS_Bijection
<1> DEFINE N(f, w) == Cardinality({i \in DOMAIN f : w \in f[i]})
<1>4. \A w : N(h, w) = N(k, w)
  BY <1>3
<1>5. XorAll(h) = {w \in UNION {h[i] : i \in DOMAIN h} : N(h, w) % 2 = 1}
  BY DEF XorAll
<1>6. XorAll(k) = {w \in UNION {k[j] : j \in DOMAIN k} : N(k, w) % 2 = 1}
  BY DEF XorAll
<1> HIDE DEF N
<1> QED BY <1>2, <1>4, <1>5, <1>6

(* The hash of an object, by the names of its members.                     *)
LEMMA HashByName ==
  ASSUME WellFormed, NamedOnce, NEW c \in Container, kind[c] = "object", NEW h
  PROVE  HashFrom(c, h)
           = XorAll([n \in NamesOf(c) |-> Xor({<<"name", n>>}, NodeHash(MemberOf(c, n), h))])
<1> DEFINE a == [i \in DOMAIN items[c] |-> ItemHash(c, i, h)]
           b == [n \in NamesOf(c) |-> Xor({<<"name", n>>}, NodeHash(MemberOf(c, n), h))]
           p == [i \in DOMAIN items[c] |-> items[c][i][1]]
<1>1. p \in Bijection(DOMAIN a, DOMAIN b) /\ IsFiniteSet(DOMAIN a)
  BY NamesCount
<1>2. ASSUME NEW i \in DOMAIN a PROVE b[p[i]] = a[i]
  <2>1. i \in DOMAIN items[c] /\ p[i] = items[c][i][1] /\ items[c][i][1] \in NamesOf(c)
    BY DEF NamesOf
  <2>2. MemberOf(c, items[c][i][1]) = items[c][i][2]
    BY <2>1, MemberThere, ChildIs
  <2>3. a[i] = Xor({<<"name", items[c][i][1]>>}, NodeHash(items[c][i][2], h))
    BY <2>1 DEF ItemHash, MemberHash
  <2> QED BY <2>1, <2>2, <2>3
<1> HIDE DEF a, b, p
<1>3. XorAll(a) = XorAll(b)
  BY <1>1, <1>2, XorPermuted
<1> QED BY <1>3 DEF HashFrom, a, b

(* What the tables say of two nodes, given what they say of containers.    *)
SameTree(c, d) == kind[c] = kind[d] /\ Tree[c] = Tree[d]
Agreed(c, d) == Equals[c][d] /\ ComputedHash[c] = ComputedHash[d]
Numbers(c, d) == Number \subseteq Types[c] \cup Types[d]

LEMMA NodesAgree ==
  ASSUME WellFormed, NEW c \in Container, NEW d \in Container,
         \A e, f \in Container : e > c /\ SameTree(e, f) => Agreed(e, f),
         NEW x \in NodeFor(c), NEW y \in NodeFor(d), NodeTree(x, Tree) = NodeTree(y, Tree)
  PROVE  EqualNodes(x, y, Equals) /\ NodeHash(x, ComputedHash) = NodeHash(y, ComputedHash)
<1>1. /\ \/ HoldsContainer(x) /\ x[2] \in Container /\ x[2] > c /\ x = <<kind[x[2]], x[2]>>
         \/ ~ HoldsContainer(x)
      /\ \/ HoldsContainer(y) /\ y[2] \in Container /\ y = <<kind[y[2]], y[2]>>
         \/ ~ HoldsContainer(y)
  BY NodeIs
<1>2. CASE HoldsContainer(x)
  <2>1. NodeTree(x, Tree)[1] = x[1]
    BY <1>2 DEF NodeTree
  <2>2. HoldsContainer(y)
    BY <1>2, <2>1 DEF NodeTree, HoldsContainer
  <2>3. x[1] = y[1] /\ Tree[x[2]] = Tree[y[2]]
    BY <1>2, <2>2 DEF NodeTree
  <2>4. x[1] = kind[x[2]] /\ y[1] = kind[y[2]] /\ x[2] \in Container /\ x[2] > c /\ y[2] \in Container
    BY <1>1, <1>2, <2>2
  <2>5. Agreed(x[2], y[2])
    BY <2>3, <2>4 DEF SameTree
  <2>6. x[1] # "null"
    BY <1>2 DEF HoldsContainer
  <2> QED BY <1>2, <2>2, <2>3, <2>5, <2>6 DEF Agreed, EqualNodes, NodeHash, Comparable
<1>3. CASE ~ HoldsContainer(x)
  <2>1. ~ HoldsContainer(y)
    BY <1>3 DEF NodeTree, HoldsContainer
  <2>2. x = y
    BY <1>3, <2>1 DEF NodeTree
  <2> QED BY <1>3, <2>2 DEF EqualNodes, NodeHash, Comparable
<1> QED BY <1>2, <1>3

LEMMA NodesEqual ==
  ASSUME WellFormed, NEW c \in Container, NEW d \in Container,
         \A e, f \in Container :
           e > c /\ kind[e] = kind[f] /\ Equals[e][f] => Tree[e] = Tree[f] \/ Numbers(e, f),
         NEW x \in NodeFor(c), NEW y \in NodeFor(d), EqualNodes(x, y, Equals)
  PROVE  \/ NodeTree(x, Tree) = NodeTree(y, Tree)
         \/ Number \subseteq NodeTypes(x, Types) \cup NodeTypes(y, Types)
<1>1. /\ \/ HoldsContainer(x) /\ x[2] \in Container /\ x[2] > c /\ x = <<kind[x[2]], x[2]>>
         \/ ~ HoldsContainer(x) /\ (x # <<"null">> => x[1] \in Scalar /\ x = <<x[1], x[2]>>)
      /\ \/ HoldsContainer(y) /\ y[2] \in Container /\ y = <<kind[y[2]], y[2]>>
         \/ ~ HoldsContainer(y) /\ (y # <<"null">> => y[1] \in Scalar /\ y = <<y[1], y[2]>>)
  BY NodeIs
<1>2. CASE x[1] = y[1] /\ HoldsContainer(x)
  <2>1. HoldsContainer(y) /\ x[1] # "null"
    BY <1>2 DEF HoldsContainer
  <2>2. x[1] = kind[x[2]] /\ y[1] = kind[y[2]] /\ x[2] \in Container /\ x[2] > c /\ y[2] \in Container
    BY <1>1, <1>2, <2>1
  <2>3. Equals[x[2]][y[2]]
    BY <1>2, <2>1 DEF EqualNodes
  <2>4. Tree[x[2]] = Tree[y[2]] \/ Numbers(x[2], y[2])
    BY <1>2, <2>2, <2>3
  <2> QED BY <1>2, <2>1, <2>4 DEF NodeTree, NodeTypes, Numbers
<1>3. CASE x[1] = y[1] /\ ~ HoldsContainer(x)
  <2>1. ~ HoldsContainer(y)
    BY <1>3 DEF HoldsContainer
  <2>2. <<"null">>[1] = "null" /\ "null" \notin Scalar
    BY DEF Scalar
  <2>3. CASE x[1] = "null"
    <3>1. x = <<"null">> /\ y = <<"null">>
      BY <1>1, <1>3, <2>1, <2>2, <2>3
    <3> QED BY <1>3, <2>1, <3>1 DEF NodeTree
  <2>4. CASE x[1] # "null"
    <3>1. x = <<x[1], x[2]>> /\ y = <<y[1], y[2]>>
      BY <1>1, <1>3, <2>1, <2>2, <2>4
    <3>2. x[2] = y[2]
      BY <1>3, <2>4 DEF EqualNodes
    <3>3. x = y
      BY <1>3, <3>1, <3>2
    <3> QED BY <1>3, <3>3 DEF NodeTree
  <2> QED BY <2>3, <2>4
<1>4. CASE x[1] # y[1]
  <2>1. {x[1], y[1]} = Number
    BY <1>4 DEF EqualNodes, Comparable
  <2>2. x[1] \in Number /\ y[1] \in Number
    BY <2>1
  <2>3. ~ HoldsContainer(x) /\ ~ HoldsContainer(y)
    BY <2>2 DEF Number, HoldsContainer
  <2> QED BY <2>1, <2>3 DEF NodeTypes
<1> QED BY <1>2, <1>3, <1>4

(* Two containers of the same tree, given that what is below agrees.       *)
LEMMA TreesAgree ==
  ASSUME WellFormed, NamedOnce, NEW c \in Container, NEW d \in Container, SameTree(c, d),
         \A e, f \in Container : e > c /\ SameTree(e, f) => Agreed(e, f)
  PROVE  Agreed(c, d)
<1> DEFINE x(i) == Child(items[c][i], c)
           y(i) == Child(items[d][i], d)
<1>1. Tree[c] = TreeStep(c, Tree) /\ Tree[d] = TreeStep(d, Tree) /\ kind[c] = kind[d]
  BY TreeIs DEF SameTree
<1>2. ComputedHash[c] = HashFrom(c, ComputedHash) /\ ComputedHash[d] = HashFrom(d, ComputedHash)
  BY ComputedIs
<1>3. Equals[c][d] <=> c = d \/ EqualItems(c, d, Equals)
  BY EqualsIs DEF EqualStep
<1>4. items[c] \in Seq(ItemOf(c)) /\ items[d] \in Seq(ItemOf(d))
  BY DEF WellFormed
<1>5. CASE kind[c] = "array"
  <2>1. /\ Tree[c] = [i \in DOMAIN items[c] |-> Under(c, i, Tree)]
        /\ Tree[d] = [i \in DOMAIN items[d] |-> Under(d, i, Tree)]
    BY <1>1, <1>5 DEF TreeStep
  <2>2. DOMAIN Tree[c] = DOMAIN items[c] /\ DOMAIN Tree[d] = DOMAIN items[d]
    BY <2>1
  <2>3. DOMAIN items[c] = DOMAIN items[d] /\ Len(items[c]) = Len(items[d])
    BY <1>4, <2>2 DEF SameTree
  <2>4. ASSUME NEW i \in DOMAIN items[c]
        PROVE  /\ EqualNodes(items[c][i], items[d][i], Equals)
               /\ NodeHash(items[c][i], ComputedHash) = NodeHash(items[d][i], ComputedHash)
    <3>1. Under(c, i, Tree) = Under(d, i, Tree)
      <4>1. Tree[c][i] = Under(c, i, Tree) /\ Tree[d][i] = Under(d, i, Tree)
        BY <2>1, <2>3
      <4> QED BY <4>1 DEF SameTree
    <3>2. x(i) = items[c][i] /\ x(i) \in NodeFor(c)
      BY <1>5, ChildIs
    <3>3. y(i) = items[d][i] /\ y(i) \in NodeFor(d)
      BY <1>1, <1>5, <2>3, ChildIs
    <3>4. NodeTree(x(i), Tree) = NodeTree(y(i), Tree)
      BY <3>1 DEF Under
    <3> HIDE DEF x, y
    <3>5. EqualNodes(x(i), y(i), Equals) /\ NodeHash(x(i), ComputedHash) = NodeHash(y(i), ComputedHash)
      BY <3>2, <3>3, <3>4, NodesAgree
    <3> QED BY <3>2, <3>3, <3>5
  <2>5. EqualItems(c, d, Equals)
    BY <1>5, <2>3, <2>4 DEF EqualItems
  <2>6. \A i \in DOMAIN items[c] : ItemHash(c, i, ComputedHash) = ItemHash(d, i, ComputedHash)
    BY <1>1, <1>5, <2>4 DEF ItemHash
  <2>7. [i \in DOMAIN items[c] |-> ItemHash(c, i, ComputedHash)]
          = [i \in DOMAIN items[d] |-> ItemHash(d, i, ComputedHash)]
    BY <2>3, <2>6
  <2>8. HashFrom(c, ComputedHash) = HashFrom(d, ComputedHash)
    BY <2>7 DEF HashFrom
  <2> QED BY <1>2, <1>3, <2>5, <2>8 DEF Agreed
<1>6. CASE kind[c] = "object"
  <2>0. kind[d] = "object" /\ kind[c] # "array" /\ kind[d] # "array"
    BY <1>1, <1>6
  <2>1. /\ Tree[c] = {<<items[c][i][1], Under(c, i, Tree)>> : i \in DOMAIN items[c]}
        /\ Tree[d] = {<<items[d][i][1], Under(d, i, Tree)>> : i \in DOMAIN items[d]}
    BY <1>1, <2>0 DEF TreeStep
  <2>2. ASSUME NEW i \in DOMAIN items[c]
        PROVE  \E j \in DOMAIN items[d] :
                 items[d][j][1] = items[c][i][1] /\ Under(d, j, Tree) = Under(c, i, Tree)
    <3>1. <<items[c][i][1], Under(c, i, Tree)>> \in Tree[d]
      BY <2>1 DEF SameTree
    <3> QED BY <2>1, <3>1
  <2>3. ASSUME NEW j \in DOMAIN items[d]
        PROVE  \E i \in DOMAIN items[c] : items[c][i][1] = items[d][j][1]
    <3>1. <<items[d][j][1], Under(d, j, Tree)>> \in Tree[c]
      BY <2>1 DEF SameTree
    <3> QED BY <2>1, <3>1
  <2>4. NamesOf(c) = NamesOf(d)
    BY <2>2, <2>3 DEF NamesOf
  <2>5. Len(items[c]) = Len(items[d])
    BY <1>6, <2>0, <2>4, NamesCount
  <2>6. ASSUME NEW n \in NamesOf(c)
        PROVE  /\ EqualNodes(MemberOf(c, n), MemberOf(d, n), Equals)
               /\ NodeHash(MemberOf(c, n), ComputedHash) = NodeHash(MemberOf(d, n), ComputedHash)
    <3>1. PICK i \in DOMAIN items[c] : items[c][i][1] = n /\ MemberOf(c, n) = x(i)
      BY <1>6, MemberThere
    <3>2. PICK j \in DOMAIN items[d] : items[d][j][1] = n /\ Under(d, j, Tree) = Under(c, i, Tree)
      BY <2>2, <3>1
    <3>3. MemberOf(d, n) = y(j)
      BY <2>0, <3>2, MemberThere
    <3>4. NodeTree(x(i), Tree) = NodeTree(y(j), Tree)
      BY <3>2 DEF Under
    <3>5. x(i) \in NodeFor(c) /\ y(j) \in NodeFor(d)
      BY ChildIs
    <3> HIDE DEF x, y
    <3>6. EqualNodes(x(i), y(j), Equals) /\ NodeHash(x(i), ComputedHash) = NodeHash(y(j), ComputedHash)
      BY <3>4, <3>5, NodesAgree
    <3> QED BY <3>1, <3>3, <3>6
  <2>7. EqualItems(c, d, Equals)
    BY <2>0, <2>4, <2>5, <2>6 DEF EqualItems
  <2>8. [n \in NamesOf(c) |-> Xor({<<"name", n>>}, NodeHash(MemberOf(c, n), ComputedHash))]
          = [n \in NamesOf(d) |-> Xor({<<"name", n>>}, NodeHash(MemberOf(d, n), ComputedHash))]
    BY <2>4, <2>6
  <2>9. HashFrom(c, ComputedHash) = HashFrom(d, ComputedHash)
    BY <1>6, <2>0, <2>8, HashByName
  <2> QED BY <1>2, <1>3, <2>7, <2>9 DEF Agreed
<1> QED BY <1>5, <1>6 DEF WellFormed

(* Two containers that are equal, given that so it is below.               *)
LEMMA EqualTrees ==
  ASSUME WellFormed, NamedOnce, NEW c \in Container, NEW d \in Container,
         kind[c] = kind[d], Equals[c][d],
         \A e, f \in Container :
           e > c /\ kind[e] = kind[f] /\ Equals[e][f] => Tree[e] = Tree[f] \/ Numbers(e, f)
  PROVE  Tree[c] = Tree[d] \/ Numbers(c, d)
<1> DEFINE x(i) == Child(items[c][i], c)
           y(i) == Child(items[d][i], d)
<1>1. Tree[c] = TreeStep(c, Tree) /\ Tree[d] = TreeStep(d, Tree)
  BY TreeIs
<1>2. /\ \A i \in DOMAIN items[c] : NodeTypes(x(i), Types) \subseteq Types[c]
      /\ \A i \in DOMAIN items[d] : NodeTypes(y(i), Types) \subseteq Types[d]
  BY TypesIs DEF TypesStep
<1>3. SUFFICES ASSUME c # d, ~ Numbers(c, d) PROVE Tree[c] = Tree[d]
  OBVIOUS
<1>4. EqualItems(c, d, Equals)
  BY <1>3, EqualsIs DEF EqualStep
<1>5. items[c] \in Seq(ItemOf(c)) /\ items[d] \in Seq(ItemOf(d))
  BY DEF WellFormed
<1>6. ASSUME NEW i \in DOMAIN items[c], NEW j \in DOMAIN items[d], EqualNodes(x(i), y(j), Equals)
      PROVE  Under(c, i, Tree) = Under(d, j, Tree)
  <2>1. x(i) \in NodeFor(c) /\ y(j) \in NodeFor(d)
    BY ChildIs
  <2>2. NodeTypes(x(i), Types) \subseteq Types[c] /\ NodeTypes(y(j), Types) \subseteq Types[d]
    BY <1>2
  <2>3. Under(c, i, Tree) = NodeTree(x(i), Tree) /\ Under(d, j, Tree) = NodeTree(y(j), Tree)
    BY DEF Under
  <2> HIDE DEF x, y
  <2>4. \/ NodeTree(x(i), Tree) = NodeTree(y(j), Tree)
        \/ Number \subseteq NodeTypes(x(i), Types) \cup NodeTypes(y(j), Types)
    BY <1>6, <2>1, NodesEqual
  <2> QED BY <1>3, <2>2, <2>3, <2>4 DEF Numbers
<1>7. CASE kind[c] = "array"
  <2>1. Len(items[c]) = Len(items[d]) /\ DOMAIN items[c] = DOMAIN items[d]
    BY <1>4, <1>5 DEF EqualItems
  <2>2. ASSUME NEW i \in DOMAIN items[c] PROVE Under(c, i, Tree) = Under(d, i, Tree)
    <3>1. EqualNodes(items[c][i], items[d][i], Equals)
      BY <1>4, <1>7 DEF EqualItems
    <3>2. items[c][i] = x(i) /\ items[d][i] = y(i) /\ i \in DOMAIN items[d]
      BY <1>7, <2>1, ChildIs
    <3> QED BY <1>6, <3>1, <3>2
  <2> QED BY <1>1, <1>7, <2>1, <2>2 DEF TreeStep
<1>8. CASE kind[c] = "object"
  <2>0. kind[d] = "object" /\ kind[c] # "array" /\ kind[d] # "array"
    BY <1>8
  <2>1. /\ Len(items[c]) = Len(items[d]) /\ NamesOf(c) \subseteq NamesOf(d)
        /\ \A n \in NamesOf(c) : EqualNodes(MemberOf(c, n), MemberOf(d, n), Equals)
    BY <1>4, <2>0 DEF EqualItems
  <2>2. NamesOf(c) = NamesOf(d)
    <3>1. /\ IsFiniteSet(NamesOf(d)) /\ Cardinality(NamesOf(d)) = Len(items[d])
          /\ Cardinality(NamesOf(c)) = Len(items[c])
      BY <1>8, <2>0, NamesCount
    <3> QED BY <2>1, <3>1, FS_Subset
  <2>3. ASSUME NEW i \in DOMAIN items[c], NEW j \in DOMAIN items[d], items[c][i][1] = items[d][j][1]
        PROVE  Under(c, i, Tree) = Under(d, j, Tree)
    <3>1. items[c][i][1] \in NamesOf(c)
      BY DEF NamesOf
    <3>2. MemberOf(c, items[c][i][1]) = x(i)
      BY <1>8, MemberThere
    <3>3. MemberOf(d, items[d][j][1]) = y(j)
      BY <2>0, MemberThere
    <3> HIDE DEF x, y
    <3> QED BY <1>6, <2>1, <2>3, <3>1, <3>2, <3>3
  <2>4. /\ \A i \in DOMAIN items[c] : \E j \in DOMAIN items[d] : items[c][i][1] = items[d][j][1]
        /\ \A j \in DOMAIN items[d] : \E i \in DOMAIN items[c] : items[c][i][1] = items[d][j][1]
    BY <2>2 DEF NamesOf
  <2>5. {<<items[c][i][1], Under(c, i, Tree)>> : i \in DOMAIN items[c]}
          = {<<items[d][i][1], Under(d, i, Tree)>> : i \in DOMAIN items[d]}
    BY <2>3, <2>4
  <2> QED BY <1>1, <2>0, <2>5 DEF TreeStep
<1> QED BY <1>7, <1>8 DEF WellFormed

LEMMA Consistent ==
  ASSUME CompareInv PROVE EqualHash
<1>0. WellFormed /\ NamedOnce /\ CacheFresh
  BY DEF CompareInv
<1>1. \A c, d \in Container : SameTree(c, d) => Agreed(c, d)
  <2> DEFINE S == {c \in Container : \A d \in Container : SameTree(c, d) => Agreed(c, d)}
  <2>1. ASSUME NEW c \in Container, \A d \in Container : d > c => d \in S
        PROVE  c \in S
    <3>1. \A e, f \in Container : e > c /\ SameTree(e, f) => Agreed(e, f)
      BY <2>1
    <3> QED BY <1>0, <3>1, TreesAgree
  <2>2. S \in SUBSET Container
    OBVIOUS
  <2>3. S = Container
    <3> HIDE DEF S
    <3> QED BY <2>1, <2>2, FromBelow
  <2> QED BY <2>3
<1>2. \A c, d \in Container : kind[c] = kind[d] /\ Equals[c][d] => Tree[c] = Tree[d] \/ Numbers(c, d)
  <2> DEFINE S == {c \in Container : \A d \in Container :
                     kind[c] = kind[d] /\ Equals[c][d] => Tree[c] = Tree[d] \/ Numbers(c, d)}
  <2>1. ASSUME NEW c \in Container, \A d \in Container : d > c => d \in S
        PROVE  c \in S
    <3>1. \A e, f \in Container :
            e > c /\ kind[e] = kind[f] /\ Equals[e][f] => Tree[e] = Tree[f] \/ Numbers(e, f)
      BY <2>1
    <3> QED BY <1>0, <3>1, EqualTrees
  <2>2. S \in SUBSET Container
    OBVIOUS
  <2>3. S = Container
    <3> HIDE DEF S
    <3> QED BY <2>1, <2>2, FromBelow
  <2> QED BY <2>3
<1>3. SUFFICES ASSUME NEW c \in Container, NEW d \in Container, NEW x, NEW y,
                      x = <<kind[c], c>>, y = <<kind[d], d>>
               PROVE  /\ NodeTree(x, Tree) = NodeTree(y, Tree) => Equal(x, y) /\ Hash(c) = Hash(d)
                      /\ Equal(x, y) => \/ NodeTree(x, Tree) = NodeTree(y, Tree)
                                        \/ Number \subseteq Types[c] \cup Types[d]
  BY DEF EqualHash
<1>4. /\ x[1] = kind[c] /\ x[2] = c /\ y[1] = kind[d] /\ y[2] = d
      /\ HoldsContainer(x) /\ HoldsContainer(y) /\ x[1] # "null"
      /\ {x[1], y[1]} # Number
  BY <1>0, <1>3 DEF WellFormed, HoldsContainer, Number
<1>5. NodeTree(x, Tree) = <<kind[c], Tree[c]>> /\ NodeTree(y, Tree) = <<kind[d], Tree[d]>>
  BY <1>4 DEF NodeTree
<1>6. NodeTree(x, Tree) = NodeTree(y, Tree) <=> SameTree(c, d)
  BY <1>5 DEF SameTree
<1>7. Equal(x, y) <=> kind[c] = kind[d] /\ Equals[c][d]
  BY <1>4 DEF Equal, EqualNodes, Comparable
<1>8. ContainerHash[c] = ComputedHash[c] /\ ContainerHash[d] = ComputedHash[d]
  BY KeptFresh
<1>9. SameTree(c, d) => Equal(x, y) /\ Hash(c) = Hash(d)
  <2>1. SUFFICES ASSUME SameTree(c, d) PROVE Equal(x, y) /\ Hash(c) = Hash(d)
    OBVIOUS
  <2>2. Equals[c][d] /\ ComputedHash[c] = ComputedHash[d] /\ kind[c] = kind[d]
    BY <1>1, <2>1 DEF Agreed, SameTree
  <2>3. Hash(c) = Xor({<<"type", kind[c]>>}, ContainerHash[c])
    BY <1>3, <1>4 DEF Hash, NodeHash
  <2>4. Hash(d) = Xor({<<"type", kind[d]>>}, ContainerHash[d])
    BY <1>3, <1>4, <2>2 DEF Hash, NodeHash
  <2> QED BY <1>7, <1>8, <2>2, <2>3, <2>4
<1>10. Equal(x, y) => SameTree(c, d) \/ Numbers(c, d)
  BY <1>2, <1>7 DEF SameTree
<1> QED BY <1>6, <1>9, <1>10 DEF Numbers

(* json_node_equal and json_node_hash agree with each other and with the   *)
(* trees, sealed or not, but for ints compared with doubles.               *)
THEOREM EqualHashSame == CompareSpec => []EqualHash
<1>1. CompareInv => EqualHash
  BY Consistent
<1> QED BY <1>1, CompareInductive, PTL
=============================================================================
