------------------------- MODULE JsonParserProofs --------------------------
(* Theorems about JsonParser, for texts of any length and any depth: the   *)
(* state is well-formed, what an immutable parser builds is immutable,     *)
(* every node knows the node that holds it, a load that succeeds has       *)
(* understood its text, and one that fails does so at the first token      *)
(* with which no text of the language begins, or nested too deep.          *)
(*                                                                         *)
(* Tree: the invariant says besides that the tree is one.  A node being    *)
(* parsed is apart: it is mutable, no two calls have the same, and neither *)
(* the root nor any container holds it; the element that was parsed last   *)
(* is loose, and nothing holds the root.  Without this, to give a node its *)
(* parent, or what it contains, could undo what is known of another.       *)
(*                                                                         *)
(* Text: the parser has a stack and one token of lookahead, and JsonText   *)
(* splits a complete sequence.  What relates them is said of every text    *)
(* that goes on from what has been consumed: where each frame begins in    *)
(* it, a reading of the list of the frame so far, and where the part under *)
(* way begins.  The same readings say what was heard (Sounds), and the     *)
(* shapes of the nodes (Trees).  Lists and Shape are recursive functions,  *)
(* and there is one solution of each of their equations.                   *)
(*                                                                         *)
(* Refusal: of every text that goes on, its values and lists split it in   *)
(* places of which each must be a place of the parser.  So a text that can *)
(* still be completed has a way on from where the parser is, and a token   *)
(* that does not fit the innermost frame is on no way (Possible).          *)
EXTENDS JsonParser, SequenceTheorems, WellFoundedInduction, TLAPS

Held(c) ==
  \/ \E n \in DOMAIN nodes : \E i \in DOMAIN nodes[n].items : nodes[n].items[i].item = c
  \/ \E k \in DOMAIN frames : \E i \in DOMAIN frames[k].items : frames[k].items[i].item = c

OpenApart ==
  \A k \in DOMAIN frames :
    /\ ~ nodes[frames[k].node].sealed /\ ~ Held(frames[k].node) /\ frames[k].node # root
    /\ \A l \in DOMAIN frames : frames[k].node = frames[l].node => k = l

ElementLoose ==
  \A k \in DOMAIN frames : frames[k].elem # NULL =>
    /\ k = Len(frames) /\ ~ Held(frames[k].elem) /\ frames[k].elem # root
    /\ \A l \in DOMAIN frames : frames[l].node # frames[k].elem

RootAbove ==
  /\ root # NULL => ~ Held(root)
  /\ multi /\ root # NULL => nodes[root].items # <<>> /\ ~ nodes[root].sealed

(* The types of the tree and of the frames, and those of the rest.         *)
Typed ==
  /\ nodes \in Seq(Nodes) /\ frames \in Seq(Frames)
  /\ root \in DOMAIN nodes \cup {NULL} /\ multi \in BOOLEAN /\ immutable \in BOOLEAN
  /\ multi => root = NULL \/ nodes[root].kind = "["
  /\ \A i \in DOMAIN frames :
       /\ frames[i].at \in {"sep", "comma"} <=> frames[i].elem # NULL
       /\ frames[i].name # NULL => frames[i].kind = "{"

Settled ==
  /\ state \in {"idle", "statement", "name", "equals", "inside", "after"}
  /\ state = "inside" <=> frames # <<>>
  /\ vars \in Nat /\ outcome \in Codes \cup {"ok"}
  /\ multi /\ state # "idle" => root # NULL

Heard ==
  /\ look \in Token \cup {NULL} /\ text \in Seq(Token)
  /\ result \in BOOLEAN \cup {NULL}

Good ==
  /\ Typed
  /\ SealedAsBuilt /\ ParentKnown
  /\ OpenApart /\ ElementLoose /\ RootAbove

IInv == Good /\ Settled /\ Heard

-----------------------------------------------------------------------------
(* Sequences                                                               *)

(* Append adds one entry, behind the others.                               *)
LEMMA Appended ==
  ASSUME NEW S, NEW s \in Seq(S), NEW x
  PROVE  /\ Len(Append(s, x)) = Len(s) + 1 /\ DOMAIN Append(s, x) = 1 .. (Len(s) + 1)
         /\ DOMAIN s = 1 .. Len(s) /\ Len(s) \in Nat
         /\ Append(s, x)[Len(s) + 1] = x
         /\ \A i \in DOMAIN s : Append(s, x)[i] = s[i]
  OBVIOUS

(* Front(s) is s without its last entry.                                   *)
LEMMA Shortened ==
  ASSUME NEW S, NEW s \in Seq(S), s # <<>>
  PROVE  /\ Front(s) \in Seq(S) /\ Len(Front(s)) = Len(s) - 1 /\ Len(s) \in Nat \ {0}
         /\ \A i \in DOMAIN Front(s) : i \in DOMAIN s /\ i # Len(s) /\ Front(s)[i] = s[i]
         /\ DOMAIN s = 1 .. Len(s) /\ DOMAIN Front(s) = 1 .. (Len(s) - 1)
         /\ Last(s) = s[Len(s)] /\ Last(s) \in S
<1>1. Len(s) \in Nat \ {0} /\ DOMAIN s = 1 .. Len(s)
  OBVIOUS
<1>2. /\ Front(s) \in Seq(S) /\ Len(Front(s)) = Len(s) - 1
      /\ \A i \in 1 .. (Len(s) - 1) : Front(s)[i] = s[i]
  BY <1>1, SubSeqProperties DEF Front
<1>3. DOMAIN Front(s) = 1 .. (Len(s) - 1)
  BY <1>1, <1>2
<1>4. Last(s) = s[Len(s)] /\ Last(s) \in S
  BY <1>1 DEF Last
<1> QED
  BY <1>1, <1>2, <1>3, <1>4

(* Append(Front(s), x) is s with x for the last entry.                     *)
LEMMA LastReplaced ==
  ASSUME NEW S, NEW s \in Seq(S), s # <<>>, NEW x
  PROVE  /\ Len(Append(Front(s), x)) = Len(s) /\ DOMAIN Append(Front(s), x) = DOMAIN s
         /\ DOMAIN s = 1 .. Len(s) /\ Len(s) \in Nat \ {0} /\ Last(s) = s[Len(s)]
         /\ Last(s) \in S
         /\ Append(Front(s), x)[Len(s)] = x
         /\ \A i \in DOMAIN s : i # Len(s) => Append(Front(s), x)[i] = s[i]
         /\ x \in S => Append(Front(s), x) \in Seq(S)
<1>1. PICK t \in Seq(S) : t = Front(s)
  BY Shortened
<1>2. /\ Len(t) = Len(s) - 1 /\ Len(s) \in Nat \ {0} /\ DOMAIN t = 1 .. (Len(s) - 1)
      /\ \A i \in DOMAIN t : t[i] = s[i]
      /\ DOMAIN s = 1 .. Len(s) /\ Last(s) = s[Len(s)] /\ Last(s) \in S
  BY <1>1, Shortened
<1>3. /\ Len(Append(t, x)) = Len(t) + 1 /\ DOMAIN Append(t, x) = 1 .. (Len(t) + 1)
      /\ Append(t, x)[Len(t) + 1] = x
      /\ \A i \in DOMAIN t : Append(t, x)[i] = t[i]
      /\ x \in S => Append(t, x) \in Seq(S)
  BY Appended
<1> QED
  BY <1>1, <1>2, <1>3

(* The entries of a sequence are in its set.                               *)
LEMMA Entries ==
  ASSUME NEW S, NEW s \in Seq(S)
  PROVE  Len(s) \in Nat /\ DOMAIN s = 1 .. Len(s) /\ \A i \in DOMAIN s : s[i] \in S
  OBVIOUS

(* A sequence of a set is one of any larger set.                           *)
LEMMA Wider ==
  ASSUME NEW S, NEW U, S \subseteq U
  PROVE  Seq(S) \subseteq Seq(U)
  OBVIOUS
-----------------------------------------------------------------------------
(* The tree                                                                *)

(* What the types say of each node and of each frame.                      *)
LEMMA Parts ==
  ASSUME Typed
  PROVE  /\ Len(nodes) \in Nat /\ DOMAIN nodes = 1 .. Len(nodes)
         /\ Len(frames) \in Nat /\ DOMAIN frames = 1 .. Len(frames)
         /\ \A n \in DOMAIN nodes :
              /\ nodes[n] \in Nodes /\ nodes[n].items \in Seq(Slots)
              /\ \A i \in DOMAIN nodes[n].items : nodes[n].items[i].item \in DOMAIN nodes
         /\ \A k \in DOMAIN frames :
              /\ frames[k] \in Frames /\ frames[k].items \in Seq(Slots)
              /\ frames[k].node \in DOMAIN nodes
              /\ frames[k].elem \in DOMAIN nodes \cup {NULL}
              /\ \A i \in DOMAIN frames[k].items : frames[k].items[i].item \in DOMAIN nodes
<1>1. /\ Len(nodes) \in Nat /\ DOMAIN nodes = 1 .. Len(nodes)
      /\ \A n \in DOMAIN nodes : nodes[n] \in Nodes
  <2>1. nodes \in Seq(Nodes)
    BY DEF Typed
  <2> QED
    BY <2>1, Entries
<1>5. /\ Len(frames) \in Nat /\ DOMAIN frames = 1 .. Len(frames)
      /\ \A k \in DOMAIN frames : frames[k] \in Frames
  <2>1. frames \in Seq(Frames)
    BY DEF Typed
  <2> QED
    BY <2>1, Entries
<1>2. ASSUME NEW s \in Seq(Slots), NEW i \in DOMAIN s
      PROVE  s[i].item \in DOMAIN nodes
  <2>1. s[i] \in Slots
    BY Entries
  <2> QED
    BY <2>1 DEF Slots
<1>3. \A n \in DOMAIN nodes : nodes[n].items \in Seq(Slots)
  BY <1>1 DEF Nodes
<1>4. \A k \in DOMAIN frames :
        /\ frames[k].items \in Seq(Slots) /\ frames[k].node \in DOMAIN nodes
        /\ frames[k].elem \in DOMAIN nodes \cup {NULL}
  BY <1>5 DEF Frames
<1> QED
  BY <1>1, <1>2, <1>3, <1>4, <1>5

(* With more nodes the types are larger.                                   *)
LEMMA TypesGrow ==
  ASSUME DOMAIN nodes \subseteq DOMAIN nodes'
  PROVE  /\ Slots \subseteq Slots' /\ Seq(Slots) \subseteq Seq(Slots')
         /\ Nodes \subseteq Nodes' /\ Seq(Nodes) \subseteq Seq(Nodes')
         /\ Frames \subseteq Frames' /\ Seq(Frames) \subseteq Seq(Frames')
<1>1. Slots \subseteq Slots'
  BY DEF Slots
<1>2. Seq(Slots) \subseteq Seq(Slots')
  BY <1>1, Wider
<1>3. Nodes \subseteq Nodes'
  BY <1>2 DEF Nodes
<1>4. Frames \subseteq Frames'
  BY <1>2 DEF Frames
<1> QED
  BY <1>1, <1>2, <1>3, <1>4, Wider

(* What is held depends on the items of the nodes and of the frames only.  *)
LEMMA SameHeld ==
  ASSUME DOMAIN nodes' = DOMAIN nodes, DOMAIN frames' = DOMAIN frames,
         \A n \in DOMAIN nodes : nodes'[n].items = nodes[n].items,
         \A k \in DOMAIN frames : frames'[k].items = frames[k].items
  PROVE  \A c : Held(c)' <=> Held(c)
<1>1. ASSUME NEW c
      PROVE  Held(c)' <=> Held(c)
  BY DEF Held
<1> QED
  BY <1>1

(* A turn that builds nothing leaves the tree as it was.                   *)
LEMMA SameGood ==
  ASSUME Good, UNCHANGED <<nodes, frames, root, multi, immutable>>
  PROVE  Good'
<1>1. Typed'
  BY DEF Good, Typed, Slots, Nodes, Frames
<1>2. SealedAsBuilt' /\ ParentKnown'
  BY DEF Good, SealedAsBuilt, ParentKnown
<1>3. \A c : Held(c)' <=> Held(c)
  BY DEF Held
<1>4. OpenApart' /\ ElementLoose'
  BY <1>3 DEF Good, OpenApart, ElementLoose
<1>5. RootAbove'
  BY <1>3 DEF Good, RootAbove
<1> QED
  BY <1>1, <1>2, <1>4, <1>5 DEF Good

(* The recursion is left: its nodes are held by none.                      *)
LEMMA LeftGood ==
  ASSUME Good, frames' = <<>>, UNCHANGED <<nodes, root, multi, immutable>>
  PROVE  Good'
<1>1. Typed'
  <2>1. Nodes' = Nodes
    BY DEF Nodes, Slots
  <2>2. frames' \in Seq(Frames') /\ DOMAIN frames' = {}
    OBVIOUS
  <2>3. /\ nodes' \in Seq(Nodes') /\ root' \in DOMAIN nodes' \cup {NULL}
        /\ multi' \in BOOLEAN /\ immutable' \in BOOLEAN
        /\ multi' => root' = NULL \/ nodes'[root'].kind = "["
    BY <2>1 DEF Good, Typed
  <2> QED
    BY <2>2, <2>3 DEF Typed
<1>2. SealedAsBuilt' /\ ParentKnown'
  BY DEF Good, SealedAsBuilt, ParentKnown
<1>3. OpenApart' /\ ElementLoose'
  BY DEF OpenApart, ElementLoose
<1>4. RootAbove'
  BY DEF Good, RootAbove, Held
<1> QED
  BY <1>1, <1>2, <1>3, <1>4 DEF Good

(* The tree is gone.                                                       *)
LEMMA ClearGood ==
  ASSUME nodes' = <<>>, frames' = <<>>, root' = NULL, multi' \in BOOLEAN, immutable' \in BOOLEAN
  PROVE  Good'
<1>1. Typed'
  BY DEF Typed
<1>2. SealedAsBuilt' /\ ParentKnown'
  BY DEF SealedAsBuilt, ParentKnown
<1>3. OpenApart' /\ ElementLoose' /\ RootAbove'
  BY DEF OpenApart, ElementLoose, RootAbove
<1> QED
  BY <1>1, <1>2, <1>3 DEF Good

(* The innermost frame is one of them.                                     *)
LEMMA TopThere ==
  ASSUME Typed, frames # <<>>
  PROVE  Len(frames) \in DOMAIN frames /\ Top = frames[Len(frames)] /\ Top \in Frames
<1>1. frames \in Seq(Frames)
  BY DEF Typed
<1> QED
  BY <1>1, Shortened DEF Top

(* The innermost frame becomes f.                                          *)
LEMMA TopReplaced ==
  ASSUME Typed, frames # <<>>, NEW f, frames' = Append(Front(frames), f)
  PROVE  /\ Len(frames') = Len(frames) /\ DOMAIN frames' = DOMAIN frames
         /\ DOMAIN frames = 1 .. Len(frames) /\ Len(frames) \in Nat \ {0}
         /\ Top = frames[Len(frames)] /\ frames'[Len(frames)] = f
         /\ \A k \in DOMAIN frames : k # Len(frames) => frames'[k] = frames[k]
         /\ f \in Frames => frames' \in Seq(Frames)
<1>1. PICK s \in Seq(Frames) : s = frames
  BY DEF Typed
<1>2. s # <<>>
  BY <1>1
<1> QED
  BY <1>1, <1>2, LastReplaced DEF Top

(* The innermost frame reads on: what it has stays.                        *)
ReadsOn(f) ==
  /\ f \in Frames /\ f.node = Top.node /\ f.items = Top.items /\ f.elem = Top.elem
  /\ f.at \in {"sep", "comma"} <=> f.elem # NULL
  /\ f.name # NULL => f.kind = "{"

(* ... and so the tree is as it was.                                       *)
LEMMA TurnGood ==
  ASSUME Good, frames # <<>>, NEW f, ReadsOn(f),
         frames' = Append(Front(frames), f), UNCHANGED <<nodes, root, multi, immutable>>
  PROVE  Good'
<1> DEFINE m == Len(frames)
<1>1. Typed
  BY DEF Good
<1>2. /\ Len(frames') = m /\ DOMAIN frames' = DOMAIN frames /\ DOMAIN frames = 1 .. m
      /\ m \in Nat \ {0} /\ Top = frames[m] /\ frames'[m] = f
      /\ \A k \in DOMAIN frames : k # m => frames'[k] = frames[k]
      /\ f \in Frames => frames' \in Seq(Frames)
  BY <1>1, TopReplaced
<1> HIDE DEF m
<1>3. \A k \in DOMAIN frames :
        /\ frames'[k].node = frames[k].node /\ frames'[k].items = frames[k].items
        /\ frames'[k].elem = frames[k].elem
  BY <1>2 DEF ReadsOn
<1>4. Typed'
  <2>1. Frames' = Frames /\ Nodes' = Nodes
    BY DEF Frames, Nodes, Slots
  <2>2. ASSUME NEW i \in DOMAIN frames'
        PROVE  /\ frames'[i].at \in {"sep", "comma"} <=> frames'[i].elem # NULL
               /\ frames'[i].name # NULL => frames'[i].kind = "{"
    <3>1. CASE i = m
      BY <1>2, <3>1 DEF ReadsOn
    <3>2. CASE i # m
      BY <1>1, <1>2, <3>2 DEF Typed
    <3> QED
      BY <3>1, <3>2
  <2> QED
    BY <1>1, <1>2, <2>1, <2>2 DEF Typed, ReadsOn
<1>5. SealedAsBuilt' /\ ParentKnown'
  BY <1>2, <1>3, SMTT(30) DEF Good, SealedAsBuilt, ParentKnown
<1>6. \A c : Held(c)' <=> Held(c)
  BY <1>2, <1>3, SameHeld
<1>7. OpenApart'
  BY <1>2, <1>3, <1>6 DEF Good, OpenApart
<1>8. ElementLoose'
  BY <1>2, <1>3, <1>6 DEF Good, ElementLoose, m
<1>9. RootAbove'
  BY <1>6 DEF Good, RootAbove
<1> QED
  BY <1>4, <1>5, <1>7, <1>8, <1>9 DEF Good
-----------------------------------------------------------------------------
(* A new node                                                              *)

(* What is held is a node.                                                 *)
LEMMA HeldExists ==
  ASSUME Typed, NEW c, Held(c)
  PROVE  c \in DOMAIN nodes
  BY Parts DEF Held

New == Len(nodes) + 1

(* x is a node that holds nothing and that nothing holds.                  *)
Empty(x) ==
  x \in [kind : Scalar \cup Opening, items : {<<>>}, sealed : BOOLEAN, parent : {NULL}]

(* A new node holds nothing.                                               *)
LEMMA NodeEmpty ==
  ASSUME NEW t \in Scalar \cup Opening, immutable \in BOOLEAN
  PROVE  /\ Empty(Node(t)) /\ Node(t).sealed = FALSE
         /\ Empty(Leaf(t)) /\ Leaf(t).sealed = immutable
  BY DEF Empty, Node, Leaf

(* One more node.                                                          *)
LEMMA Grown ==
  ASSUME Typed, NEW x, Empty(x), nodes' = Append(nodes, x)
  PROVE  /\ nodes' \in Seq(Nodes') /\ DOMAIN nodes' = DOMAIN nodes \cup {New}
         /\ DOMAIN nodes = 1 .. Len(nodes) /\ Len(nodes) \in Nat
         /\ New \notin DOMAIN nodes /\ New \in Nat
         /\ \A n \in DOMAIN nodes : nodes'[n] = nodes[n]
         /\ nodes'[New] = x /\ x.items = <<>> /\ x.parent = NULL
<1>1. nodes \in Seq(Nodes) /\ Len(nodes) \in Nat /\ DOMAIN nodes = 1 .. Len(nodes)
  BY Parts DEF Typed
<1>2. /\ DOMAIN nodes' = 1 .. (Len(nodes) + 1) /\ nodes'[Len(nodes) + 1] = x
      /\ \A n \in DOMAIN nodes : nodes'[n] = nodes[n]
  BY <1>1, Appended
<1>3. DOMAIN nodes' = DOMAIN nodes \cup {New} /\ New \notin DOMAIN nodes /\ New \in Nat
  BY <1>1, <1>2 DEF New
<1>4. x \in Nodes'
  <2>1. <<>> \in Seq(Slots')
    OBVIOUS
  <2> QED
    BY <2>1 DEF Empty, Nodes
<1>5. Append(nodes, x) \in Seq(Nodes')
  <2>1. nodes \in Seq(Nodes')
    BY <1>1, <1>3, TypesGrow
  <2> QED
    BY <2>1, <1>4
<1> QED
  BY <1>1, <1>2, <1>3, <1>5 DEF New, Empty

(* The new node holds nothing, and is held by none.                        *)
LEMMA GrownHeld ==
  ASSUME Typed, DOMAIN nodes' = DOMAIN nodes \cup {New}, nodes'[New].items = <<>>,
         \A n \in DOMAIN nodes : nodes'[n] = nodes[n],
         \A k \in DOMAIN frames : k \in DOMAIN frames' /\ frames'[k].items = frames[k].items,
         \A k \in DOMAIN frames' : k \in DOMAIN frames \/ frames'[k].items = <<>>,
         New \notin DOMAIN nodes
  PROVE  \A c : Held(c)' <=> Held(c)
<1>1. ASSUME NEW c, Held(c)'
      PROVE  Held(c)
  BY <1>1 DEF Held
<1>2. ASSUME NEW c, Held(c)
      PROVE  Held(c)'
  BY <1>2 DEF Held
<1> QED
  BY <1>1, <1>2

(* A value is the whole document.                                          *)
LEMMA ValueGood ==
  ASSUME Good, NEW t \in Scalar, root = NULL, frames = <<>>, frames' = <<>>,
         nodes' = Append(nodes, Leaf(t)), root' = New, UNCHANGED <<multi, immutable>>,
         ~ multi
  PROVE  Good'
<1>0. Typed /\ immutable \in BOOLEAN /\ NULL \notin Nat
  BY ParserAssumption DEF Good, Typed
<1>1. /\ nodes' \in Seq(Nodes') /\ DOMAIN nodes' = DOMAIN nodes \cup {New}
      /\ New \notin DOMAIN nodes /\ New \in Nat
      /\ \A n \in DOMAIN nodes : nodes'[n] = nodes[n]
      /\ nodes'[New].items = <<>> /\ nodes'[New].sealed = immutable
      /\ nodes'[New].parent = NULL
  <2>1. Empty(Leaf(t)) /\ Leaf(t).sealed = immutable
    BY <1>0, NodeEmpty
  <2> QED
    BY <1>0, <2>1, Grown
<1>2. /\ \A n \in DOMAIN nodes' : n # New => nodes'[n] = nodes[n] /\ n \in DOMAIN nodes
      /\ \A n \in DOMAIN nodes : \A i \in DOMAIN nodes[n].items :
           nodes[n].items[i].item \in DOMAIN nodes
  BY <1>0, <1>1, Parts
<1>3. DOMAIN frames' = {} /\ frames' \in Seq(Frames')
  OBVIOUS
<1>4. Typed'
  BY <1>0, <1>1, <1>3 DEF Typed
<1>5. SealedAsBuilt'
  BY <1>1, <1>2, <1>3 DEF Good, SealedAsBuilt
<1>6. ParentKnown'
  BY <1>0, <1>1, <1>2, <1>3 DEF Good, ParentKnown
<1>7. OpenApart' /\ ElementLoose'
  BY <1>3 DEF OpenApart, ElementLoose
<1>8. (\A c : Held(c)' <=> Held(c)) /\ ~ Held(New)
  BY <1>0, <1>1, <1>3, GrownHeld, HeldExists
<1>9. RootAbove'
  BY <1>8 DEF RootAbove
<1> QED
  BY <1>4, <1>5, <1>6, <1>7, <1>9 DEF Good

(* A container begins: its node is new, and apart.                         *)
LEMMA BeginGood ==
  ASSUME Good, NEW t \in Opening, \A k \in DOMAIN frames : frames[k].elem = NULL,
         nodes' = Append(nodes, Node(t)), frames' = Append(frames, Opened(t, New)),
         UNCHANGED <<root, multi, immutable>>
  PROVE  Good'
<1> DEFINE m == Len(frames) + 1
<1>0. Typed /\ frames \in Seq(Frames) /\ NULL \notin Nat
  BY ParserAssumption DEF Good, Typed
<1>1. /\ nodes' \in Seq(Nodes') /\ DOMAIN nodes' = DOMAIN nodes \cup {New}
      /\ New \notin DOMAIN nodes /\ New \in Nat
      /\ \A n \in DOMAIN nodes : nodes'[n] = nodes[n]
      /\ nodes'[New].items = <<>> /\ nodes'[New].sealed = FALSE
      /\ nodes'[New].parent = NULL
  <2>1. Empty(Node(t)) /\ Node(t).sealed = FALSE
    BY <1>0, NodeEmpty DEF Typed
  <2> QED
    BY <1>0, <2>1, Grown
<1>2. /\ Len(frames') = m /\ DOMAIN frames' = DOMAIN frames \cup {m} /\ m \notin DOMAIN frames
      /\ frames'[m] = Opened(t, New)
      /\ \A k \in DOMAIN frames : frames'[k] = frames[k]
  BY <1>0, Appended
<1>3. /\ frames'[m].node = New /\ frames'[m].items = <<>> /\ frames'[m].elem = NULL
      /\ frames'[m].at = "next" /\ frames'[m].name = NULL
  BY <1>2 DEF Opened
<1> HIDE DEF m
<1>4. \A n \in DOMAIN nodes' : n # New => nodes'[n] = nodes[n] /\ n \in DOMAIN nodes
  BY <1>1
<1>5. /\ \A n \in DOMAIN nodes : \A i \in DOMAIN nodes[n].items :
           nodes[n].items[i].item \in DOMAIN nodes
      /\ \A k \in DOMAIN frames :
           /\ frames[k].node \in DOMAIN nodes
           /\ \A i \in DOMAIN frames[k].items : frames[k].items[i].item \in DOMAIN nodes
  BY <1>0, Parts
<1>6. Typed'
  <2>1. Opened(t, New) \in Frames'
    <3>1. <<>> \in Seq(Slots')
      OBVIOUS
    <3> QED
      BY <3>1, <1>1 DEF Opened, Frames
  <2>2. frames' \in Seq(Frames')
    <3>1. frames \in Seq(Frames')
      BY <1>0, <1>1, TypesGrow
    <3> QED
      BY <3>1, <2>1
  <2>3. ASSUME NEW i \in DOMAIN frames'
        PROVE  /\ frames'[i].at \in {"sep", "comma"} <=> frames'[i].elem # NULL
               /\ frames'[i].name # NULL => frames'[i].kind = "{"
    <3>1. CASE i = m
      BY <1>3, <3>1
    <3>2. CASE i # m
      BY <1>0, <1>2, <3>2 DEF Typed
    <3> QED
      BY <3>1, <3>2
  <2>4. /\ root' \in DOMAIN nodes' \cup {NULL} /\ multi' \in BOOLEAN /\ immutable' \in BOOLEAN
        /\ multi' => root' = NULL \/ nodes'[root'].kind = "["
    BY <1>0, <1>1 DEF Typed
  <2> QED
    BY <1>1, <2>2, <2>3, <2>4 DEF Typed
<1>7. SealedAsBuilt'
  <2>1. ASSUME immutable, NEW n \in DOMAIN nodes', NEW i \in DOMAIN nodes'[n].items
        PROVE  nodes'[nodes'[n].items[i].item].sealed
    <3>1. n # New
      BY <1>1, <2>1
    <3> QED
      BY <1>1, <1>4, <1>5, <2>1, <3>1 DEF Good, SealedAsBuilt
  <2>2. ASSUME immutable, NEW k \in DOMAIN frames', NEW i \in DOMAIN frames'[k].items
        PROVE  nodes'[frames'[k].items[i].item].sealed
    <3>1. k # m
      BY <1>3, <2>2
    <3> QED
      BY <1>1, <1>2, <1>5, <2>2, <3>1 DEF Good, SealedAsBuilt
  <2>3. immutable /\ root # NULL => nodes'[root].sealed \/ multi
    BY <1>0, <1>1 DEF Good, SealedAsBuilt, Typed
  <2> QED
    BY <2>1, <2>2, <2>3 DEF SealedAsBuilt
<1>8. ParentKnown'
  <2>1. ASSUME NEW n \in DOMAIN nodes', NEW i \in DOMAIN nodes'[n].items
        PROVE  nodes'[nodes'[n].items[i].item].parent = IF multi /\ n = root /\ i > 1 THEN NULL ELSE n
    <3>1. n # New
      BY <1>1, <2>1
    <3> QED
      BY <1>1, <1>4, <1>5, <2>1, <3>1 DEF Good, ParentKnown
  <2>2. ASSUME NEW k \in DOMAIN frames', NEW i \in DOMAIN frames'[k].items
        PROVE  nodes'[frames'[k].items[i].item].parent = frames'[k].node
    <3>1. k # m
      BY <1>3, <2>2
    <3> QED
      BY <1>1, <1>2, <1>5, <2>2, <3>1 DEF Good, ParentKnown
  <2>3. root # NULL => nodes'[root].parent = NULL
    BY <1>0, <1>1 DEF Good, ParentKnown, Typed
  <2> QED
    BY <2>1, <2>2, <2>3 DEF ParentKnown
<1>9. \A c : Held(c)' <=> Held(c)
  BY <1>0, <1>1, <1>2, <1>3, GrownHeld
<1>10. ~ Held(New) /\ root # New
  BY <1>0, <1>1, HeldExists DEF Typed
<1>11. OpenApart'
  BY <1>1, <1>2, <1>3, <1>5, <1>9, <1>10 DEF Good, OpenApart
<1>12. ElementLoose'
  BY <1>2, <1>3 DEF ElementLoose
<1>13. RootAbove'
  BY <1>0, <1>1, <1>9 DEF Good, RootAbove, Typed
<1> QED
  BY <1>6, <1>7, <1>8, <1>11, <1>12, <1>13 DEF Good

(* The root moves into a new array, and a container begins that will be    *)
(* its next element.                                                       *)
LEMMA MultiRootNodes ==
  ASSUME Typed, root # NULL, NEW t \in Opening,
         nodes' = Append(MultiRoot, Node(t))
  PROVE  /\ nodes' \in Seq(Nodes') /\ DOMAIN nodes' = DOMAIN nodes \cup {New, New + 1}
         /\ Len(MultiRoot) + 1 = New + 1
         /\ New \notin DOMAIN nodes /\ New + 1 \notin DOMAIN nodes /\ New \in Nat
         /\ \A n \in DOMAIN nodes :
              /\ nodes'[n].items = nodes[n].items /\ nodes'[n].sealed = nodes[n].sealed
              /\ nodes'[n].kind = nodes[n].kind
              /\ n # root => nodes'[n].parent = nodes[n].parent
         /\ nodes'[root].parent = New
         /\ nodes'[New].items = <<Slot(NULL, root)>> /\ nodes'[New].sealed = FALSE
         /\ nodes'[New].parent = NULL /\ nodes'[New].kind = "["
         /\ nodes'[New + 1].items = <<>> /\ nodes'[New + 1].sealed = FALSE
         /\ nodes'[New + 1].kind = t
<1> DEFINE A == [Node("[") EXCEPT !.items = <<Slot(NULL, root)>>]
           h == Append(nodes, A)
           g == [h EXCEPT ![root].parent = New]
<1>1. /\ nodes \in Seq(Nodes) /\ Len(nodes) \in Nat /\ DOMAIN nodes = 1 .. Len(nodes)
      /\ root \in DOMAIN nodes /\ NULL \notin Nat
  BY ParserAssumption, Parts DEF Typed
<1>2. New \notin DOMAIN nodes /\ New + 1 \notin DOMAIN nodes /\ New \in Nat
      /\ New = Len(nodes) + 1
  BY <1>1 DEF New
<1>3. /\ A.items = <<Slot(NULL, root)>> /\ A.sealed = FALSE /\ A.parent = NULL /\ A.kind = "["
  BY DEF Node
<1>4. /\ DOMAIN h = DOMAIN nodes \cup {New} /\ h[New] = A /\ Len(h) = New
      /\ \A n \in DOMAIN nodes : h[n] = nodes[n]
  <2>1. /\ DOMAIN h = 1 .. (Len(nodes) + 1) /\ h[Len(nodes) + 1] = A /\ Len(h) = Len(nodes) + 1
        /\ \A n \in DOMAIN nodes : h[n] = nodes[n]
    BY <1>1, Appended
  <2> QED
    BY <2>1, <1>1, <1>2
<1> HIDE DEF A
<1>5. MultiRoot = g
  <2>1. ~ h[New].sealed
    BY <1>3, <1>4
  <2> QED
    BY <1>2, <2>1 DEF MultiRoot, SetParent, A
<1> DEFINE D == DOMAIN nodes \cup {New, New + 1}
           Rec == [kind : Scalar \cup Opening, items : Seq([name : String \cup {NULL}, item : D]),
                   sealed : BOOLEAN, parent : D \cup {NULL}]
<1>6. A \in Rec
  <2>1. Slot(NULL, root) \in [name : String \cup {NULL}, item : D]
    BY <1>1 DEF Slot
  <2>2. <<Slot(NULL, root)>> \in Seq([name : String \cup {NULL}, item : D])
    BY <2>1
  <2> QED
    BY <2>2 DEF A, Node, Opening
<1>7. Node(t) \in Rec /\ Node(t).items = <<>> /\ Node(t).sealed = FALSE /\ Node(t).kind = t
  <2>1. <<>> \in Seq([name : String \cup {NULL}, item : D])
    OBVIOUS
  <2> QED
    BY <2>1 DEF Node
<1>8. Nodes \subseteq Rec
  <2>1. Slots \subseteq [name : String \cup {NULL}, item : D]
    BY DEF Slots
  <2>2. Seq(Slots) \subseteq Seq([name : String \cup {NULL}, item : D])
    BY <2>1, Wider
  <2> QED
    BY <2>2 DEF Nodes
<1> HIDE DEF Rec
<1>9. h \in Seq(Rec)
  <2>1. nodes \in Seq(Rec)
    BY <1>1, <1>8, Wider
  <2> QED
    BY <2>1, <1>6
<1>10. /\ g \in Seq(Rec) /\ DOMAIN g = DOMAIN h /\ Len(g) = New
       /\ \A n \in DOMAIN nodes : n # root => g[n] = nodes[n]
       /\ g[New] = A
       /\ g[root].items = nodes[root].items /\ g[root].sealed = nodes[root].sealed
       /\ g[root].parent = New /\ g[root].kind = nodes[root].kind
  <2>1. h[root] \in Rec
    BY <1>4, <1>1, <1>8, Entries
  <2>2. [h[root] EXCEPT !.parent = New] \in Rec
    BY <2>1 DEF Rec
  <2>3. g = [h EXCEPT ![root] = [h[root] EXCEPT !.parent = New]]
    OBVIOUS
  <2>4. root \in 1 .. Len(h)
    BY <1>1, <1>4, <1>2
  <2>5. g \in Seq(Rec) /\ DOMAIN g = DOMAIN h /\ Len(g) = Len(h)
    BY <1>9, <2>2, <2>3, <2>4, ExceptSeq
  <2>6. /\ \A n \in DOMAIN h : n # root => g[n] = h[n]
        /\ g[root] = [h[root] EXCEPT !.parent = New]
    BY <2>3, <1>1, <1>4
  <2>7. /\ g[root].items = h[root].items /\ g[root].sealed = h[root].sealed
        /\ g[root].parent = New /\ g[root].kind = h[root].kind
    BY <2>1, <2>6, ZenonT(30) DEF Rec
  <2> QED
    BY <2>5, <2>6, <2>7, <1>1, <1>2, <1>4
<1> HIDE DEF g, h
<1>11. /\ DOMAIN nodes' = 1 .. (New + 1) /\ nodes'[New + 1] = Node(t)
       /\ \A n \in DOMAIN g : nodes'[n] = g[n]
       /\ nodes' \in Seq(Rec)
  <2>1. nodes' = Append(g, Node(t))
    BY <1>5
  <2> QED
    BY <2>1, <1>7, <1>10, Appended
<1>12. DOMAIN nodes' = D
  BY <1>11, <1>1, <1>2
<1>13. Rec = Nodes'
  BY <1>12 DEF Rec, Nodes, Slots
<1>14. Len(MultiRoot) + 1 = New + 1
  BY <1>5, <1>10
<1>15. \A n \in DOMAIN nodes : nodes'[n] = g[n]
  BY <1>4, <1>10, <1>11
<1>16. nodes'[New] = A
  BY <1>4, <1>10, <1>11
<1>17. nodes' \in Seq(Nodes')
  BY <1>11, <1>13
<1>18. \A n \in DOMAIN nodes :
              /\ nodes'[n].items = nodes[n].items /\ nodes'[n].sealed = nodes[n].sealed
              /\ nodes'[n].kind = nodes[n].kind
              /\ n # root => nodes'[n].parent = nodes[n].parent
  BY <1>15, <1>10
<1>19. nodes'[root].parent = New
  BY <1>1, <1>15, <1>10
<1> QED
  BY <1>2, <1>3, <1>7, <1>11, <1>12, <1>14, <1>16, <1>17, <1>18, <1>19

(* The array around the root is another node of the tree.                  *)
LEMMA MultiRootGood ==
  ASSUME Good, frames = <<>>, root # NULL, ~ multi, NEW t \in Opening,
         nodes' = Append(MultiRoot, Node(t)),
         frames' = Append(frames, Opened(t, Len(MultiRoot) + 1)),
         root' = New, multi', multi' \in BOOLEAN, UNCHANGED immutable
  PROVE  Good'
<1>0. Typed /\ NULL \notin Nat
  BY ParserAssumption DEF Good
<1>1. /\ nodes' \in Seq(Nodes') /\ DOMAIN nodes' = DOMAIN nodes \cup {New, New + 1}
      /\ New \notin DOMAIN nodes /\ New + 1 \notin DOMAIN nodes /\ New \in Nat
      /\ root \in DOMAIN nodes
  BY <1>0, MultiRootNodes DEF Typed
<1>2. \A n \in DOMAIN nodes :
        /\ nodes'[n].items = nodes[n].items /\ nodes'[n].sealed = nodes[n].sealed
        /\ n # root => nodes'[n].parent = nodes[n].parent
  BY <1>0, MultiRootNodes
<1>3. /\ nodes'[root].parent = New
      /\ DOMAIN nodes'[New].items = {1} /\ nodes'[New].items[1].item = root
      /\ nodes'[New].items # <<>> /\ nodes'[New].sealed = FALSE
      /\ nodes'[New].parent = NULL /\ nodes'[New].kind = "["
      /\ nodes'[New + 1].items = <<>> /\ nodes'[New + 1].sealed = FALSE
  <2>1. /\ nodes'[root].parent = New
        /\ nodes'[New].items = <<Slot(NULL, root)>> /\ nodes'[New].sealed = FALSE
        /\ nodes'[New].parent = NULL /\ nodes'[New].kind = "["
        /\ nodes'[New + 1].items = <<>> /\ nodes'[New + 1].sealed = FALSE
    BY <1>0, MultiRootNodes
  <2>2. Slot(NULL, root).item = root
    BY DEF Slot
  <2>3. /\ DOMAIN nodes'[New].items = {1} /\ nodes'[New].items[1] = Slot(NULL, root)
        /\ nodes'[New].items # <<>>
    BY <2>1
  <2> QED
    BY <2>1, <2>2, <2>3
<1>4. frames' = <<Opened(t, New + 1)>>
  <2>1. Len(MultiRoot) + 1 = New + 1
    BY <1>0, MultiRootNodes
  <2>2. frames' = Append(<<>>, Opened(t, New + 1))
    BY <2>1
  <2> QED
    BY <2>2
<1>5. /\ DOMAIN frames' = {1} /\ frames'[1] = Opened(t, New + 1)
      /\ frames'[1].node = New + 1 /\ frames'[1].items = <<>> /\ frames'[1].elem = NULL
      /\ frames'[1].at = "next" /\ frames'[1].name = NULL
  BY <1>4 DEF Opened
<1>6. \A n \in DOMAIN nodes : \A i \in DOMAIN nodes[n].items :
        nodes[n].items[i].item \in DOMAIN nodes /\ nodes[n].items[i].item # root
  <2>1. ~ Held(root)
    BY DEF Good, RootAbove
  <2> QED
    BY <1>0, <2>1, Parts DEF Held
<1>7. Typed'
  <2>1. Opened(t, New + 1) \in Frames'
    <3>1. <<>> \in Seq(Slots')
      OBVIOUS
    <3> QED
      BY <3>1, <1>1 DEF Opened, Frames
  <2>2. frames' \in Seq(Frames')
    BY <1>4, <2>1
  <2>3. \A i \in DOMAIN frames' :
          /\ frames'[i].at \in {"sep", "comma"} <=> frames'[i].elem # NULL
          /\ frames'[i].name # NULL => frames'[i].kind = "{"
    BY <1>5
  <2>4. immutable' \in BOOLEAN
    BY <1>0 DEF Typed
  <2> QED
    BY <1>1, <1>3, <2>2, <2>3, <2>4 DEF Typed
<1>8. SealedAsBuilt'
  <2>1. ASSUME immutable, NEW n \in DOMAIN nodes', NEW i \in DOMAIN nodes'[n].items
        PROVE  nodes'[nodes'[n].items[i].item].sealed
    <3>1. CASE n = New
      BY <1>1, <1>2, <1>3, <2>1, <3>1 DEF Good, SealedAsBuilt
    <3>2. CASE n \in DOMAIN nodes
      BY <1>2, <1>6, <2>1, <3>2, ZenonT(30) DEF Good, SealedAsBuilt
    <3>3. n # New + 1
      BY <1>3, <2>1
    <3> QED
      BY <1>1, <3>1, <3>2, <3>3
  <2>2. \A k \in DOMAIN frames' : DOMAIN frames'[k].items = {}
    BY <1>5
  <2> QED
    BY <2>1, <2>2, ZenonT(30) DEF SealedAsBuilt
<1>9. ParentKnown'
  <2>1. ASSUME NEW n \in DOMAIN nodes', NEW i \in DOMAIN nodes'[n].items
        PROVE  nodes'[nodes'[n].items[i].item].parent
                 = IF multi' /\ n = New /\ i > 1 THEN NULL ELSE n
    <3>1. CASE n = New
      <4>1. i = 1
        BY <1>3, <2>1, <3>1
      <4> QED
        <5>1. nodes'[n].items[i].item = root /\ nodes'[root].parent = n
          BY <1>3, <3>1, <4>1
        <5>2. ~ (i > 1)
          BY <4>1
        <5> QED
          BY <5>1, <5>2
    <3>2. CASE n \in DOMAIN nodes
      <4>1. nodes[nodes[n].items[i].item].parent = n /\ i \in DOMAIN nodes[n].items
        BY <1>2, <2>1, <3>2 DEF Good, ParentKnown
      <4> QED
        BY <1>1, <1>2, <1>6, <3>2, <4>1
    <3>3. n # New + 1
      BY <1>3, <2>1
    <3> QED
      BY <1>1, <3>1, <3>2, <3>3
  <2>2. \A k \in DOMAIN frames' : DOMAIN frames'[k].items = {}
    BY <1>5
  <2>3. \A n \in DOMAIN nodes' : \A i \in DOMAIN nodes'[n].items :
          nodes'[nodes'[n].items[i].item].parent
            = IF multi' /\ n = root' /\ i > 1 THEN NULL ELSE n
    BY <2>1
  <2>4. root' # NULL => nodes'[root'].parent = NULL
    BY <1>3
  <2> QED
    BY <2>2, <2>3, <2>4 DEF ParentKnown
<1>10. \A c : Held(c)' => c \in DOMAIN nodes
  <2>1. ASSUME NEW c, Held(c)'
        PROVE  c \in DOMAIN nodes
    <3>1. PICK n \in DOMAIN nodes' : \E i \in DOMAIN nodes'[n].items : nodes'[n].items[i].item = c
      BY <1>5, <2>1 DEF Held
    <3>2. CASE n = New
      BY <1>1, <1>3, <3>1, <3>2
    <3>3. CASE n \in DOMAIN nodes
      BY <1>2, <1>6, <3>1, <3>3
    <3>4. n # New + 1
      BY <1>3, <3>1
    <3> QED
      BY <1>1, <3>2, <3>3, <3>4
  <2> QED
    BY <2>1
<1>11. OpenApart' /\ ElementLoose'
  BY <1>1, <1>3, <1>5, <1>10 DEF OpenApart, ElementLoose
<1>12. RootAbove'
  BY <1>1, <1>3, <1>10 DEF RootAbove
<1> QED
  BY <1>7, <1>8, <1>9, <1>11, <1>12 DEF Good

(* An element that is a value is new, and loose.                           *)
LEMMA ElementGood ==
  ASSUME Good, frames # <<>>, NEW t \in Scalar,
         nodes' = Append(nodes, Leaf(t)),
         frames' = Append(Front(frames), [Top EXCEPT !.elem = New, !.at = "sep"]),
         UNCHANGED <<root, multi, immutable>>
  PROVE  Good'
<1> DEFINE m == Len(frames)
           f == [Top EXCEPT !.elem = New, !.at = "sep"]
<1>0. Typed /\ NULL \notin Nat /\ immutable \in BOOLEAN
  BY ParserAssumption DEF Good, Typed
<1>1. /\ nodes' \in Seq(Nodes') /\ DOMAIN nodes' = DOMAIN nodes \cup {New}
      /\ New \notin DOMAIN nodes /\ New \in Nat
      /\ \A n \in DOMAIN nodes : nodes'[n] = nodes[n]
      /\ nodes'[New].items = <<>>
  <2>1. Empty(Leaf(t))
    BY <1>0, NodeEmpty
  <2> QED
    BY <1>0, <2>1, Grown
<1>2. /\ Len(frames') = m /\ DOMAIN frames' = DOMAIN frames /\ DOMAIN frames = 1 .. m
      /\ m \in Nat \ {0} /\ Top = frames[m] /\ frames'[m] = f
      /\ \A k \in DOMAIN frames : k # m => frames'[k] = frames[k]
  BY <1>0, TopReplaced
<1>3. m \in DOMAIN frames
  BY <1>2
<1>4. Top \in Frames
  BY <1>0, <1>2, <1>3, Parts
<1>5. /\ f.node = Top.node /\ f.items = Top.items /\ f.name = Top.name /\ f.kind = Top.kind
      /\ f.elem = New /\ f.at = "sep"
  BY <1>4 DEF Frames
<1>6. f \in Frames'
  <2>1. Top \in Frames'
    BY <1>1, <1>4, TypesGrow
  <2>2. New \in DOMAIN nodes'
    BY <1>1
  <2> QED
    BY <2>1, <2>2 DEF Frames
<1> HIDE DEF m, f
<1>7. \A k \in DOMAIN frames :
        /\ frames'[k].node = frames[k].node /\ frames'[k].items = frames[k].items
        /\ k # m => frames'[k].elem = frames[k].elem
  BY <1>2, <1>5
<1>8. /\ \A n \in DOMAIN nodes : \A i \in DOMAIN nodes[n].items :
           nodes[n].items[i].item \in DOMAIN nodes
      /\ \A k \in DOMAIN frames :
           /\ frames[k].node \in DOMAIN nodes
           /\ \A i \in DOMAIN frames[k].items : frames[k].items[i].item \in DOMAIN nodes
  BY <1>0, Parts
<1>9. \A n \in DOMAIN nodes' : n # New => nodes'[n] = nodes[n] /\ n \in DOMAIN nodes
  BY <1>1
<1>10. Typed'
  <2>1. frames' \in Seq(Frames')
    <3>1. frames \in Seq(Frames')
      BY <1>0, <1>1, TypesGrow DEF Typed
    <3> QED
      BY <3>1, <1>6, LastReplaced DEF f
  <2>2. ASSUME NEW i \in DOMAIN frames'
        PROVE  /\ frames'[i].at \in {"sep", "comma"} <=> frames'[i].elem # NULL
               /\ frames'[i].name # NULL => frames'[i].kind = "{"
    <3>1. CASE i = m
      BY <1>0, <1>1, <1>2, <1>3, <1>5, <3>1, ZenonT(30) DEF Typed
    <3>2. CASE i # m
      BY <1>0, <1>2, <3>2 DEF Typed
    <3> QED
      BY <3>1, <3>2
  <2>3. /\ root' \in DOMAIN nodes' \cup {NULL} /\ multi' \in BOOLEAN /\ immutable' \in BOOLEAN
        /\ multi' => root' = NULL \/ nodes'[root'].kind = "["
    BY <1>0, <1>1 DEF Typed
  <2> QED
    BY <1>1, <2>1, <2>2, <2>3 DEF Typed
<1>11. SealedAsBuilt'
  <2>1. ASSUME immutable, NEW n \in DOMAIN nodes', NEW i \in DOMAIN nodes'[n].items
        PROVE  nodes'[nodes'[n].items[i].item].sealed
    <3>1. n # New
      BY <1>1, <2>1
    <3> QED
      BY <1>1, <1>9, <1>8, <2>1, <3>1 DEF Good, SealedAsBuilt
  <2>2. ASSUME immutable, NEW k \in DOMAIN frames', NEW i \in DOMAIN frames'[k].items
        PROVE  nodes'[frames'[k].items[i].item].sealed
    <3>1. k \in DOMAIN frames /\ frames'[k].items = frames[k].items
      BY <1>2, <1>7, <2>2
    <3>2. frames[k].items[i].item \in DOMAIN nodes
      BY <1>8, <2>2, <3>1
    <3> QED
      BY <1>1, <2>2, <3>1, <3>2 DEF Good, SealedAsBuilt
  <2>3. immutable /\ root # NULL => nodes'[root].sealed \/ multi
    BY <1>0, <1>1 DEF Good, SealedAsBuilt, Typed
  <2> QED
    BY <2>1, <2>2, <2>3 DEF SealedAsBuilt
<1>12. ParentKnown'
  <2>1. ASSUME NEW n \in DOMAIN nodes', NEW i \in DOMAIN nodes'[n].items
        PROVE  nodes'[nodes'[n].items[i].item].parent = IF multi /\ n = root /\ i > 1 THEN NULL ELSE n
    <3>1. n # New
      BY <1>1, <2>1
    <3> QED
      BY <1>1, <1>9, <1>8, <2>1, <3>1 DEF Good, ParentKnown
  <2>2. ASSUME NEW k \in DOMAIN frames', NEW i \in DOMAIN frames'[k].items
        PROVE  nodes'[frames'[k].items[i].item].parent = frames'[k].node
    BY <1>1, <1>2, <1>7, <1>8, <2>2 DEF Good, ParentKnown
  <2>3. root # NULL => nodes'[root].parent = NULL
    BY <1>0, <1>1 DEF Good, ParentKnown, Typed
  <2> QED
    BY <2>1, <2>2, <2>3 DEF ParentKnown
<1>13. \A c : Held(c)' <=> Held(c)
  BY <1>0, <1>1, <1>2, <1>7, GrownHeld
<1>14. ~ Held(New) /\ root # New
  BY <1>0, <1>1, HeldExists DEF Typed
<1>15. OpenApart'
  BY <1>1, <1>2, <1>7, <1>8, <1>13 DEF Good, OpenApart
<1>16. ElementLoose'
  <2>1. ASSUME NEW k \in DOMAIN frames, k # m
        PROVE  frames[k].elem = NULL
    BY <2>1 DEF Good, ElementLoose, m
  <2>2. \A l \in DOMAIN frames : frames'[l].node # New
    <3>1. ASSUME NEW l \in DOMAIN frames
          PROVE  frames'[l].node # New
      <4>1. frames'[l].node = frames[l].node /\ frames[l].node \in DOMAIN nodes
        BY <1>7, <1>8
      <4> QED
        BY <1>1, <4>1
    <3> QED
      BY <3>1
  <2> QED
    BY <1>2, <1>5, <1>7, <1>13, <1>14, <2>1, <2>2 DEF ElementLoose
<1>17. RootAbove'
  BY <1>0, <1>1, <1>13 DEF Good, RootAbove, Typed
<1> QED
  BY <1>10, <1>11, <1>12, <1>15, <1>16, <1>17 DEF Good
-----------------------------------------------------------------------------
(* An element is added                                                     *)

(* What With gives has the items of before and the new one.                *)
LEMMA WithItems ==
  ASSUME NEW items \in Seq(Slots), NEW n \in String \cup {NULL}, NEW v \in DOMAIN nodes
  PROVE  /\ With(items, n, v) \in Seq(Slots)
         /\ \A i \in DOMAIN With(items, n, v) :
              \/ With(items, n, v)[i].item = v
              \/ i \in DOMAIN items /\ With(items, n, v)[i] = items[i]
<1>1. Slot(n, v) \in Slots /\ Slot(n, v).item = v
  BY DEF Slot, Slots
<1>2. CASE SameName(items, n) = {}
  <2>1. With(items, n, v) = Append(items, Slot(n, v))
    BY <1>2 DEF With
  <2> QED
    BY <1>1, <2>1, Appended
<1>3. CASE SameName(items, n) # {}
  <2> DEFINE w == [i \in DOMAIN items |->
                     IF i \in SameName(items, n) THEN Slot(n, v) ELSE items[i]]
  <2>1. With(items, n, v) = w
    BY <1>3 DEF With
  <2>2. \A i \in DOMAIN items : items[i] \in Slots
    BY Entries
  <2>3. DOMAIN items = 1 .. Len(items) /\ Len(items) \in Nat
    BY Entries
  <2>4. w \in [1 .. Len(items) -> Slots]
    BY <1>1, <2>2, <2>3
  <2>5. w \in Seq(Slots)
    BY <2>3, <2>4
  <2>6. \A i \in DOMAIN w : w[i] = Slot(n, v) \/ (i \in DOMAIN items /\ w[i] = items[i])
    OBVIOUS
  <2> HIDE DEF w
  <2> QED
    BY <1>1, <2>1, <2>5, <2>6
<1> QED
  BY <1>2, <1>3

(* The element gets its parent, and is sealed.                             *)
LEMMA AddNodes ==
  ASSUME Good, frames # <<>>, Top.elem # NULL,
         nodes' = [SetParent(nodes, Top.elem, Top.node)
                     EXCEPT ![Top.elem].sealed = @ \/ immutable]
  PROVE  /\ nodes' \in Seq(Nodes) /\ DOMAIN nodes' = DOMAIN nodes
         /\ Top.elem \in DOMAIN nodes /\ Top \in Frames
         /\ \A n \in DOMAIN nodes : n # Top.elem => nodes'[n] = nodes[n]
         /\ nodes'[Top.elem].items = nodes[Top.elem].items
         /\ nodes'[Top.elem].kind = nodes[Top.elem].kind
         /\ nodes'[Top.elem].parent = Top.node
         /\ nodes[Top.elem].sealed \/ immutable => nodes'[Top.elem].sealed
<1>0. Typed /\ NULL \notin Nat /\ immutable \in BOOLEAN
  BY ParserAssumption DEF Good, Typed
<1>1. Len(frames) \in DOMAIN frames /\ Top = frames[Len(frames)] /\ Top \in Frames
  BY <1>0, TopThere
<1>2. PICK e \in DOMAIN nodes : e = Top.elem
  BY <1>1 DEF Frames
<1>3. PICK p \in DOMAIN nodes : p = Top.node
  BY <1>1 DEF Frames
<1>4. nodes[e] \in Nodes /\ nodes \in Seq(Nodes) /\ DOMAIN nodes = 1 .. Len(nodes)
      /\ Len(nodes) \in Nat
  BY <1>0, Parts DEF Typed
<1>5. ~ nodes[p].sealed /\ p # NULL
  BY <1>0, <1>1, <1>3, <1>4 DEF Good, OpenApart
<1>6. SetParent(nodes, e, p) = [nodes EXCEPT ![e].parent = p]
  BY <1>5 DEF SetParent
<1> DEFINE x == [nodes[e] EXCEPT !.parent = p]
           g == [nodes EXCEPT ![e] = x]
           y == [x EXCEPT !.sealed = @ \/ immutable]
<1>7. /\ x \in Nodes /\ x.items = nodes[e].items /\ x.kind = nodes[e].kind /\ x.parent = p
      /\ x.sealed = nodes[e].sealed
  BY <1>4 DEF Nodes
<1>8. /\ y \in Nodes /\ y.items = nodes[e].items /\ y.kind = nodes[e].kind /\ y.parent = p
      /\ nodes[e].sealed \/ immutable => y.sealed
  <2> HIDE DEF x
  <2> QED
    BY <1>0, <1>7 DEF Nodes
<1>9. g[e] = x /\ DOMAIN g = DOMAIN nodes /\ \A n \in DOMAIN nodes : n # e => g[n] = nodes[n]
  BY <1>4
<1>10. nodes' = [g EXCEPT ![e] = y]
  <2>1. nodes' = [[nodes EXCEPT ![e].parent = p] EXCEPT ![e].sealed = @ \/ immutable]
    BY <1>2, <1>3, <1>6
  <2>2. nodes' = [g EXCEPT ![e].sealed = @ \/ immutable]
    BY <2>1
  <2> HIDE DEF g, x
  <2> QED
    BY <1>9, <2>2
<1> HIDE DEF x, y
<1>11. g \in Seq(Nodes) /\ Len(g) = Len(nodes)
  BY <1>4, <1>7, ExceptSeq
<1> HIDE DEF g
<1>12. nodes' \in Seq(Nodes) /\ DOMAIN nodes' = DOMAIN nodes
  <2>1. e \in 1 .. Len(g)
    BY <1>4, <1>11
  <2>2. [g EXCEPT ![e] = y] \in Seq(Nodes)
    BY <1>8, <1>11, <2>1, ExceptSeq
  <2>3. DOMAIN [g EXCEPT ![e] = y] = DOMAIN nodes
    BY <1>9
  <2> QED
    BY <1>10, <2>2, <2>3
<1>13. nodes'[e] = y /\ \A n \in DOMAIN nodes : n # e => nodes'[n] = nodes[n]
  BY <1>9, <1>10
<1> QED
  BY <1>1, <1>2, <1>3, <1>8, <1>12, <1>13

(* An element that is added is held by the frame alone.                    *)
LEMMA AddGood ==
  ASSUME Good, frames # <<>>, Top.elem # NULL,
         nodes' = [SetParent(nodes, Top.elem, Top.node)
                     EXCEPT ![Top.elem].sealed = @ \/ immutable],
         frames' = Append(Front(frames), Holding(Top)), UNCHANGED <<root, multi, immutable>>
  PROVE  Good'
<1>0. Typed /\ NULL \notin Nat /\ immutable \in BOOLEAN
  BY ParserAssumption DEF Good, Typed
<1>1. PICK e \in DOMAIN nodes : e = Top.elem
  BY AddNodes
<1>2. /\ nodes' \in Seq(Nodes) /\ DOMAIN nodes' = DOMAIN nodes /\ Top \in Frames
      /\ \A n \in DOMAIN nodes : n # e => nodes'[n] = nodes[n]
      /\ nodes'[e].items = nodes[e].items /\ nodes'[e].kind = nodes[e].kind
      /\ nodes'[e].parent = Top.node
      /\ nodes[e].sealed \/ immutable => nodes'[e].sealed
  BY <1>1, AddNodes
<1>3. PICK m : m = Len(frames)
  OBVIOUS
<1>4. PICK f : f = Holding(Top)
  OBVIOUS
<1>5. /\ Len(frames') = m /\ DOMAIN frames' = DOMAIN frames /\ DOMAIN frames = 1 .. m
      /\ m \in Nat \ {0} /\ Top = frames[m] /\ frames'[m] = f
      /\ \A k \in DOMAIN frames : k # m => frames'[k] = frames[k]
      /\ f \in Frames => frames' \in Seq(Frames)
  <2>1. frames' = Append(Front(frames), f)
    BY <1>4
  <2> QED
    BY <1>0, <1>3, <2>1, TopReplaced
<1>6. m \in DOMAIN frames
  BY <1>5
<1>7. PICK w : w = With(Top.items, Top.name, e)
  OBVIOUS
<1>8. /\ w \in Seq(Slots)
      /\ \A i \in DOMAIN w : w[i].item = e \/ (i \in DOMAIN Top.items /\ w[i] = Top.items[i])
  <2>1. Top.items \in Seq(Slots) /\ Top.name \in String \cup {NULL}
    BY <1>2 DEF Frames
  <2> QED
    BY <1>7, <2>1, WithItems
<1>9. /\ f.node = Top.node /\ f.items = w /\ f.name = NULL /\ f.kind = Top.kind
      /\ f.elem = NULL /\ f.at = "next" /\ f \in Frames
  <2>1. f = [Top EXCEPT !.items = w, !.name = NULL, !.elem = NULL, !.at = "next"]
    BY <1>1, <1>4, <1>7 DEF Holding
  <2> QED
    BY <1>2, <1>8, <2>1 DEF Frames
<1>10. /\ \A n \in DOMAIN nodes : \A i \in DOMAIN nodes[n].items :
            nodes[n].items[i].item \in DOMAIN nodes
       /\ \A k \in DOMAIN frames :
            /\ frames[k].node \in DOMAIN nodes
            /\ \A i \in DOMAIN frames[k].items : frames[k].items[i].item \in DOMAIN nodes
  BY <1>0, Parts
<1>11. /\ ~ Held(e) /\ e # root
       /\ \A k \in DOMAIN frames : frames[k].node # e
       /\ \A k \in DOMAIN frames : k # m => frames[k].elem = NULL
  BY <1>1, <1>3, <1>5, <1>6 DEF Good, ElementLoose
<1>12. /\ \A n \in DOMAIN nodes : \A i \in DOMAIN nodes[n].items : nodes[n].items[i].item # e
       /\ \A k \in DOMAIN frames : \A i \in DOMAIN frames[k].items : frames[k].items[i].item # e
  BY <1>11 DEF Held
<1>13. \A n \in DOMAIN nodes : nodes'[n].items = nodes[n].items /\ nodes'[n].kind = nodes[n].kind
  BY <1>2
<1>14. \A k \in DOMAIN frames : frames'[k].node = frames[k].node
  BY <1>5, <1>9
<1>15. \A k \in DOMAIN frames : \A i \in DOMAIN frames'[k].items :
         \/ k = m /\ frames'[k].items[i].item = e
         \/ i \in DOMAIN frames[k].items /\ frames'[k].items[i].item = frames[k].items[i].item
  BY <1>5, <1>8, <1>9
<1>16. Typed'
  <2>1. Frames' = Frames /\ Nodes' = Nodes
    BY <1>2 DEF Frames, Nodes, Slots
  <2>2. ASSUME NEW i \in DOMAIN frames'
        PROVE  /\ frames'[i].at \in {"sep", "comma"} <=> frames'[i].elem # NULL
               /\ frames'[i].name # NULL => frames'[i].kind = "{"
    <3>1. CASE i = m
      BY <1>5, <1>9, <3>1
    <3>2. CASE i # m
      BY <1>0, <1>5, <3>2 DEF Typed
    <3> QED
      BY <3>1, <3>2
  <2>3. /\ root' \in DOMAIN nodes' \cup {NULL} /\ multi' \in BOOLEAN /\ immutable' \in BOOLEAN
        /\ multi' => root' = NULL \/ nodes'[root'].kind = "["
    BY <1>0, <1>2, <1>13 DEF Typed
  <2> QED
    BY <1>2, <1>5, <1>9, <2>1, <2>2, <2>3 DEF Typed
<1>17. SealedAsBuilt'
  <2>1. ASSUME immutable, NEW n \in DOMAIN nodes', NEW i \in DOMAIN nodes'[n].items
        PROVE  nodes'[nodes'[n].items[i].item].sealed
    <3>1. i \in DOMAIN nodes[n].items /\ nodes'[n].items = nodes[n].items /\ n \in DOMAIN nodes
      BY <1>2, <1>13, <2>1
    <3> QED
      <4>1. PICK c \in DOMAIN nodes : c = nodes[n].items[i].item /\ c # e
        BY <1>10, <1>12, <3>1
      <4>2. nodes[c].sealed
        BY <2>1, <3>1, <4>1 DEF Good, SealedAsBuilt
      <4>3. c = nodes'[n].items[i].item
        BY <3>1, <4>1
      <4>4. nodes'[c].sealed
        BY <1>2, <4>1, <4>2
      <4> QED
        BY <4>3, <4>4
  <2>2. ASSUME immutable, NEW k \in DOMAIN frames', NEW i \in DOMAIN frames'[k].items
        PROVE  nodes'[frames'[k].items[i].item].sealed
    <3>1. k \in DOMAIN frames
      BY <1>5, <2>2
    <3>2. CASE frames'[k].items[i].item = e
      BY <1>2, <2>2, <3>2
    <3>3. CASE i \in DOMAIN frames[k].items /\ frames'[k].items[i].item = frames[k].items[i].item
      <4>1. PICK c \in DOMAIN nodes : c = frames[k].items[i].item /\ c # e
        BY <1>10, <1>12, <3>1, <3>3
      <4>2. nodes[c].sealed
        BY <2>2, <3>1, <3>3, <4>1 DEF Good, SealedAsBuilt
      <4>3. c = frames'[k].items[i].item
        BY <3>1, <3>3, <4>1
      <4>4. nodes'[c].sealed
        BY <1>2, <4>1, <4>2
      <4> QED
        BY <4>3, <4>4
    <3> QED
      BY <1>15, <2>2, <3>1, <3>2, <3>3
  <2>3. immutable /\ root # NULL => nodes'[root].sealed \/ multi
    BY <1>0, <1>2, <1>11 DEF Good, SealedAsBuilt, Typed
  <2> QED
    BY <2>1, <2>2, <2>3 DEF SealedAsBuilt
<1>18. ParentKnown'
  <2>1. ASSUME NEW n \in DOMAIN nodes', NEW i \in DOMAIN nodes'[n].items
        PROVE  nodes'[nodes'[n].items[i].item].parent = IF multi /\ n = root /\ i > 1 THEN NULL ELSE n
    <3>1. i \in DOMAIN nodes[n].items /\ nodes'[n].items = nodes[n].items /\ n \in DOMAIN nodes
      BY <1>2, <1>13, <2>1
    <3> QED
      <4>1. PICK c \in DOMAIN nodes : c = nodes[n].items[i].item /\ c # e
        BY <1>10, <1>12, <3>1
      <4>2. nodes[c].parent = IF multi /\ n = root /\ i > 1 THEN NULL ELSE n
        BY <2>1, <3>1, <4>1 DEF Good, ParentKnown
      <4>3. c = nodes'[n].items[i].item
        BY <3>1, <4>1
      <4>4. nodes'[c].parent = IF multi /\ n = root /\ i > 1 THEN NULL ELSE n
        BY <1>2, <4>1, <4>2
      <4> QED
        BY <4>3, <4>4
  <2>2. ASSUME NEW k \in DOMAIN frames', NEW i \in DOMAIN frames'[k].items
        PROVE  nodes'[frames'[k].items[i].item].parent = frames'[k].node
    <3>1. k \in DOMAIN frames
      BY <1>5, <2>2
    <3>2. CASE k = m /\ frames'[k].items[i].item = e
      BY <1>2, <1>5, <1>9, <3>2
    <3>3. CASE i \in DOMAIN frames[k].items /\ frames'[k].items[i].item = frames[k].items[i].item
      <4>1. PICK c \in DOMAIN nodes : c = frames[k].items[i].item /\ c # e
        BY <1>10, <1>12, <3>1, <3>3
      <4>2. nodes[c].parent = frames[k].node
        BY <2>2, <3>1, <3>3, <4>1 DEF Good, ParentKnown
      <4>3. c = frames'[k].items[i].item
        BY <3>1, <3>3, <4>1
      <4>4. nodes'[c].parent = frames[k].node
        BY <1>2, <4>1, <4>2
      <4> QED
        BY <4>3, <4>4, <1>14, <3>1
    <3> QED
      BY <1>15, <2>2, <3>1, <3>2, <3>3
  <2>3. root # NULL => nodes'[root].parent = NULL
    BY <1>0, <1>2, <1>11 DEF Good, ParentKnown, Typed
  <2>4. \A n \in DOMAIN nodes' : \A i \in DOMAIN nodes'[n].items :
          nodes'[nodes'[n].items[i].item].parent
            = IF multi' /\ n = root' /\ i > 1 THEN NULL ELSE n
    <3>1. multi' = multi /\ root' = root
      OBVIOUS
    <3> TAKE n \in DOMAIN nodes'
    <3> TAKE i \in DOMAIN nodes'[n].items
    <3>2. nodes'[nodes'[n].items[i].item].parent = IF multi /\ n = root /\ i > 1 THEN NULL ELSE n
      BY <2>1, Zenon
    <3>3. PICK x : x = nodes'[nodes'[n].items[i].item].parent
      OBVIOUS
    <3>4. x = IF multi' /\ n = root' /\ i > 1 THEN NULL ELSE n
      BY ONLY <3>1, <3>2, <3>3
    <3> QED
      BY <3>3, <3>4, Zenon
  <2> QED
    BY <2>2, <2>3, <2>4 DEF ParentKnown
<1>19. \A c : Held(c)' => Held(c) \/ c = e
  <2>1. ASSUME NEW c, Held(c)', c # e
        PROVE  Held(c)
    <3>1. CASE \E n \in DOMAIN nodes' : \E i \in DOMAIN nodes'[n].items : nodes'[n].items[i].item = c
      <4>1. PICK n \in DOMAIN nodes' : \E i \in DOMAIN nodes'[n].items : nodes'[n].items[i].item = c
        BY <3>1
      <4>2. n \in DOMAIN nodes
        BY <1>2, <4>1
      <4>3. nodes'[n].items = nodes[n].items
        BY <1>13, <4>2
      <4>4. \E i \in DOMAIN nodes[n].items : nodes[n].items[i].item = c
        BY <4>1, <4>3
      <4> QED
        BY <4>2, <4>4, Zenon DEF Held
    <3>2. CASE \E k \in DOMAIN frames' : \E i \in DOMAIN frames'[k].items :
                 frames'[k].items[i].item = c
      <4>0. PICK k \in DOMAIN frames : \E i \in DOMAIN frames'[k].items :
              frames'[k].items[i].item = c
        BY <1>5, <3>2
      <4>1. PICK i \in DOMAIN frames'[k].items : frames'[k].items[i].item = c
        BY <4>0
      <4>2. i \in DOMAIN frames[k].items /\ frames[k].items[i].item = c
        BY <1>15, <2>1, <4>1
      <4> QED
        BY <4>2 DEF Held
    <3> QED
      BY <2>1, <3>1, <3>2 DEF Held
  <2> QED
    BY <2>1
<1>20. OpenApart'
  <2>1. ASSUME NEW k \in DOMAIN frames'
        PROVE  /\ ~ nodes'[frames'[k].node].sealed /\ ~ Held(frames[k].node)'
               /\ frames'[k].node # root'
               /\ \A l \in DOMAIN frames' : frames'[k].node = frames'[l].node => k = l
    <3>1. PICK n \in DOMAIN nodes : n = frames'[k].node /\ n = frames[k].node /\ n # e
      BY <1>5, <1>10, <1>11, <1>14, <2>1
    <3>2. ~ nodes[n].sealed /\ ~ Held(n) /\ n # root
      BY <1>5, <2>1, <3>1 DEF Good, OpenApart
    <3>3. ~ nodes'[n].sealed /\ ~ Held(n)'
      BY <1>2, <1>19, <3>1, <3>2
    <3>4. \A l \in DOMAIN frames : frames[k].node = frames[l].node => k = l
      BY <1>5, <2>1 DEF Good, OpenApart
    <3> QED
      <4>1. /\ ~ nodes'[frames'[k].node].sealed /\ ~ Held(frames[k].node)'
            /\ frames'[k].node # root'
        BY <3>1, <3>2, <3>3
      <4>2. \A l \in DOMAIN frames' : frames'[k].node = frames'[l].node => k = l
        BY <1>5, <1>14, <2>1, <3>4
      <4> QED
        BY <4>1, <4>2
  <2> QED
    BY <2>1 DEF OpenApart
<1>21. ElementLoose'
  BY <1>5, <1>9, <1>11 DEF ElementLoose
<1>22. RootAbove'
  BY <1>0, <1>2, <1>11, <1>19 DEF Good, RootAbove, Typed
<1> QED
  BY <1>16, <1>17, <1>18, <1>20, <1>21, <1>22 DEF Good
-----------------------------------------------------------------------------
(* A container is complete                                                 *)

(* Its node gets what is in it, the seal and the parent; no other changes. *)
LEMMA ClosedNodes ==
  ASSUME Good, frames # <<>>, NEW p \in DOMAIN nodes \cup {NULL},
         p # NULL => ~ nodes[p].sealed /\ p # Top.node
  PROVE  /\ Closed(nodes, Top, p) \in Seq(Nodes)
         /\ DOMAIN Closed(nodes, Top, p) = DOMAIN nodes
         /\ Len(Closed(nodes, Top, p)) = Len(nodes)
         /\ Top.node \in DOMAIN nodes
         /\ \A n \in DOMAIN nodes : n # Top.node => Closed(nodes, Top, p)[n] = nodes[n]
         /\ Closed(nodes, Top, p)[Top.node].items = Top.items
         /\ Closed(nodes, Top, p)[Top.node].kind = nodes[Top.node].kind
         /\ Closed(nodes, Top, p)[Top.node].parent = p
         /\ Closed(nodes, Top, p)[Top.node].sealed = immutable
<1>0. Typed /\ NULL \notin Nat /\ immutable \in BOOLEAN
  BY ParserAssumption DEF Good, Typed
<1>1. Len(frames) \in DOMAIN frames /\ Top = frames[Len(frames)] /\ Top \in Frames
  BY <1>0, TopThere
<1>2. PICK e \in DOMAIN nodes : e = Top.node
  BY <1>1 DEF Frames
<1>3. PICK w \in Seq(Slots) : w = Top.items
  BY <1>1 DEF Frames
<1>4. nodes[e] \in Nodes /\ nodes \in Seq(Nodes) /\ DOMAIN nodes = 1 .. Len(nodes)
      /\ Len(nodes) \in Nat
  BY <1>0, Parts DEF Typed
<1> DEFINE x == [nodes[e] EXCEPT !.items = w, !.sealed = immutable]
           g == [nodes EXCEPT ![e] = x]
           y == [x EXCEPT !.parent = p]
<1>5. x \in Nodes /\ x.items = w /\ x.kind = nodes[e].kind /\ x.sealed = immutable
  BY <1>0, <1>4 DEF Nodes
<1>6. y \in Nodes /\ y.items = w /\ y.kind = nodes[e].kind /\ y.sealed = immutable /\ y.parent = p
  <2> HIDE DEF x
  <2> QED
    BY <1>5 DEF Nodes
<1>7. g[e] = x /\ DOMAIN g = DOMAIN nodes /\ \A n \in DOMAIN nodes : n # e => g[n] = nodes[n]
  BY <1>4
<1>8. [nodes EXCEPT ![Top.node].items = Top.items, ![Top.node].sealed = immutable] = g
  <2>1. [nodes EXCEPT ![e].items = w, ![e].sealed = immutable] = g
    <3>1. [nodes EXCEPT ![e].items = w, ![e].sealed = immutable]
            = [[nodes EXCEPT ![e] = [nodes[e] EXCEPT !.items = w]] EXCEPT ![e].sealed = immutable]
      OBVIOUS
    <3> DEFINE z == [nodes[e] EXCEPT !.items = w]
               d == [nodes EXCEPT ![e] = z]
    <3>2. d[e] = z /\ DOMAIN d = DOMAIN nodes
      OBVIOUS
    <3>3. [d EXCEPT ![e].sealed = immutable] = [d EXCEPT ![e] = [z EXCEPT !.sealed = immutable]]
      <4> HIDE DEF d, z
      <4> QED
        BY <3>2
    <3>4. x = [z EXCEPT !.sealed = immutable]
      OBVIOUS
    <3>5. [d EXCEPT ![e] = [z EXCEPT !.sealed = immutable]] = g
      <4>1. [d EXCEPT ![e] = x] = g
        <5> HIDE DEF x, z
        <5> QED
          OBVIOUS
      <4> QED
        BY <4>1, <3>4
    <3> QED
      BY <3>1, <3>3, <3>5
  <2> QED
    BY <1>2, <1>3, <2>1
<1> HIDE DEF x, y
<1>9. g \in Seq(Nodes) /\ Len(g) = Len(nodes)
  BY <1>4, <1>5, ExceptSeq
<1> HIDE DEF g
<1>10. p # NULL => ~ g[p].sealed
  BY <1>2, <1>7
<1>11. Closed(nodes, Top, p) = [g EXCEPT ![e].parent = p]
  BY <1>2, <1>8, <1>10 DEF Closed, SetParent
<1>12. Closed(nodes, Top, p) = [g EXCEPT ![e] = y]
  BY <1>7, <1>11 DEF y
<1>13. e \in 1 .. Len(g) /\ e \in DOMAIN g
  BY <1>4, <1>7, <1>9
<1>14. [g EXCEPT ![e] = y] \in Seq(Nodes) /\ Len([g EXCEPT ![e] = y]) = Len(g)
  BY <1>6, <1>9, <1>13, ExceptSeq
<1>15. /\ DOMAIN [g EXCEPT ![e] = y] = DOMAIN nodes /\ [g EXCEPT ![e] = y][e] = y
       /\ \A n \in DOMAIN nodes : n # e => [g EXCEPT ![e] = y][n] = nodes[n]
  BY <1>7, <1>13
<1> QED
  BY <1>2, <1>3, <1>6, <1>9, <1>12, <1>14, <1>15
(* ... as the element of the container around it.                          *)
LEMMA CloseInnerGood ==
  ASSUME Good, frames # <<>>, Front(frames) # <<>>,
         nodes' = Closed(nodes, Top, Last(Front(frames)).node),
         frames' = Append(Front(Front(frames)),
                          [Last(Front(frames)) EXCEPT !.elem = Top.node, !.at = "sep"]),
         UNCHANGED <<root, multi, immutable>>
  PROVE  Good'
<1>0. Typed /\ NULL \notin Nat /\ immutable \in BOOLEAN /\ frames \in Seq(Frames)
  BY ParserAssumption DEF Good, Typed
<1>1. PICK m : m = Len(frames)
  OBVIOUS
<1>2. PICK q : q = m - 1
  OBVIOUS
<1>3. PICK rest \in Seq(Frames) : rest = Front(frames)
  BY <1>0, Shortened
<1>4. /\ Len(rest) = q /\ m \in Nat \ {0} /\ DOMAIN frames = 1 .. m /\ Top = frames[m]
      /\ \A i \in DOMAIN rest : rest[i] = frames[i] /\ i \in DOMAIN frames /\ i # m
      /\ DOMAIN rest = 1 .. q
  BY <1>0, <1>1, <1>2, <1>3, Shortened DEF Top
<1>5. PICK f : f = [Last(rest) EXCEPT !.elem = Top.node, !.at = "sep"]
  OBVIOUS
<1>6. /\ Len(frames') = q /\ DOMAIN frames' = 1 .. q /\ q \in Nat \ {0} /\ Last(rest) = rest[q]
      /\ frames'[q] = f
      /\ \A i \in DOMAIN frames' : i # q => frames'[i] = rest[i]
  <2>1. frames' = Append(Front(rest), f) /\ rest # <<>>
    BY <1>3, <1>5
  <2> QED
    BY <2>1, <1>4, LastReplaced, SMTT(30)
<1>7. q \in DOMAIN frames' /\ q \in DOMAIN frames /\ q # m /\ m \in DOMAIN frames
  BY <1>2, <1>4, <1>6
<1>8. \A k \in DOMAIN frames' : k \in DOMAIN frames /\ k # m /\ (k # q => frames'[k] = frames[k])
  BY <1>4, <1>6
<1>9. Last(rest) = frames[q]
  BY <1>4, <1>6
<1>10. frames[q] \in Frames /\ Top \in Frames
  BY <1>0, <1>4, <1>7, Parts
<1>11. PICK e \in DOMAIN nodes : e = Top.node
  BY <1>10 DEF Frames
<1>12. PICK p \in DOMAIN nodes : p = frames[q].node
  BY <1>10 DEF Frames
<1>13. /\ f.node = frames[q].node /\ f.items = frames[q].items /\ f.name = frames[q].name
       /\ f.kind = frames[q].kind /\ f.elem = e /\ f.at = "sep" /\ f \in Frames
  <2>1. f = [frames[q] EXCEPT !.elem = e, !.at = "sep"]
    BY <1>5, <1>9, <1>11
  <2> QED
    BY <2>1, <1>10, <1>11 DEF Frames
<1>14. /\ ~ Held(e) /\ e # root /\ ~ nodes[p].sealed /\ p # e
       /\ \A k \in DOMAIN frames : k # m => frames[k].node # e
  BY <1>4, <1>7, <1>11, <1>12 DEF Good, OpenApart
<1>15. /\ nodes' \in Seq(Nodes) /\ DOMAIN nodes' = DOMAIN nodes
       /\ \A n \in DOMAIN nodes : n # e => nodes'[n] = nodes[n]
       /\ nodes'[e].items = Top.items /\ nodes'[e].parent = p /\ nodes'[e].sealed = immutable
  <2>1. nodes' = Closed(nodes, Top, p)
    BY <1>3, <1>9, <1>12
  <2>2. p # NULL => ~ nodes[p].sealed /\ p # Top.node
    BY <1>11, <1>14
  <2> QED
    BY <2>1, <2>2, <1>11, ClosedNodes
<1>16. /\ \A n \in DOMAIN nodes : \A i \in DOMAIN nodes[n].items :
            nodes[n].items[i].item \in DOMAIN nodes
       /\ \A k \in DOMAIN frames :
            /\ frames[k].node \in DOMAIN nodes
            /\ \A i \in DOMAIN frames[k].items : frames[k].items[i].item \in DOMAIN nodes
  BY <1>0, Parts
<1>17. /\ \A n \in DOMAIN nodes : \A i \in DOMAIN nodes[n].items : nodes[n].items[i].item # e
       /\ \A k \in DOMAIN frames : \A i \in DOMAIN frames[k].items : frames[k].items[i].item # e
  BY <1>14 DEF Held
<1>18. \A k \in DOMAIN frames' :
         /\ frames'[k].node = frames[k].node /\ frames'[k].items = frames[k].items
  BY <1>6, <1>8, <1>13
<1>19. Typed'
  <2>1. Frames' = Frames /\ Nodes' = Nodes
    BY <1>15 DEF Frames, Nodes, Slots
  <2>2. ASSUME NEW i \in DOMAIN frames'
        PROVE  /\ frames'[i].at \in {"sep", "comma"} <=> frames'[i].elem # NULL
               /\ frames'[i].name # NULL => frames'[i].kind = "{"
    <3>1. CASE i = q
      <4>1. e # NULL
        BY <1>0, Parts
      <4>2. frames[q].name # NULL => frames[q].kind = "{"
        BY <1>0, <1>7 DEF Typed
      <4> QED
        BY <1>6, <1>13, <3>1, <4>1, <4>2
    <3>2. CASE i # q
      BY <1>0, <1>8, <3>2 DEF Typed
    <3> QED
      BY <3>1, <3>2
  <2>3. /\ root' \in DOMAIN nodes' \cup {NULL} /\ multi' \in BOOLEAN /\ immutable' \in BOOLEAN
        /\ multi' => root' = NULL \/ nodes'[root'].kind = "["
    BY <1>0, <1>15, <1>14 DEF Typed
  <2>4. frames' \in Seq(Frames)
    <3>1. frames' = Append(Front(rest), f) /\ rest # <<>>
      BY <1>3, <1>5
    <3>2. Append(Front(rest), f) \in Seq(Frames)
      BY <3>1, <1>13, LastReplaced
    <3> QED
      BY <3>1, <3>2
  <2> QED
    BY <1>15, <2>1, <2>2, <2>3, <2>4 DEF Typed
<1>20. SealedAsBuilt'
  <2>1. ASSUME immutable, NEW n \in DOMAIN nodes', NEW i \in DOMAIN nodes'[n].items
        PROVE  nodes'[nodes'[n].items[i].item].sealed
    <3>1. PICK c \in DOMAIN nodes : c = nodes'[n].items[i].item /\ c # e /\ nodes[c].sealed
      <4>1. CASE n = e
        <5>1. i \in DOMAIN frames[m].items /\ nodes'[n].items[i] = frames[m].items[i]
          BY <1>4, <1>15, <2>1, <4>1
        <5> QED
          BY <1>7, <1>16, <1>17, <2>1, <5>1 DEF Good, SealedAsBuilt
      <4>2. CASE n # e
        <5>1. n \in DOMAIN nodes /\ nodes'[n] = nodes[n]
          BY <1>15, <4>2
        <5> QED
          BY <1>16, <1>17, <2>1, <5>1 DEF Good, SealedAsBuilt
      <4> QED
        BY <4>1, <4>2
    <3> QED
      BY <1>15, <3>1
  <2>2. ASSUME immutable, NEW k \in DOMAIN frames', NEW i \in DOMAIN frames'[k].items
        PROVE  nodes'[frames'[k].items[i].item].sealed
    <3>1. k \in DOMAIN frames /\ frames'[k].items = frames[k].items
          /\ i \in DOMAIN frames[k].items
      BY <1>8, <1>18, <2>2
    <3>2. PICK c \in DOMAIN nodes : c = frames[k].items[i].item /\ c # e
      BY <1>16, <1>17, <3>1
    <3>3. nodes[c].sealed
      BY <2>2, <3>1, <3>2 DEF Good, SealedAsBuilt
    <3>4. nodes'[c].sealed
      BY <1>15, <3>2, <3>3
    <3> QED
      BY <3>1, <3>2, <3>4
  <2>3. immutable /\ root # NULL => nodes'[root].sealed \/ multi
    BY <1>0, <1>15, <1>14 DEF Good, SealedAsBuilt, Typed
  <2> QED
    BY <2>1, <2>2, <2>3 DEF SealedAsBuilt
<1>21. ParentKnown'
  <2>1. ASSUME NEW n \in DOMAIN nodes', NEW i \in DOMAIN nodes'[n].items
        PROVE  nodes'[nodes'[n].items[i].item].parent = IF multi /\ n = root /\ i > 1 THEN NULL ELSE n
    <3>1. PICK c \in DOMAIN nodes :
            /\ c = nodes'[n].items[i].item /\ c # e
            /\ nodes[c].parent = IF multi /\ n = root /\ i > 1 THEN NULL ELSE n
      <4>1. CASE n = e
        <5>1. i \in DOMAIN frames[m].items /\ nodes'[n].items[i] = frames[m].items[i]
          BY <1>4, <1>15, <2>1, <4>1
        <5>2. PICK c \in DOMAIN nodes : c = frames[m].items[i].item /\ c # e
          BY <1>7, <1>16, <1>17, <5>1
        <5>3. nodes[c].parent = e
          BY <1>4, <1>7, <1>11, <5>1, <5>2 DEF Good, ParentKnown
        <5> QED
          BY <1>14, <4>1, <5>1, <5>2, <5>3
      <4>2. CASE n # e
        <5>1. n \in DOMAIN nodes /\ nodes'[n] = nodes[n]
          BY <1>15, <4>2
        <5> QED
          BY <1>16, <1>17, <2>1, <5>1 DEF Good, ParentKnown
      <4> QED
        BY <4>1, <4>2
    <3> QED
      BY <1>15, <3>1
  <2>2. ASSUME NEW k \in DOMAIN frames', NEW i \in DOMAIN frames'[k].items
        PROVE  nodes'[frames'[k].items[i].item].parent = frames'[k].node
    <3>1. /\ k \in DOMAIN frames /\ frames'[k].items = frames[k].items
          /\ i \in DOMAIN frames[k].items
          /\ frames'[k].node = frames[k].node
      BY <1>8, <1>18, <2>2
    <3>2. PICK c \in DOMAIN nodes : c = frames[k].items[i].item /\ c # e
      BY <1>16, <1>17, <3>1
    <3>3. nodes[c].parent = frames[k].node
      BY <3>1, <3>2 DEF Good, ParentKnown
    <3>4. nodes'[c].parent = frames[k].node
      BY <1>15, <3>2, <3>3
    <3> QED
      BY <3>1, <3>2, <3>4
  <2>3. root # NULL => nodes'[root].parent = NULL
    BY <1>0, <1>15, <1>14 DEF Good, ParentKnown, Typed
  <2>4. \A n \in DOMAIN nodes' : \A i \in DOMAIN nodes'[n].items :
          nodes'[nodes'[n].items[i].item].parent
            = IF multi' /\ n = root' /\ i > 1 THEN NULL ELSE n
    BY <2>1
  <2> QED
    BY <2>2, <2>3, <2>4 DEF ParentKnown
<1>22. \A c : Held(c)' => Held(c)
  <2>1. ASSUME NEW c, Held(c)'
        PROVE  Held(c)
    <3>1. CASE \E n \in DOMAIN nodes' : \E i \in DOMAIN nodes'[n].items : nodes'[n].items[i].item = c
      <4>1. PICK n \in DOMAIN nodes' : \E i \in DOMAIN nodes'[n].items : nodes'[n].items[i].item = c
        BY <3>1
      <4>2. CASE n = e
        BY <1>4, <1>7, <1>15, <4>1, <4>2 DEF Held
      <4>3. CASE n # e
        BY <1>15, <4>1, <4>3 DEF Held
      <4> QED
        BY <4>2, <4>3
    <3>2. CASE \E k \in DOMAIN frames' : \E i \in DOMAIN frames'[k].items :
                 frames'[k].items[i].item = c
      BY <1>8, <1>18, <3>2 DEF Held
    <3> QED
      BY <2>1, <3>1, <3>2 DEF Held
  <2> QED
    BY <2>1
<1>23. OpenApart'
  <2>1. ASSUME NEW k \in DOMAIN frames'
        PROVE  /\ ~ nodes'[frames'[k].node].sealed /\ ~ Held(frames[k].node)'
               /\ frames'[k].node = frames[k].node
               /\ frames'[k].node # root'
               /\ \A l \in DOMAIN frames' : frames'[k].node = frames'[l].node => k = l
    <3>1. PICK n \in DOMAIN nodes : n = frames'[k].node /\ n = frames[k].node /\ n # e
      BY <1>8, <1>14, <1>16, <1>18, <2>1
    <3>2. ~ nodes[n].sealed /\ ~ Held(n) /\ n # root
      BY <1>8, <2>1, <3>1 DEF Good, OpenApart
    <3>3. ~ nodes'[n].sealed /\ ~ Held(n)'
      BY <1>15, <1>22, <3>1, <3>2
    <3>4. \A l \in DOMAIN frames : frames[k].node = frames[l].node => k = l
      BY <1>8, <2>1 DEF Good, OpenApart
    <3>5. \A l \in DOMAIN frames' : frames'[k].node = frames'[l].node => k = l
      BY <1>8, <1>18, <2>1, <3>4
    <3> QED
      BY <3>1, <3>2, <3>3, <3>5
  <2> QED
    BY <2>1 DEF OpenApart
<1>24. ElementLoose'
  <2>1. ASSUME NEW k \in DOMAIN frames', frames'[k].elem # NULL
        PROVE  k = q /\ frames'[k].elem = e
    <3>1. k = q
      <4>1. SUFFICES ASSUME k # q PROVE FALSE
        OBVIOUS
      <4>2. k \in DOMAIN frames /\ k # m /\ frames[k].elem # NULL
        BY <1>8, <2>1, <4>1
      <4> QED
        BY <1>1, <4>2 DEF Good, ElementLoose
    <3> QED
      BY <1>6, <1>13, <3>1
  <2>2. ~ Held(e)' /\ e # root' /\ q = Len(frames')
    BY <1>6, <1>14, <1>22
  <2>3. \A l \in DOMAIN frames' : frames'[l].node # e
    BY <1>8, <1>14, <1>18
  <2> QED
    BY <2>1, <2>2, <2>3 DEF ElementLoose
<1>25. RootAbove'
  BY <1>0, <1>14, <1>15, <1>22 DEF Good, RootAbove, Typed
<1> QED
  BY <1>19, <1>20, <1>21, <1>23, <1>24, <1>25 DEF Good
(* ... as the root.                                                        *)
LEMMA CloseRootGood ==
  ASSUME Good, frames # <<>>, ~ multi,
         nodes' = Closed(nodes, Top, NULL), root' = Top.node, frames' = <<>>,
         UNCHANGED <<multi, immutable>>
  PROVE  Good'
<1>0. Typed /\ NULL \notin Nat /\ immutable \in BOOLEAN
  BY ParserAssumption DEF Good, Typed
<1>1. PICK m \in DOMAIN frames : Top = frames[m]
  BY <1>0, TopThere
<1>2. PICK e \in DOMAIN nodes : e = Top.node
  BY <1>0, <1>1, Parts
<1>3. /\ nodes' \in Seq(Nodes) /\ DOMAIN nodes' = DOMAIN nodes
      /\ \A n \in DOMAIN nodes : n # e => nodes'[n] = nodes[n]
      /\ nodes'[e].items = frames[m].items /\ nodes'[e].parent = NULL /\ nodes'[e].sealed = immutable
  BY <1>1, <1>2, ClosedNodes
<1>4. ~ Held(e)
  BY <1>1, <1>2 DEF Good, OpenApart
<1>5. /\ \A n \in DOMAIN nodes : \A i \in DOMAIN nodes[n].items :
           nodes[n].items[i].item \in DOMAIN nodes /\ nodes[n].items[i].item # e
      /\ \A i \in DOMAIN frames[m].items :
           frames[m].items[i].item \in DOMAIN nodes /\ frames[m].items[i].item # e
  BY <1>0, <1>4, Parts DEF Held
<1>6. DOMAIN frames' = {} /\ frames' \in Seq(Frames')
  OBVIOUS
<1>7. \A n \in DOMAIN nodes' : \A i \in DOMAIN nodes'[n].items :
        \/ n = e /\ i \in DOMAIN frames[m].items /\ nodes'[n].items[i] = frames[m].items[i]
        \/ n # e /\ i \in DOMAIN nodes[n].items /\ nodes'[n].items[i] = nodes[n].items[i]
  BY <1>3
<1>8. Typed'
  <2>1. Nodes' = Nodes
    BY <1>3 DEF Nodes, Slots
  <2> QED
    BY <1>0, <1>2, <1>3, <1>6, <2>1 DEF Typed
<1>9. SealedAsBuilt'
  <2>1. ASSUME immutable, NEW n \in DOMAIN nodes', NEW i \in DOMAIN nodes'[n].items
        PROVE  nodes'[nodes'[n].items[i].item].sealed
    <3>1. PICK c \in DOMAIN nodes : c = nodes'[n].items[i].item /\ c # e /\ nodes[c].sealed
      <4>1. CASE i \in DOMAIN frames[m].items /\ nodes'[n].items[i] = frames[m].items[i]
        BY <1>1, <1>5, <2>1, <4>1 DEF Good, SealedAsBuilt
      <4>2. CASE i \in DOMAIN nodes[n].items /\ nodes'[n].items[i] = nodes[n].items[i]
        BY <1>3, <1>5, <2>1, <4>2 DEF Good, SealedAsBuilt
      <4> QED
        BY <1>7, <2>1, <4>1, <4>2
    <3> QED
      BY <1>3, <3>1
  <2>2. immutable => nodes'[e].sealed
    BY <1>3
  <2> QED
    BY <1>2, <1>6, <2>1, <2>2 DEF SealedAsBuilt
<1>10. ParentKnown'
  <2>1. ASSUME NEW n \in DOMAIN nodes', NEW i \in DOMAIN nodes'[n].items
        PROVE  nodes'[nodes'[n].items[i].item].parent = n
    <3>1. PICK c \in DOMAIN nodes : c = nodes'[n].items[i].item /\ c # e /\ nodes[c].parent = n
      <4>1. CASE n = e /\ i \in DOMAIN frames[m].items /\ nodes'[n].items[i] = frames[m].items[i]
        BY <1>1, <1>2, <1>5, <4>1 DEF Good, ParentKnown
      <4>2. CASE i \in DOMAIN nodes[n].items /\ nodes'[n].items[i] = nodes[n].items[i]
        BY <1>3, <1>5, <2>1, <4>2 DEF Good, ParentKnown
      <4> QED
        BY <1>7, <2>1, <4>1, <4>2
    <3> QED
      BY <1>3, <3>1
  <2>2. \A n \in DOMAIN nodes' : \A i \in DOMAIN nodes'[n].items :
          nodes'[nodes'[n].items[i].item].parent
            = IF multi' /\ n = root' /\ i > 1 THEN NULL ELSE n
    BY <2>1
  <2>3. root' # NULL => nodes'[root'].parent = NULL
    BY <1>2, <1>3
  <2> QED
    BY <1>6, <2>2, <2>3 DEF ParentKnown
<1>11. OpenApart' /\ ElementLoose'
  BY <1>6 DEF OpenApart, ElementLoose
<1>12. \A c : Held(c)' => c # e
  <2>1. ASSUME NEW c, Held(c)'
        PROVE  c # e
    <3>1. PICK n \in DOMAIN nodes' : \E i \in DOMAIN nodes'[n].items : nodes'[n].items[i].item = c
      BY <1>6, <2>1 DEF Held
    <3>2. PICK i \in DOMAIN nodes'[n].items : nodes'[n].items[i].item = c
      BY <3>1
    <3> QED
      BY <1>3, <1>5, <1>7, <3>2
  <2> QED
    BY <2>1
<1>13. RootAbove'
  BY <1>2, <1>12 DEF RootAbove
<1> QED
  BY <1>8, <1>9, <1>10, <1>11, <1>13 DEF Good
(* ... as one more element of the root.                                    *)
LEMMA CloseMoreGood ==
  ASSUME Good, frames # <<>>, multi, root # NULL,
         nodes' = [Closed(nodes, Top, NULL) EXCEPT ![root].items = Append(@, Slot(NULL, Top.node))],
         frames' = <<>>, UNCHANGED <<root, multi, immutable>>
  PROVE  Good'
<1>0. Typed /\ NULL \notin Nat /\ immutable \in BOOLEAN /\ root \in DOMAIN nodes
  BY ParserAssumption DEF Good, Typed
<1>1. PICK m \in DOMAIN frames : Top = frames[m]
  BY <1>0, TopThere
<1>2. PICK e \in DOMAIN nodes : e = Top.node
  BY <1>0, <1>1, Parts
<1>3. PICK h : h = Closed(nodes, Top, NULL)
  OBVIOUS
<1>4. /\ h \in Seq(Nodes) /\ DOMAIN h = DOMAIN nodes /\ Len(h) = Len(nodes)
      /\ \A n \in DOMAIN nodes : n # e => h[n] = nodes[n]
      /\ h[e].items = frames[m].items /\ h[e].parent = NULL /\ h[e].sealed = immutable
  BY <1>1, <1>2, <1>3, ClosedNodes
<1>5. ~ Held(e) /\ e # root
  BY <1>1, <1>2 DEF Good, OpenApart
<1>6. /\ nodes[root] \in Nodes /\ nodes[root].items \in Seq(Slots) /\ nodes[root].items # <<>>
      /\ ~ nodes[root].sealed /\ ~ Held(root) /\ nodes[root].parent = NULL
  BY <1>0, Parts DEF Good, RootAbove, ParentKnown
<1>7. PICK w : w = Append(nodes[root].items, Slot(NULL, e))
  OBVIOUS
<1>8. PICK j \in Nat : j = Len(nodes[root].items) + 1 /\ j > 1
  <2>1. Len(nodes[root].items) \in Nat \ {0}
    BY <1>6
  <2> QED
    BY <2>1
<1>9. /\ w \in Seq(Slots) /\ w # <<>> /\ w[j].item = e /\ j \notin DOMAIN nodes[root].items
      /\ \A i \in DOMAIN w : i = j \/ (i \in DOMAIN nodes[root].items /\ w[i] = nodes[root].items[i])
  <2>1. PICK s \in Seq(Slots) : s = nodes[root].items
    BY <1>6
  <2>2. Slot(NULL, e) \in Slots /\ Slot(NULL, e).item = e
    BY DEF Slot, Slots
  <2>3. w = Append(s, Slot(NULL, e)) /\ j = Len(s) + 1
    BY <1>7, <1>8, <2>1
  <2>4. /\ w \in Seq(Slots) /\ DOMAIN w = 1 .. (Len(s) + 1) /\ w[Len(s) + 1] = Slot(NULL, e)
        /\ \A i \in DOMAIN s : w[i] = s[i]
        /\ DOMAIN s = 1 .. Len(s) /\ Len(s) \in Nat
    BY <2>2, <2>3, Appended
  <2>5. /\ w[j].item = e /\ j \notin DOMAIN s
        /\ \A i \in DOMAIN w : i = j \/ (i \in DOMAIN s /\ w[i] = s[i])
    BY <2>2, <2>3, <2>4
  <2>6. w # <<>>
    BY <2>4
  <2> QED
    BY <2>1, <2>4, <2>5, <2>6
<1>10. PICK x : x = [nodes[root] EXCEPT !.items = w]
  OBVIOUS
<1>11. /\ x \in Nodes /\ x.items = w /\ x.kind = nodes[root].kind /\ x.parent = NULL
       /\ x.sealed = nodes[root].sealed
  BY <1>6, <1>9, <1>10 DEF Nodes
<1>12. nodes' = [h EXCEPT ![root] = x]
  <2>1. h[root] = nodes[root] /\ root \in DOMAIN h
    BY <1>0, <1>4, <1>5
  <2>2. nodes' = [h EXCEPT ![root].items = Append(@, Slot(NULL, e))]
    BY <1>2, <1>3
  <2>3. nodes' = [h EXCEPT ![root] = [h[root] EXCEPT !.items = Append(h[root].items, Slot(NULL, e))]]
    BY <2>2
  <2> QED
    BY <1>7, <1>10, <2>1, <2>3
<1>13. /\ nodes' \in Seq(Nodes) /\ DOMAIN nodes' = DOMAIN nodes
       /\ \A n \in DOMAIN nodes : n # e /\ n # root => nodes'[n] = nodes[n]
       /\ nodes'[e].items = frames[m].items /\ nodes'[e].sealed = immutable
       /\ nodes'[e].parent = NULL
       /\ nodes'[root] = x
  <2>1. root \in 1 .. Len(h)
    BY <1>0, <1>4, Parts
  <2>2. [h EXCEPT ![root] = x] \in Seq(Nodes)
    BY <1>4, <1>11, <2>1, ExceptSeq
  <2>3. /\ DOMAIN [h EXCEPT ![root] = x] = DOMAIN h
        /\ [h EXCEPT ![root] = x][root] = x
        /\ \A n \in DOMAIN h : n # root => [h EXCEPT ![root] = x][n] = h[n]
    BY <1>0, <1>4
  <2> QED
    BY <1>4, <1>5, <1>12, <2>2, <2>3
<1>14. /\ \A n \in DOMAIN nodes : \A i \in DOMAIN nodes[n].items :
            /\ nodes[n].items[i].item \in DOMAIN nodes
            /\ nodes[n].items[i].item # e /\ nodes[n].items[i].item # root
       /\ \A i \in DOMAIN frames[m].items :
            /\ frames[m].items[i].item \in DOMAIN nodes
            /\ frames[m].items[i].item # e /\ frames[m].items[i].item # root
  BY <1>0, <1>5, <1>6, Parts DEF Held
<1>15. DOMAIN frames' = {} /\ frames' \in Seq(Frames')
  OBVIOUS
<1>16. ASSUME NEW n \in DOMAIN nodes', NEW i \in DOMAIN nodes'[n].items
       PROVE  \/ n = root /\ i = j /\ nodes'[n].items[i].item = e
              \/ /\ n = e /\ i \in DOMAIN frames[m].items
                 /\ nodes'[n].items[i] = frames[m].items[i]
              \/ /\ n # e /\ n \in DOMAIN nodes /\ i \in DOMAIN nodes[n].items
                 /\ nodes'[n].items[i] = nodes[n].items[i]
  <2>1. CASE n = root
    <3>1. nodes'[n].items = w /\ i \in DOMAIN w
      BY <1>11, <1>13, <1>16, <2>1
    <3> QED
      BY <1>0, <1>5, <1>9, <2>1, <3>1
  <2>2. CASE n = e
    BY <1>13, <1>16, <2>2
  <2>3. CASE n # root /\ n # e
    BY <1>13, <1>16, <2>3
  <2> QED
    BY <2>1, <2>2, <2>3
<1>17. \A c \in DOMAIN nodes : c # e /\ c # root => nodes'[c] = nodes[c]
  BY <1>13
<1>18. Typed'
  <2>1. Nodes' = Nodes
    BY <1>13 DEF Nodes, Slots
  <2> QED
    BY <1>0, <1>11, <1>13, <1>15, <2>1 DEF Typed
<1>19. SealedAsBuilt'
  <2>1. ASSUME immutable, NEW n \in DOMAIN nodes', NEW i \in DOMAIN nodes'[n].items
        PROVE  nodes'[nodes'[n].items[i].item].sealed
    <3>1. CASE nodes'[n].items[i].item = e
      BY <1>13, <2>1, <3>1
    <3>2. CASE i \in DOMAIN frames[m].items /\ nodes'[n].items[i] = frames[m].items[i]
      <4>1. PICK c \in DOMAIN nodes : c = nodes'[n].items[i].item /\ c # e /\ c # root /\ nodes[c].sealed
        BY <1>1, <1>14, <2>1, <3>2 DEF Good, SealedAsBuilt
      <4> QED
        BY <1>17, <4>1
    <3>3. CASE n \in DOMAIN nodes /\ i \in DOMAIN nodes[n].items
          /\ nodes'[n].items[i] = nodes[n].items[i]
      <4>1. PICK c \in DOMAIN nodes : c = nodes'[n].items[i].item /\ c # e /\ c # root /\ nodes[c].sealed
        BY <1>14, <2>1, <3>3 DEF Good, SealedAsBuilt
      <4> QED
        BY <1>17, <4>1
    <3>4. \/ nodes'[n].items[i].item = e
          \/ i \in DOMAIN frames[m].items /\ nodes'[n].items[i] = frames[m].items[i]
          \/ /\ n \in DOMAIN nodes /\ i \in DOMAIN nodes[n].items
             /\ nodes'[n].items[i] = nodes[n].items[i]
      BY <1>16, <2>1
    <3> QED
      BY <3>1, <3>2, <3>3, <3>4
  <2> QED
    BY <1>15, <2>1 DEF SealedAsBuilt
<1>20. ParentKnown'
  <2>1. ASSUME NEW n \in DOMAIN nodes', NEW i \in DOMAIN nodes'[n].items
        PROVE  nodes'[nodes'[n].items[i].item].parent = IF multi /\ n = root /\ i > 1 THEN NULL ELSE n
    <3>1. CASE n = root /\ i = j /\ nodes'[n].items[i].item = e
      BY <1>8, <1>13, <3>1
    <3>2. CASE n = e /\ i \in DOMAIN frames[m].items /\ nodes'[n].items[i] = frames[m].items[i]
      <4>1. PICK c \in DOMAIN nodes : c = nodes'[n].items[i].item /\ c # e /\ c # root /\ nodes[c].parent = n
        BY <1>1, <1>2, <1>14, <3>2 DEF Good, ParentKnown
      <4>2. nodes'[c].parent = n
        BY <1>17, <4>1
      <4> QED
        BY <1>5, <3>2, <4>1, <4>2
    <3>3. CASE n \in DOMAIN nodes /\ i \in DOMAIN nodes[n].items
          /\ nodes'[n].items[i] = nodes[n].items[i]
      <4>1. PICK c \in DOMAIN nodes :
              /\ c = nodes'[n].items[i].item /\ c # e /\ c # root
              /\ nodes[c].parent = IF multi /\ n = root /\ i > 1 THEN NULL ELSE n
        BY <1>14, <3>3 DEF Good, ParentKnown
      <4> QED
        BY <1>17, <4>1
    <3> QED
      BY <1>16, <2>1, <3>1, <3>2, <3>3, SMTT(30)
  <2>2. \A n \in DOMAIN nodes' : \A i \in DOMAIN nodes'[n].items :
          nodes'[nodes'[n].items[i].item].parent
            = IF multi' /\ n = root' /\ i > 1 THEN NULL ELSE n
    BY <2>1
  <2>3. root' # NULL => nodes'[root'].parent = NULL
    BY <1>11, <1>13
  <2> QED
    BY <1>15, <2>2, <2>3 DEF ParentKnown
<1>21. OpenApart' /\ ElementLoose'
  BY <1>15 DEF OpenApart, ElementLoose
<1>22. \A c : Held(c)' => c # root
  <2>1. ASSUME NEW c, Held(c)'
        PROVE  c # root
    <3>1. PICK n \in DOMAIN nodes' : \E i \in DOMAIN nodes'[n].items : nodes'[n].items[i].item = c
      BY <1>15, <2>1 DEF Held
    <3>2. PICK i \in DOMAIN nodes'[n].items : nodes'[n].items[i].item = c
      BY <3>1
    <3> QED
      BY <1>5, <1>14, <1>16, <3>2
  <2> QED
    BY <2>1
<1>23. RootAbove'
  BY <1>6, <1>9, <1>11, <1>13, <1>22 DEF RootAbove
<1> QED
  BY <1>18, <1>19, <1>20, <1>21, <1>23 DEF Good
-----------------------------------------------------------------------------
(* What the actions are made of                                            *)

(* The types of the state are part of the invariant.                       *)
LEMMA TypesFit ==
  ASSUME IInv
  PROVE  TypeOK
  BY DEF IInv, Good, Typed, Settled, Heard, TypeOK

(* A token is read.                                                        *)
LEMMA Listens ==
  ASSUME Heard, NEW t \in Token, See(t), Keep(t) \/ Eat(t), result' = result
  PROVE  Heard'
<1>1. look' \in Token \cup {NULL}
  BY DEF Keep, Eat
<1>2. text' \in Seq(Token)
  <2>1. Append(text, t) \in Seq(Token)
    BY DEF Heard
  <2> QED
    BY <2>1 DEF Heard, See
<1> QED
  BY <1>1, <1>2 DEF Heard

(* The statement is refused.                                               *)
LEMMA FailStep ==
  ASSUME Good, Settled, NEW c \in Codes, Fail(c), state # "idle", UNCHANGED immutable
  PROVE  Good' /\ Settled'
<1>1. /\ frames' = <<>> /\ state' = "after" /\ outcome' = c
      /\ UNCHANGED <<nodes, root, multi, vars>>
  BY DEF Fail, Finish, Tree
<1>2. Good'
  BY <1>1, LeftGood
<1>3. Settled'
  BY <1>1 DEF Settled
<1> QED
  BY <1>2, <1>3

(* The frame reads on.                                                     *)
LEMMA TurnStep ==
  ASSUME Good, Settled, state = "inside", NEW f, ReadsOn(f), Turn(f), UNCHANGED immutable
  PROVE  Good' /\ Settled'
<1>1. /\ frames # <<>> /\ frames' = Append(Front(frames), f)
      /\ UNCHANGED <<nodes, root, multi, state, vars, outcome>>
  BY DEF Settled, Turn, Replace
<1>2. Good'
  BY <1>1, TurnGood
<1>3. frames' # <<>>
  <2>1. Len(frames') = Len(frames) /\ Len(frames) \in Nat \ {0}
    BY <1>1, TopReplaced DEF Good
  <2> QED
    BY <2>1
<1>4. Settled'
  BY <1>1, <1>3 DEF Settled
<1> QED
  BY <1>2, <1>4

(* The element that was parsed is added.                                   *)
LEMMA AddStep ==
  ASSUME Good, Settled, state = "inside", Top.elem # NULL, NEW s, Add(s), UNCHANGED immutable
  PROVE  Good' /\ Settled'
<1>1. /\ frames # <<>> /\ frames' = Append(Front(frames), Holding(Top))
      /\ nodes' = [SetParent(nodes, Top.elem, Top.node) EXCEPT ![Top.elem].sealed = @ \/ immutable]
      /\ UNCHANGED <<root, multi, state, vars, outcome>>
  BY DEF Settled, Add, Replace
<1>2. Good'
  BY <1>1, AddGood
<1>3. frames' # <<>>
  <2>1. Len(frames') = Len(frames) /\ Len(frames) \in Nat \ {0}
    BY <1>1, TopReplaced DEF Good
  <2> QED
    BY <2>1
<1>4. Settled'
  BY <1>1, <1>3 DEF Settled
<1> QED
  BY <1>2, <1>4

(* A container begins, or is too deep.                                     *)
LEMMA OpenStep ==
  ASSUME Good, Settled, state = "inside", Top.elem = NULL, NEW t \in Opening, Open(t),
         UNCHANGED immutable
  PROVE  Good' /\ Settled'
<1>1. CASE Len(frames) >= MaxDepth
  BY <1>1, FailStep DEF Open, Codes
<1>2. CASE ~ (Len(frames) >= MaxDepth)
  <2>1. /\ nodes' = Append(nodes, Node(t)) /\ frames' = Append(frames, Opened(t, New))
        /\ UNCHANGED <<root, multi, state, vars, outcome>>
    BY <1>2 DEF Open, Begin, New
  <2>2. frames # <<>> /\ Typed
    BY DEF Good, Settled
  <2>3. \A k \in DOMAIN frames : frames[k].elem = NULL
    BY <2>2, TopThere DEF Good, ElementLoose
  <2>4. Good'
    BY <2>1, <2>3, BeginGood
  <2>5. frames' # <<>>
    <3>1. frames \in Seq(Frames)
      BY <2>2 DEF Typed
    <3>2. Len(frames') = Len(frames) + 1 /\ Len(frames) \in Nat
      BY <2>1, <3>1, Appended
    <3> QED
      BY <3>2
  <2>6. Settled'
    BY <2>1, <2>5 DEF Settled
  <2> QED
    BY <2>4, <2>6
<1> QED
  BY <1>1, <1>2

(* A value that is an element, or is none.                                 *)
LEMMA ValueStep ==
  ASSUME Good, Settled, state = "inside", NEW t \in Token, Value(t), UNCHANGED immutable
  PROVE  Good' /\ Settled'
<1>1. CASE t \in Scalar
  <2>1. /\ nodes' = Append(nodes, Leaf(t))
        /\ frames' = Append(Front(frames), [Top EXCEPT !.elem = New, !.at = "sep"])
        /\ UNCHANGED <<root, multi, state, vars, outcome>>
    <3>1. t # "IDENT"
      BY <1>1 DEF Scalar, String
    <3>2. /\ nodes' = Append(nodes, Leaf(t))
          /\ Replace([Top EXCEPT !.elem = Len(nodes) + 1, !.at = "sep"])
      BY <1>1, <3>1 DEF Value
    <3> QED
      BY <3>2 DEF Replace, New
  <2>2. frames # <<>> /\ Typed
    BY DEF Good, Settled
  <2>3. Good'
    BY <1>1, <2>1, <2>2, ElementGood
  <2>4. frames' # <<>>
    <3>1. Len(frames') = Len(frames) /\ Len(frames) \in Nat \ {0}
      BY <2>1, <2>2, TopReplaced
    <3> QED
      BY <3>1
  <2>5. Settled'
    BY <2>1, <2>4 DEF Settled
  <2> QED
    BY <2>3, <2>5
<1>2. CASE t \notin Scalar
  <2>1. Fail("INVALID_BAREWORD") \/ Fail("PARSE")
    BY <1>2 DEF Value, Scalar, String
  <2>2. "INVALID_BAREWORD" \in Codes /\ "PARSE" \in Codes
    BY DEF Codes
  <2>3. state # "idle"
    OBVIOUS
  <2> QED
    BY <2>1, <2>2, <2>3, FailStep
<1> QED
  BY <1>1, <1>2

(* A container is complete.                                                *)
LEMMA CloseStep ==
  ASSUME Good, Settled, state = "inside", NEW t, Close(t), UNCHANGED immutable
  PROVE  Good' /\ Settled'
<1>0. frames # <<>> /\ Typed /\ (multi => root # NULL) /\ multi \in BOOLEAN
  BY DEF Good, Settled, Typed
<1>1. CASE Front(frames) # <<>>
  <2>1. /\ nodes' = Closed(nodes, Top, Last(Front(frames)).node)
        /\ frames' = Append(Front(Front(frames)),
                            [Last(Front(frames)) EXCEPT !.elem = Top.node, !.at = "sep"])
        /\ UNCHANGED <<state, vars, outcome, root, multi>>
    BY <1>1 DEF Close
  <2>2. Good'
    BY <1>0, <1>1, <2>1, CloseInnerGood
  <2>3. frames' # <<>>
    <3>1. PICK rest \in Seq(Frames) : rest = Front(frames)
      BY <1>0, Shortened DEF Typed
    <3>2. PICK f : frames' = Append(Front(rest), f) /\ rest # <<>>
      BY <1>1, <2>1, <3>1
    <3>3. Len(Append(Front(rest), f)) = Len(rest) /\ Len(rest) \in Nat \ {0}
      BY <3>2, LastReplaced
    <3> QED
      BY <3>2, <3>3
  <2>4. Settled'
    BY <2>1, <2>3 DEF Settled
  <2> QED
    BY <2>2, <2>4
<1>2. CASE Front(frames) = <<>>
  <2>1. /\ outcome' = "ok" /\ state' = "after" /\ frames' = <<>> /\ UNCHANGED <<vars, multi>>
        /\ IF multi
           THEN /\ nodes' = [Closed(nodes, Top, NULL)
                               EXCEPT ![root].items = Append(@, Slot(NULL, Top.node))]
                /\ UNCHANGED root
           ELSE nodes' = Closed(nodes, Top, NULL) /\ root' = Top.node
    BY <1>2 DEF Close, Finish
  <2>2. CASE multi
    <3>1. Good'
      BY <1>0, <2>1, <2>2, CloseMoreGood
    <3>2. Settled'
      BY <1>0, <2>1, <2>2 DEF Settled
    <3> QED
      BY <3>1, <3>2
  <2>3. CASE ~ multi
    <3>1. Good'
      BY <1>0, <2>1, <2>3, CloseRootGood
    <3>2. Settled'
      BY <1>0, <2>1, <2>3 DEF Settled
    <3> QED
      BY <3>1, <3>2
  <2> QED
    BY <1>0, <2>2, <2>3
<1> QED
  BY <1>1, <1>2
-----------------------------------------------------------------------------
(* The actions                                                             *)

(* What the types say of the innermost frame.                              *)
LEMMA TopTyped ==
  ASSUME Good, Settled, state = "inside"
  PROVE  /\ Top \in Frames /\ frames # <<>>
         /\ Top.at \in {"sep", "comma"} <=> Top.elem # NULL
         /\ Top.name # NULL => Top.kind = "{"
<1>1. Typed /\ frames # <<>>
  BY DEF Good, Settled
<1>2. Top \in Frames /\ Top = frames[Len(frames)] /\ Len(frames) \in DOMAIN frames
  BY <1>1, TopThere
<1> QED
  BY <1>1, <1>2 DEF Typed

(* json_parse_array                                                        *)
LEMMA ArrayStep ==
  ASSUME Good, Settled, state = "inside", NEW t \in Token, UNCHANGED immutable,
         ArrayNext(t) \/ ArraySep(t) \/ ArrayComma(t)
  PROVE  Good' /\ Settled'
<1>1. /\ Top \in Frames
      /\ Top.at \in {"sep", "comma"} <=> Top.elem # NULL
      /\ Top.name # NULL => Top.kind = "{"
  BY TopTyped
<1>2. CASE ArrayNext(t)
  <2>1. Top.elem = NULL
    BY <1>1, <1>2 DEF ArrayNext
  <2>2. Close(t) \/ (t \in Opening /\ Open(t)) \/ Value(t)
    BY <1>2 DEF ArrayNext, Opening
  <2> QED
    BY <2>1, <2>2, CloseStep, OpenStep, ValueStep
<1>3. CASE ArraySep(t)
  <2>0. Top.at = "sep"
    BY <1>3 DEF ArraySep
  <2>1. Top.at = "sep" /\ Top.elem # NULL
    BY <1>1, <2>0
  <2>2. Turn([Top EXCEPT !.at = "comma"]) \/ Add("array-element") \/ Fail("MISSING_COMMA")
    BY <1>3 DEF ArraySep
  <2>3. ReadsOn([Top EXCEPT !.at = "comma"])
    BY <1>1, <2>1 DEF ReadsOn, Frames
  <2>4. "MISSING_COMMA" \in Codes /\ state # "idle"
    BY DEF Codes
  <2> QED
    BY <2>1, <2>2, <2>3, <2>4, TurnStep, AddStep, FailStep
<1>4. CASE ArrayComma(t)
  <2>0. Top.at = "comma"
    BY <1>4 DEF ArrayComma
  <2>1. Top.at = "comma" /\ Top.elem # NULL
    BY <1>1, <2>0
  <2>2. Add("array-element") \/ Fail("TRAILING_COMMA")
    BY <1>4 DEF ArrayComma
  <2>3. "TRAILING_COMMA" \in Codes /\ state # "idle"
    BY DEF Codes
  <2> QED
    BY <2>1, <2>2, <2>3, AddStep, FailStep
<1> QED
  BY <1>2, <1>3, <1>4

(* json_parse_object                                                       *)
LEMMA ObjectStep ==
  ASSUME Good, Settled, state = "inside", NEW t \in Token, UNCHANGED immutable,
         \/ ObjectNext(t) \/ ObjectColon(t) \/ ObjectValue(t)
         \/ ObjectSep(t) \/ ObjectComma(t)
  PROVE  Good' /\ Settled'
<1>1. /\ Top \in Frames
      /\ Top.at \in {"sep", "comma"} <=> Top.elem # NULL
      /\ Top.name # NULL => Top.kind = "{"
  BY TopTyped
<1>2. /\ "MISSING_COMMA" \in Codes /\ "TRAILING_COMMA" \in Codes /\ "INVALID_BAREWORD" \in Codes
      /\ "MISSING_COLON" \in Codes /\ state # "idle"
  BY DEF Codes
<1>3. CASE ObjectNext(t)
  <2>1. Top.kind = "{" /\ Top.elem = NULL
    BY <1>1, <1>3 DEF ObjectNext
  <2>2. \/ Close(t)
        \/ t \in String /\ Turn([Top EXCEPT !.name = t, !.at = "colon"])
        \/ Fail("INVALID_BAREWORD")
    BY <1>3 DEF ObjectNext
  <2>3. ASSUME t \in String
        PROVE  ReadsOn([Top EXCEPT !.name = t, !.at = "colon"])
    <3>1. PICK f \in Frames : f = Top
      BY <1>1
    <3>2. PICK g : g = [f EXCEPT !.name = t, !.at = "colon"]
      OBVIOUS
    <3>3. /\ g \in Frames /\ g.node = f.node /\ g.items = f.items /\ g.elem = f.elem
          /\ g.kind = f.kind /\ g.at = "colon"
      BY <2>3, <3>1, <3>2 DEF Frames
    <3>4. ReadsOn(g)
      BY <2>1, <3>1, <3>3 DEF ReadsOn
    <3> QED
      BY <3>1, <3>2, <3>4
  <2> QED
    BY <1>2, <2>2, <2>3, CloseStep, TurnStep, FailStep
<1>4. CASE ObjectColon(t)
  <2>1. Top.kind = "{" /\ Top.elem = NULL
    <3>1. Top.kind = "{" /\ Top.at = "colon"
      BY <1>4 DEF ObjectColon
    <3> QED
      BY <1>1, <3>1
  <2>2. Turn([Top EXCEPT !.at = "value"]) \/ Fail("MISSING_COLON")
    BY <1>4 DEF ObjectColon
  <2>3. ReadsOn([Top EXCEPT !.at = "value"])
    <3>1. PICK f \in Frames : f = Top
      BY <1>1
    <3>2. PICK g : g = [f EXCEPT !.at = "value"]
      OBVIOUS
    <3>3. /\ g \in Frames /\ g.node = f.node /\ g.items = f.items /\ g.elem = f.elem
          /\ g.kind = f.kind /\ g.at = "value"
      BY <3>1, <3>2 DEF Frames
    <3>4. ReadsOn(g)
      BY <2>1, <3>1, <3>3 DEF ReadsOn
    <3> QED
      BY <3>1, <3>2, <3>4
  <2> QED
    BY <1>2, <2>2, <2>3, TurnStep, FailStep
<1>5. CASE ObjectValue(t)
  <2>1. Top.elem = NULL
    BY <1>1, <1>5 DEF ObjectValue
  <2>2. (t \in Opening /\ Open(t)) \/ Value(t)
    BY <1>5 DEF ObjectValue
  <2> QED
    BY <2>1, <2>2, OpenStep, ValueStep
<1>6. CASE ObjectSep(t)
  <2>0. Top.at = "sep"
    BY <1>6 DEF ObjectSep
  <2>1. Top.at = "sep" /\ Top.elem # NULL
    BY <1>1, <2>0
  <2>2. Turn([Top EXCEPT !.at = "comma"]) \/ Add("object-member") \/ Fail("MISSING_COMMA")
    BY <1>6 DEF ObjectSep
  <2>3. ReadsOn([Top EXCEPT !.at = "comma"])
    BY <1>1, <2>1 DEF ReadsOn, Frames
  <2> QED
    BY <1>2, <2>1, <2>2, <2>3, TurnStep, AddStep, FailStep
<1>7. CASE ObjectComma(t)
  <2>0. Top.at = "comma"
    BY <1>7 DEF ObjectComma
  <2>1. Top.elem # NULL
    BY <1>1, <2>0
  <2>2. Add("object-member") \/ Fail("TRAILING_COMMA")
    BY <1>7 DEF ObjectComma
  <2> QED
    BY <1>2, <2>1, <2>2, AddStep, FailStep
<1> QED
  BY <1>3, <1>4, <1>5, <1>6, <1>7

(* json_parse_array, json_parse_object.                                    *)
LEMMA InsideStep ==
  ASSUME IInv, Inside
  PROVE  IInv'
<1>1. state = "inside" /\ Same
  BY DEF Inside
<1>2. PICK t \in Token :
        /\ See(t)
        /\ \/ ArrayNext(t) \/ ArraySep(t) \/ ArrayComma(t)
           \/ ObjectNext(t) \/ ObjectColon(t) \/ ObjectValue(t)
           \/ ObjectSep(t) \/ ObjectComma(t)
  BY DEF Inside
<1>3. Good' /\ Settled'
  BY <1>1, <1>2, ArrayStep, ObjectStep DEF IInv, Same
<1>4. Keep(t) \/ Eat(t)
  BY <1>2 DEF ArrayNext, ArraySep, ArrayComma, ObjectNext, ObjectColon, ObjectValue, ObjectSep,
              ObjectComma, Open, Begin, Close, Value
<1>5. Heard'
  BY <1>1, <1>2, <1>4, Listens DEF IInv, Same
<1> QED
  BY <1>3, <1>5 DEF IInv

(* json_parse_statement, at its first token                                *)
LEMMA OpenStatementStep ==
  ASSUME Good, Settled, state = "statement", NEW t \in Token, OpenStatement(t),
         UNCHANGED immutable
  PROVE  Good' /\ Settled'
<1>0. frames = <<>> /\ Typed /\ immutable \in BOOLEAN /\ multi \in BOOLEAN /\ t \in Opening
  BY DEF Good, Settled, Typed, OpenStatement
<1>1. /\ "INVALID_STRUCTURE" \in Codes /\ "NESTING" \in Codes /\ state # "idle"
  BY DEF Codes
<1>2. CASE Fail("INVALID_STRUCTURE") \/ Fail("NESTING")
  BY <1>1, <1>2, FailStep
<1>3. CASE ~ (Fail("INVALID_STRUCTURE") \/ Fail("NESTING"))
  <2>1. /\ IF Extra /\ ~ multi
           THEN root' = Len(nodes) + 1 /\ Begin(t, MultiRoot)
           ELSE Begin(t, nodes) /\ UNCHANGED root
        /\ multi' = (multi \/ Extra) /\ state' = "inside" /\ UNCHANGED <<vars, outcome>>
    BY <1>3 DEF OpenStatement
  <2>2. CASE Extra /\ ~ multi
    <3>1. /\ nodes' = Append(MultiRoot, Node(t))
          /\ frames' = Append(frames, Opened(t, Len(MultiRoot) + 1))
          /\ root' = New /\ multi' = TRUE /\ root # NULL
      BY <2>1, <2>2 DEF Begin, New, Extra
    <3>2. Good'
      BY <1>0, <2>2, <3>1, MultiRootGood
    <3>3. frames' # <<>> /\ root' # NULL
      BY <1>0, <3>1, Parts, ParserAssumption DEF New
    <3>4. Settled'
      BY <2>1, <3>3 DEF Settled
    <3> QED
      BY <3>2, <3>4
  <2>3. CASE ~ (Extra /\ ~ multi)
    <3>1. /\ nodes' = Append(nodes, Node(t)) /\ frames' = Append(frames, Opened(t, New))
          /\ UNCHANGED root
      BY <2>1, <2>3 DEF Begin, New
    <3>2. multi' = multi
      BY <1>0, <2>1, <2>3 DEF Extra
    <3>3. Good'
      BY <1>0, <3>1, <3>2, BeginGood
    <3>4. frames' # <<>>
      BY <1>0, <3>1
    <3>5. Settled'
      BY <2>1, <3>1, <3>2, <3>4 DEF Settled
    <3> QED
      BY <3>3, <3>5
  <2> QED
    BY <2>2, <2>3
<1> QED
  BY <1>2, <1>3

(* json_parse_statement.                                                   *)
LEMMA StatementStep ==
  ASSUME IInv, Statement
  PROVE  IInv'
<1>0. /\ state = "statement" /\ Good /\ Settled /\ Heard /\ frames = <<>>
      /\ "INVALID_BAREWORD" \in Codes /\ "INVALID_ASSIGNMENT" \in Codes
  BY DEF Statement, IInv, Settled, Codes
<1>1. PICK t \in Token :
        /\ See(t)
        /\ \/ EndOfText(t)
           \/ Same /\ (\/ OpenStatement(t) \/ VarStatement(t)
                       \/ ValueStatement(t) \/ UnknownStatement(t))
  BY DEF Statement
<1>2. CASE EndOfText(t)
  <2>1. /\ Keep(t) /\ state' = "idle" /\ result' = TRUE
        /\ UNCHANGED <<immutable, root, multi, nodes, vars, frames, outcome>>
    BY <1>2 DEF EndOfText, Tree
  <2>2. Good'
    BY <1>0, <2>1, SameGood
  <2>3. Settled'
    BY <1>0, <2>1 DEF Settled
  <2>4. look' \in Token \cup {NULL} /\ text' \in Seq(Token)
    <3>1. Append(text, t) \in Seq(Token)
      BY <1>0 DEF Heard
    <3> QED
      BY <1>0, <1>1, <2>1, <3>1 DEF Heard, Keep, See
  <2>5. Heard'
    BY <2>1, <2>4 DEF Heard
  <2> QED
    BY <2>2, <2>3, <2>5 DEF IInv
<1>3. ASSUME Same, \/ OpenStatement(t) \/ VarStatement(t)
                   \/ ValueStatement(t) \/ UnknownStatement(t)
      PROVE  IInv'
  <2>1. Heard'
    <3>1. Keep(t) \/ Eat(t)
      BY <1>3 DEF OpenStatement, VarStatement, ValueStatement, UnknownStatement, Begin
    <3> QED
      BY <1>0, <1>1, <1>3, <3>1, Listens DEF Same
  <2>2. UNCHANGED immutable
    BY <1>3 DEF Same
  <2>3. CASE OpenStatement(t)
    BY <1>0, <2>1, <2>2, <2>3, OpenStatementStep DEF IInv
  <2>4. CASE VarStatement(t)
    <3>1. CASE Fail("INVALID_ASSIGNMENT")
      BY <1>0, <2>1, <2>2, <3>1, FailStep DEF IInv
    <3>2. CASE state' = "name" /\ UNCHANGED <<vars, frames, outcome, Tree>>
      <4>1. UNCHANGED <<nodes, frames, root, multi, immutable, vars, outcome>>
        BY <2>2, <3>2 DEF Tree
      <4>2. Good'
        BY <1>0, <4>1, SameGood
      <4>3. Settled'
        BY <1>0, <3>2, <4>1 DEF Settled
      <4> QED
        BY <2>1, <4>2, <4>3 DEF IInv
    <3> QED
      BY <2>4, <3>1, <3>2 DEF VarStatement
  <2>5. CASE ValueStatement(t)
    <3>1. CASE Fail("INVALID_BAREWORD")
      BY <1>0, <2>1, <2>2, <3>1, FailStep DEF IInv
    <3>2. CASE ~ Fail("INVALID_BAREWORD")
      <4>1. /\ root = NULL /\ t \in Scalar /\ nodes' = Append(nodes, Leaf(t)) /\ root' = New
            /\ outcome' = "ok" /\ state' = "after" /\ frames' = <<>> /\ UNCHANGED <<vars, multi>>
        BY <2>5, <3>2 DEF ValueStatement, Extra, Finish, New
      <4>2. ~ multi
        BY <1>0, <4>1 DEF Settled
      <4>3. Good'
        BY <1>0, <2>2, <4>1, <4>2, ValueGood
      <4>4. Settled'
        BY <1>0, <4>1, <4>2 DEF Settled
      <4> QED
        BY <2>1, <4>3, <4>4 DEF IInv
    <3> QED
      BY <3>1, <3>2
  <2>6. CASE UnknownStatement(t)
    <3>1. Fail("INVALID_BAREWORD")
      BY <2>6 DEF UnknownStatement
    <3> QED
      BY <1>0, <2>1, <2>2, <3>1, FailStep DEF IInv
  <2> QED
    BY <1>3, <2>3, <2>4, <2>5, <2>6
<1> QED
  BY <1>1, <1>2, <1>3

(* json_parse_statement, after "var"                                       *)
LEMMA AssignmentStep ==
  ASSUME IInv, VariableName \/ EqualsSign
  PROVE  IInv'
<1>0. /\ state \in {"name", "equals"} /\ Good /\ Settled /\ Heard
      /\ "INVALID_BAREWORD" \in Codes
  BY DEF VariableName, EqualsSign, IInv, Codes
<1>1. UNCHANGED <<immutable, result>>
  BY DEF VariableName, EqualsSign, Same
<1>2. PICK t \in Token :
        /\ See(t) /\ Eat(t)
        /\ \/ Fail("INVALID_BAREWORD")
           \/ state' = "equals" /\ UNCHANGED <<vars, frames, outcome, Tree>>
           \/ vars' = vars + 1 /\ state' = "statement" /\ UNCHANGED <<frames, outcome, Tree>>
  BY DEF VariableName, EqualsSign
<1>3. Heard'
  BY <1>0, <1>1, <1>2, Listens
<1>4. CASE Fail("INVALID_BAREWORD")
  <2>1. state # "idle"
    BY <1>0
  <2> QED
    BY <1>0, <1>1, <1>3, <1>4, <2>1, FailStep DEF IInv
<1>5. CASE ~ Fail("INVALID_BAREWORD")
  <2>1. /\ UNCHANGED <<nodes, frames, root, multi, immutable, outcome>>
        /\ state' \in {"equals", "statement"} /\ vars' \in {vars, vars + 1}
    BY <1>1, <1>2, <1>5 DEF Tree
  <2>2. Good'
    BY <1>0, <2>1, SameGood
  <2>3. Settled'
    BY <1>0, <2>1 DEF Settled
  <2> QED
    BY <1>3, <2>2, <2>3 DEF IInv
<1> QED
  BY <1>4, <1>5

(* ... and after a statement                                               *)
LEMMA AfterStep ==
  ASSUME IInv, Semicolon \/ NextStatement \/ Stop
  PROVE  IInv'
<1>0. state = "after" /\ Good /\ Settled /\ Heard /\ frames = <<>>
  BY DEF Semicolon, NextStatement, Stop, IInv, Settled
<1>1. UNCHANGED <<immutable, nodes, root, multi, frames>>
  BY DEF Semicolon, NextStatement, Stop, Same, Tree
<1>2. Good'
  BY <1>0, <1>1, SameGood
<1>3. CASE Semicolon
  <2>1. PICK t \in Token : See(t) /\ (Keep(t) \/ Eat(t)) /\ outcome' \in {"ok", outcome}
    BY <1>3 DEF Semicolon
  <2>2. Heard'
    BY <1>0, <1>3, <2>1, Listens DEF Semicolon, Same
  <2>3. vars' \in Nat
    <3>1. vars \in Nat /\ vars > 0 /\ vars' = vars - 1
      BY <1>0, <1>3 DEF Semicolon, Settled
    <3> QED
      BY <3>1
  <2>4. Settled'
    BY <1>0, <1>1, <1>3, <2>1, <2>3 DEF Settled, Semicolon
  <2> QED
    BY <1>2, <2>2, <2>4 DEF IInv
<1>4. CASE NextStatement \/ Stop
  <2>1. /\ UNCHANGED <<vars, outcome, look, text>> /\ state' \in {"statement", "idle"}
        /\ result' \in {FALSE, result}
    BY <1>4 DEF NextStatement, Stop, Same
  <2>2. Heard'
    BY <1>0, <2>1 DEF Heard
  <2>3. Settled'
    BY <1>0, <1>1, <2>1 DEF Settled
  <2> QED
    BY <1>2, <2>2, <2>3 DEF IInv
<1> QED
  BY <1>3, <1>4

(* Between loads.                                                          *)
LEMMA IdleStep ==
  ASSUME IInv, Load \/ LoadRefused \/ SetStrict \/ StealRoot
  PROVE  IInv'
<1>0. state = "idle" /\ Good /\ Settled /\ Heard /\ Typed /\ frames = <<>>
  BY DEF Load, LoadRefused, SetStrict, StealRoot, IInv, Settled, Good
<1>1. /\ UNCHANGED immutable /\ frames' = <<>> /\ text' = <<>> /\ look' = NULL
      /\ vars' \in {vars, 0} /\ outcome' = "ok" /\ result' \in {NULL, FALSE}
      /\ state' \in {"idle", "statement"}
  BY <1>0 DEF Load, LoadRefused, SetStrict, StealRoot, Forget
<1>2. \/ root' = NULL /\ nodes' = <<>> /\ multi' \in {FALSE, multi}
      \/ UNCHANGED <<root, multi, nodes>>
  BY DEF Load, LoadRefused, SetStrict, StealRoot, Clear, Tree
<1>3. Good'
  <2>1. CASE root' = NULL /\ nodes' = <<>> /\ multi' \in {FALSE, multi}
    BY <1>0, <1>1, <2>1, ClearGood DEF Typed
  <2>2. CASE UNCHANGED <<root, multi, nodes>>
    <3>1. frames' = frames
      BY <1>0, <1>1
    <3> QED
      BY <1>0, <1>1, <2>2, <3>1, SameGood
  <2> QED
    BY <1>2, <2>1, <2>2
<1>4. multi' /\ state' # "idle" => root' # NULL
  <2>1. state' # "idle" => multi' = FALSE
    BY <1>0 DEF Load, LoadRefused, SetStrict, StealRoot, Clear, Forget
  <2> QED
    BY <2>1
<1>5. Settled'
  BY <1>0, <1>1, <1>4 DEF Settled
<1>6. Heard'
  <2>1. text' \in Seq(Token) /\ look' \in Token \cup {NULL}
    BY <1>1
  <2>2. result' \in BOOLEAN \cup {NULL}
    BY <1>1
  <2> QED
    BY <2>1, <2>2 DEF Heard
<1> QED
  BY <1>3, <1>5, <1>6 DEF IInv
-----------------------------------------------------------------------------
(* The new parser.                                                         *)
LEMMA InitStep ==
  ASSUME Init
  PROVE  IInv
<1>1. /\ nodes = <<>> /\ frames = <<>> /\ root = NULL /\ multi = FALSE /\ immutable \in BOOLEAN
      /\ text = <<>> /\ look = NULL /\ result = NULL
      /\ vars = 0 /\ outcome = "ok" /\ state = "idle"
  BY DEF Init
<1>2. Typed
  <2>1. nodes \in Seq(Nodes) /\ frames \in Seq(Frames) /\ DOMAIN frames = {}
    BY <1>1
  <2> QED
    BY <1>1, <2>1 DEF Typed
<1>3. SealedAsBuilt /\ ParentKnown
  BY <1>1 DEF SealedAsBuilt, ParentKnown
<1>4. OpenApart /\ ElementLoose /\ RootAbove
  BY <1>1 DEF OpenApart, ElementLoose, RootAbove
<1>5. Settled
  BY <1>1 DEF Settled
<1>6. Heard
  BY <1>1 DEF Heard
<1> QED
  BY <1>2, <1>3, <1>4, <1>5, <1>6 DEF IInv, Good

(* Every step.                                                             *)
LEMMA NextStep ==
  ASSUME IInv, [Next]_all
  PROVE  IInv'
<1>1. CASE Load \/ LoadRefused \/ SetStrict \/ StealRoot
  BY <1>1, IdleStep
<1>2. CASE Statement
  BY <1>2, StatementStep
<1>3. CASE VariableName \/ EqualsSign
  BY <1>3, AssignmentStep
<1>4. CASE Semicolon \/ NextStatement \/ Stop
  BY <1>4, AfterStep
<1>5. CASE Inside
  BY <1>5, InsideStep
<1>6. CASE UNCHANGED all
  <2>1. UNCHANGED <<nodes, frames, root, multi, immutable, state, vars, outcome, look, text,
                    result>>
    BY <1>6 DEF all, parse
  <2>2. Good'
    BY <2>1, SameGood DEF IInv
  <2>3. Settled'
    BY <2>1 DEF IInv, Settled
  <2>4. Heard'
    BY <2>1 DEF IInv, Heard
  <2> QED
    BY <2>2, <2>3, <2>4 DEF IInv
<1> QED
  BY <1>1, <1>2, <1>3, <1>4, <1>5, <1>6 DEF Next, Parsing

(* The tree, the frames and the statement under way agree with each other  *)
(* in every state of the parser, for texts of any length.                  *)
THEOREM Inductive == Spec => []IInv
<1>1. Init => IInv
  BY InitStep
<1>2. IInv /\ [Next]_all => IInv'
  BY NextStep
<1> QED
  BY <1>1, <1>2, PTL DEF Spec

(* json_parser_load and the handlers it calls keep the types of the state: *)
(* the frames of the recursion are those of the statement under way, what  *)
(* they hold are nodes, and the root of several values is an array.        *)
THEOREM TypesKept == Spec => []TypeOK
<1>1. IInv => TypeOK
  BY TypesFit
<1> QED
  BY <1>1, Inductive, PTL

(* An immutable parser seals each element before json_array_add_element or *)
(* json_object_set_member holds it, and the root when it is complete.      *)
THEOREM SealedWhenBuilt == Spec => []SealedAsBuilt
<1>1. IInv => SealedAsBuilt
  BY DEF IInv, Good
<1> QED
  BY <1>1, Inductive, PTL

(* Each node the parser has put into a container has that container for    *)
(* its parent, and the root has none: json_node_set_parent comes before    *)
(* the container is sealed, in every order of the tokens.                  *)
THEOREM ParentsKnown == Spec => []ParentKnown
<1>1. IInv => ParentKnown
  BY DEF IInv, Good
<1> QED
  BY <1>1, Inductive, PTL
-----------------------------------------------------------------------------
(* A nonempty set of numbers has a least one.                              *)
LEMMA Least ==
  ASSUME NEW S \in SUBSET Nat, S # {}
  PROVE  \E m \in S : \A k \in S : m <= k
<1> DEFINE R == OpToRel(<, Nat)
<1>1. IsWellFoundedOn(R, Nat)
  BY NatLessThanWellFounded
<1>2. \A x, y \in Nat : x < y => <<x, y>> \in R
  BY DEF OpToRel
<1> HIDE DEF R
<1>3. PICK x \in S : \A y \in S : ~ (<<y, x>> \in R)
  BY <1>1, WFMin
<1>4. ASSUME NEW k \in S PROVE x <= k
  <2>1. k \in Nat /\ x \in Nat
    OBVIOUS
  <2>2. ~ (<<k, x>> \in R)
    BY <1>3
  <2>3. ~ (k < x)
    BY <2>1, <2>2, <1>2
  <2> QED BY <2>1, <2>3
<1> QED BY <1>4

(* Counting up.                                                            *)
LEMMA Upwards ==
  ASSUME NEW P \in SUBSET Nat, 0 \in P, \A n \in P : n + 1 \in P
  PROVE  P = Nat
<1> SUFFICES ASSUME NEW n \in Nat, n \notin P PROVE FALSE
  OBVIOUS
<1> DEFINE Q == Nat \ P
<1>1. PICK m \in Q : \A k \in Q : m <= k
  <2>1. Q \in SUBSET Nat /\ Q # {}
    OBVIOUS
  <2> HIDE DEF Q
  <2> QED BY <2>1, Least
<1>2. m \in Nat /\ m # 0 /\ m \notin P
  OBVIOUS
<1>3. m - 1 \in Nat /\ m - 1 \notin Q
  BY <1>1, <1>2
<1>4. m - 1 \in P
  BY <1>3
<1> QED BY <1>2, <1>4

-----------------------------------------------------------------------------
(* A span is made of its three parts.                                      *)
LEMMA Triple ==
  ASSUME NEW A, NEW B, NEW C, NEW s \in A \X B \X C
  PROVE  s[1] \in A /\ s[2] \in B /\ s[3] \in C /\ s = <<s[1], s[2], s[3]>>
OBVIOUS

(* The spans of a text of n tokens.                                        *)
LEMMA SpanIs ==
  ASSUME NEW t, NEW n \in Nat, Len(t) = n
  PROVE  /\ \A c, i, j : <<c, i, j>> \in T!Spans(t)
                <=> c \in T!Opening /\ i \in 1 .. n /\ j \in 1 .. n /\ i <= j
         /\ \A s \in T!Spans(t) : /\ s[1] \in T!Opening /\ s[2] \in 1 .. n /\ s[3] \in 1 .. n
                                  /\ s[2] <= s[3] /\ s = <<s[1], s[2], s[3]>>
<1>1. ASSUME NEW c, NEW i, NEW j
      PROVE  <<c, i, j>> \in T!Spans(t)
               <=> c \in T!Opening /\ i \in 1 .. n /\ j \in 1 .. n /\ i <= j
  BY DEF T!Spans
<1>2. ASSUME NEW s \in T!Spans(t)
      PROVE  /\ s[1] \in T!Opening /\ s[2] \in 1 .. n /\ s[3] \in 1 .. n
             /\ s[2] <= s[3] /\ s = <<s[1], s[2], s[3]>>
  <2>1. s \in T!Opening \X (1 .. n) \X (1 .. n) /\ s[2] <= s[3]
    BY DEF T!Spans
  <2> QED BY <2>1, Triple
<1> QED BY <1>1, <1>2

(* f and g have the same lists shorter than d.                             *)
Alike(n, d, f, g) ==
  \A c \in T!Opening, i, j \in 1 .. n : i <= j /\ j - i < d => g[<<c, i, j>>] = f[<<c, i, j>>]

(* A reading of a value looks at shorter lists only.                       *)
LEMMA ValuesLook ==
  ASSUME NEW t, NEW n \in Nat, NEW f, NEW g, NEW d \in Int, Alike(n, d, f, g),
         NEW i \in 1 .. n, NEW j \in 1 .. n, i <= j, j - i <= d
  PROVE  T!Values(t, i, j, g) = T!Values(t, i, j, f)
<1>1. ASSUME i # j, j # i + 1, t[i] \in T!Opening
      PROVE  g[<<t[i], i + 1, j - 1>>] = f[<<t[i], i + 1, j - 1>>]
  <2>1. i + 1 \in 1 .. n /\ j - 1 \in 1 .. n /\ i + 1 <= j - 1 /\ (j - 1) - (i + 1) < d
    BY <1>1
  <2> QED BY <1>1, <2>1 DEF Alike
<1>2. CASE i = j
  BY <1>2 DEF T!Values
<1>3. CASE i # j
  <2>1. (IF t[i] \notin T!Opening \/ t[j] # T!Closing(t[i]) THEN {}
         ELSE IF j = i + 1 THEN {T!Nothing} ELSE g[<<t[i], i + 1, j - 1>>])
          = (IF t[i] \notin T!Opening \/ t[j] # T!Closing(t[i]) THEN {}
             ELSE IF j = i + 1 THEN {T!Nothing} ELSE f[<<t[i], i + 1, j - 1>>])
    BY <1>1, <1>3
  <2> QED BY <1>3, <2>1, Zenon DEF T!Values
<1> QED BY <1>2, <1>3

(* The value of a part is inside it.                                       *)
LEMMA WhereValue ==
  ASSUME NEW t, NEW n \in Nat, NEW c, NEW i \in 1 .. n, NEW j \in 1 .. n, i <= j
  PROVE  /\ T!ValueAt(c, i) = i \/ T!ValueAt(c, i) = i + 2
         /\ T!Begun(t, c, i, j) => T!ValueAt(c, i) \in i .. j
<1>1. CASE c = "["
  <2>1. T!ValueAt(c, i) = i
    BY <1>1 DEF T!ValueAt
  <2> HIDE <1>1
  <2> QED BY <2>1
<1>2. CASE c # "["
  <2>1. T!ValueAt(c, i) = i + 2 /\ (T!Begun(t, c, i, j) => i + 2 <= j)
    BY <1>2, Zenon DEF T!ValueAt, T!Begun
  <2> HIDE <1>2
  <2> QED BY <2>1
<1> QED BY <1>1, <1>2

(* A comma is where it is looked for.                                      *)
LEMMA CommaIs ==
  ASSUME NEW t, NEW i \in Int, NEW j \in Int, NEW k \in T!Commas(t, i, j)
  PROVE  k \in i .. j
BY DEF T!Commas

(* ... and no more do the parts of a list.                                 *)
LEMMA PartsLook ==
  ASSUME NEW t, NEW n \in Nat, NEW f, NEW g, NEW d \in Int, Alike(n, d, f, g), NEW c, NEW before,
         NEW i \in 1 .. n, NEW j \in 1 .. n, i <= j, j - i <= d
  PROVE  T!Parts(t, c, i, j, before, g) = T!Parts(t, c, i, j, before, f)
<1>1. ASSUME T!Begun(t, c, i, j)
      PROVE  T!Values(t, T!ValueAt(c, i), j, g) = T!Values(t, T!ValueAt(c, i), j, f)
  <2>1. PICK p : p = T!ValueAt(c, i)
    OBVIOUS
  <2>2. p \in i .. j
    BY <1>1, <2>1, WhereValue
  <2>3. p \in 1 .. n /\ p <= j /\ j - p <= d
    BY <2>2
  <2>4. T!Values(t, p, j, g) = T!Values(t, p, j, f)
    BY <2>3, ValuesLook
  <2> QED BY <2>1, <2>4
<1> QED BY <1>1 DEF T!Parts

(* ... nor its lists, which are of shorter ones.                           *)
LEMMA ListsLook ==
  ASSUME NEW t, NEW n \in Nat, NEW f, NEW g, NEW c \in T!Opening,
         NEW i \in 1 .. n, NEW j \in 1 .. n, i <= j, Alike(n, j - i, f, g)
  PROVE  T!ListsIn(t, c, i, j, g) = T!ListsIn(t, c, i, j, f)
<1>1. ASSUME NEW p \in i .. j, NEW before
      PROVE  T!Parts(t, c, p, j, before, g) = T!Parts(t, c, p, j, before, f)
  <2>1. p \in 1 .. n /\ p <= j /\ j - p <= j - i /\ j - i \in Int
    OBVIOUS
  <2> QED BY <2>1, PartsLook
<1>2. ASSUME NEW k \in T!Commas(t, i + 1, j - 1)
      PROVE  UNION {T!Parts(t, c, k + 1, j, l, g) : l \in g[<<c, i, k - 1>>]}
               = UNION {T!Parts(t, c, k + 1, j, l, f) : l \in f[<<c, i, k - 1>>]}
  <2>1. k \in i + 1 .. j - 1
    BY CommaIs
  <2>2. k + 1 \in i .. j /\ k - 1 \in 1 .. n /\ i <= k - 1 /\ (k - 1) - i < j - i
    BY <2>1
  <2>3. \A l : T!Parts(t, c, k + 1, j, l, g) = T!Parts(t, c, k + 1, j, l, f)
    BY <1>1, <2>2
  <2>4. g[<<c, i, k - 1>>] = f[<<c, i, k - 1>>]
    BY <2>2 DEF Alike
  <2> QED BY <2>3, <2>4
<1>3. T!Parts(t, c, i, j, T!Nothing, g) = T!Parts(t, c, i, j, T!Nothing, f)
  BY <1>1
<1>4. {UNION {T!Parts(t, c, k + 1, j, l, g) : l \in g[<<c, i, k - 1>>]} : k \in T!Commas(t, i + 1, j - 1)}
        = {UNION {T!Parts(t, c, k + 1, j, l, f) : l \in f[<<c, i, k - 1>>]} : k \in T!Commas(t, i + 1, j - 1)}
  BY <1>2
<1> QED BY <1>3, <1>4 DEF T!ListsIn

(* The table of the lists solves its equation.                             *)
LEMMA ListsAre ==
  ASSUME NEW t, NEW n \in Nat, Len(t) = n
  PROVE  T!Lists(t) = [s \in T!Spans(t) |-> T!ListsIn(t, s[1], s[2], s[3], T!Lists(t))]
<1> DEFINE In(s, f) == T!ListsIn(t, s[1], s[2], s[3], f)
           Solves(d, f) ==
             /\ f = [s \in T!Spans(t) |-> f[s]]
             /\ \A s \in T!Spans(t) : s[3] - s[2] < d => f[s] = In(s, f)
           Solved == {d \in Nat : \E f : Solves(d, f)}
<1>0. \A s \in T!Spans(t) : /\ s[1] \in T!Opening /\ s[2] \in 1 .. n /\ s[3] \in 1 .. n
                            /\ s[2] <= s[3] /\ s = <<s[1], s[2], s[3]>>
  BY SpanIs
<1>1. 0 \in Solved
  <2>1. \A s \in T!Spans(t) : ~ (s[3] - s[2] < 0)
    BY <1>0
  <2>2. Solves(0, [s \in T!Spans(t) |-> {}])
    BY <2>1
  <2> HIDE DEF Solves
  <2> QED BY <2>2
<1>2. ASSUME NEW d \in Solved PROVE d + 1 \in Solved
  <2>1. PICK f : Solves(d, f)
    BY <1>2
  <2>2. d \in Nat
    BY <1>2
  <2> DEFINE g == [s \in T!Spans(t) |-> IF s[3] - s[2] = d THEN In(s, f) ELSE f[s]]
  <2> HIDE DEF In
  <2>3. ASSUME NEW s \in T!Spans(t), s[3] - s[2] < d + 1 PROVE g[s] = In(s, g)
    <3>1. g[s] = In(s, f)
      <4>1. s[3] - s[2] = d \/ s[3] - s[2] < d
        BY <1>0, <2>2, <2>3
      <4> QED BY <2>1, <4>1
    <3>2. Alike(n, s[3] - s[2], f, g)
      <4> SUFFICES ASSUME NEW c \in T!Opening, NEW i \in 1 .. n, NEW j \in 1 .. n, i <= j,
                          j - i < s[3] - s[2]
                   PROVE  g[<<c, i, j>>] = f[<<c, i, j>>]
        BY DEF Alike
      <4>1. j - i # d
        BY <1>0, <2>2, <2>3
      <4>2. <<c, i, j>> \in T!Spans(t)
        BY SpanIs
      <4>3. PICK r \in T!Spans(t) : r = <<c, i, j>>
        BY <4>2
      <4>4. r[3] - r[2] # d
        BY <4>1, <4>3
      <4>5. g[r] = f[r]
        BY <4>4
      <4> QED BY <4>3, <4>5
    <3>3. In(s, g) = In(s, f)
      <4> HIDE DEF g
      <4> QED BY <1>0, <3>2, ListsLook DEF In
    <3> QED BY <3>1, <3>3
  <2>4. g = [s \in T!Spans(t) |-> g[s]]
    OBVIOUS
  <2> HIDE DEF g
  <2>5. Solves(d + 1, g)
    BY <2>3, <2>4
  <2> QED BY <2>2, <2>5
<1>3. Solved = Nat
  <2> HIDE DEF Solved
  <2>1. Solved \in SUBSET Nat
    BY DEF Solved
  <2> QED BY <1>1, <1>2, <2>1, Upwards
<1>4. \E f : f = [s \in T!Spans(t) |-> In(s, f)]
  <2>1. PICK f : Solves(n, f)
    BY <1>3
  <2>2. \A s \in T!Spans(t) : s[3] - s[2] < n
    BY <1>0
  <2> HIDE DEF In
  <2>3. \A s \in T!Spans(t) : f[s] = In(s, f)
    BY <2>1, <2>2
  <2>4. f = [s \in T!Spans(t) |-> In(s, f)]
    BY <2>1, <2>3
  <2> QED BY <2>4
<1> QED BY <1>4 DEF T!Lists

(* So does the table of the texts that end at a token.                     *)
LEMMA PrefixesAre ==
  ASSUME NEW t, NEW n \in Nat, Len(t) = n, NEW s
  PROVE  T!Prefixes(t, s) = [j \in 0 .. n |-> T!TextsTo(t, j, s, T!Prefixes(t, s))]
<1> DEFINE Solves(d, f) ==
             /\ f = [j \in 0 .. n |-> f[j]]
             /\ \A j \in 0 .. n : j < d => f[j] = T!TextsTo(t, j, s, f)
           Solved == {d \in Nat : \E f : Solves(d, f)}
<1>1. 0 \in Solved
  <2>1. Solves(0, [j \in 0 .. n |-> {}])
    OBVIOUS
  <2> HIDE DEF Solves
  <2> QED BY <2>1
<1>2. ASSUME NEW d \in Solved PROVE d + 1 \in Solved
  <2>1. PICK f : Solves(d, f)
    BY <1>2
  <2>2. d \in Nat
    BY <1>2
  <2> DEFINE g == [j \in 0 .. n |-> IF j = d THEN T!TextsTo(t, j, s, f) ELSE f[j]]
  <2>3. ASSUME NEW j \in 0 .. n, j < d + 1 PROVE g[j] = T!TextsTo(t, j, s, g)
    <3>1. g[j] = T!TextsTo(t, j, s, f)
      <4>1. j = d \/ j < d
        BY <2>2, <2>3
      <4> QED BY <2>1, <4>1
    <3>2. \A k \in 0 .. j - 1 : g[k] = f[k]
      BY <2>2, <2>3
    <3> DEFINE K == {k \in 0 .. j - 1 : k = 0 \/ (~ s /\ t[k + 1] \in T!Opening)}
    <3> HIDE DEF g
    <3>3. {UNION {{T!Longer(before, NULL, v, <<>>) : v \in T!Readings(t, k + 1, j)} : before \in g[k]} : k \in K}
            = {UNION {{T!Longer(before, NULL, v, <<>>) : v \in T!Readings(t, k + 1, j)} : before \in f[k]} : k \in K}
      <4>1. \A k \in K : g[k] = f[k]
        BY <3>2
      <4> HIDE DEF K
      <4> QED BY <4>1
    <3>4. T!TextsTo(t, j, s, g) = T!TextsTo(t, j, s, f)
      BY <3>3 DEF T!TextsTo
    <3> QED BY <3>1, <3>4
  <2>4. g = [j \in 0 .. n |-> g[j]]
    OBVIOUS
  <2> HIDE DEF g
  <2>5. Solves(d + 1, g)
    BY <2>3, <2>4
  <2> QED BY <2>2, <2>5
<1>3. Solved = Nat
  <2> HIDE DEF Solved
  <2>1. Solved \in SUBSET Nat
    BY DEF Solved
  <2> QED BY <1>1, <1>2, <2>1, Upwards
<1>4. \E f : f = [j \in 0 .. n |-> T!TextsTo(t, j, s, f)]
  <2>0. n + 1 \in Solved
    BY <1>3
  <2>1. PICK f : Solves(n + 1, f)
    BY <2>0
  <2>2. \A j \in 0 .. n : j < n + 1
    OBVIOUS
  <2>3. \A j \in 0 .. n : f[j] = T!TextsTo(t, j, s, f)
    BY <2>1, <2>2
  <2>4. f = [j \in 0 .. n |-> T!TextsTo(t, j, s, f)]
    BY <2>1, <2>3
  <2> QED BY <2>4
<1> QED BY <1>4 DEF T!Prefixes

-----------------------------------------------------------------------------
(* The language, rule by rule.                                             *)

ScalarReading(k) == [tree |-> [kind |-> k, items |-> <<>>], said |-> <<>>]
ContainerReading(c, l) ==
  [tree |-> [kind |-> c, items |-> l.items], said |-> <<c>> \o l.said \o <<T!Closing(c)>>]

(* A scalar reads as itself.                                               *)
LEMMA ScalarRead ==
  ASSUME NEW t, NEW i, t[i] \in Scalar
  PROVE  ScalarReading(t[i]) \in T!Readings(t, i, i)
<1>1. t[i] \in {t[i]} \cap ({"INT"} \cup String)
  BY DEF Scalar
<1> QED BY <1>1 DEF T!Readings, T!Values, ScalarReading

(* Between brackets a list reads as a container.                           *)
LEMMA ContainerRead ==
  ASSUME NEW t, NEW i \in Nat, NEW j \in Nat, i < j, t[i] \in T!Opening, t[j] = T!Closing(t[i]),
         NEW l, IF j = i + 1 THEN l = T!Nothing ELSE l \in T!Lists(t)[<<t[i], i + 1, j - 1>>]
  PROVE  ContainerReading(t[i], l) \in T!Readings(t, i, j)
<1>1. i # j
  OBVIOUS
<1>2. l \in (IF t[i] \notin T!Opening \/ t[j] # T!Closing(t[i]) THEN {}
             ELSE IF j = i + 1 THEN {T!Nothing} ELSE T!Lists(t)[<<t[i], i + 1, j - 1>>])
  BY Zenon
<1> QED BY <1>1, <1>2, Zenon DEF T!Readings, T!Values, ContainerReading

(* The part that begins at p is the first of the list that begins at i, or *)
(* follows a comma behind the list l.                                      *)
Follows(t, c, i, l, p) ==
  \/ l = T!Nothing /\ p = i
  \/ p - 1 \in T!Commas(t, i + 1, p - 1) /\ l \in T!Lists(t)[<<c, i, p - 2>>]

(* A list is a part, or a part behind a comma behind a list.               *)
LEMMA ListRead ==
  ASSUME NEW t, NEW n \in Nat, Len(t) = n, NEW c \in T!Opening, NEW i \in 1 .. n,
         NEW j \in 1 .. n,
         NEW p \in i .. j, NEW l, Follows(t, c, i, l, p), T!Begun(t, c, p, j),
         NEW v \in T!Readings(t, T!ValueAt(c, p), j)
  PROVE  T!Longer(l, T!NameAt(t, c, p), v, T!Past(c)) \in T!Lists(t)[<<c, i, j>>]
<1>1. T!Longer(l, T!NameAt(t, c, p), v, T!Past(c)) \in T!Parts(t, c, p, j, l, T!Lists(t))
  BY DEF T!Parts, T!Readings
<1>2. T!Longer(l, T!NameAt(t, c, p), v, T!Past(c)) \in T!ListsIn(t, c, i, j, T!Lists(t))
  <2>1. CASE l = T!Nothing /\ p = i
    BY <1>1, <2>1 DEF T!ListsIn
  <2>2. CASE p - 1 \in T!Commas(t, i + 1, p - 1) /\ l \in T!Lists(t)[<<c, i, p - 2>>]
    <3>1. PICK k \in T!Commas(t, i + 1, j - 1) : k = p - 1
      <4>1. p - 1 \in i + 1 .. p - 1
        BY <2>2, CommaIs
      <4>2. p - 1 \in i + 1 .. j - 1
        BY <4>1
      <4> QED BY <2>2, <4>2, Zenon DEF T!Commas
    <3>2. k + 1 = p /\ k - 1 = p - 2
      BY <3>1
    <3>3. T!Longer(l, T!NameAt(t, c, p), v, T!Past(c))
            \in UNION {T!Parts(t, c, k + 1, j, m, T!Lists(t)) : m \in T!Lists(t)[<<c, i, k - 1>>]}
      BY <1>1, <2>2, <3>2, Zenon
    <3> DEFINE Behind(m) == UNION {T!Parts(t, c, m + 1, j, b, T!Lists(t)) : b \in T!Lists(t)[<<c, i, m - 1>>]}
    <3>4. T!Longer(l, T!NameAt(t, c, p), v, T!Past(c)) \in Behind(k)
      BY <3>3
    <3>5. T!ListsIn(t, c, i, j, T!Lists(t))
            = T!Parts(t, c, i, j, T!Nothing, T!Lists(t)) \cup UNION {Behind(m) : m \in T!Commas(t, i + 1, j - 1)}
      BY DEF T!ListsIn
    <3> HIDE DEF Behind
    <3> QED BY <3>1, <3>4, <3>5
  <2> QED BY <2>1, <2>2 DEF Follows
<1>3. PICK s \in T!Spans(t) : s = <<c, i, j>>
  <2>1. i <= j
    OBVIOUS
  <2>2. <<c, i, j>> \in T!Spans(t)
    BY <2>1, SpanIs
  <2> QED BY <2>2
<1>4. T!Lists(t)[s] = T!ListsIn(t, s[1], s[2], s[3], T!Lists(t))
  BY ListsAre
<1> QED BY <1>2, <1>3, <1>4

(* A text is a value behind a text, if need be of one value.               *)
LEMMA TextRead ==
  ASSUME NEW t, NEW n \in Nat, Len(t) = n, NEW s, NEW i \in 0 .. n, NEW j \in 0 .. n, i < j,
         i = 0 \/ (~ s /\ t[i + 1] \in T!Opening),
         NEW before \in T!Prefixes(t, s)[i], NEW v \in T!Readings(t, i + 1, j)
  PROVE  T!Longer(before, NULL, v, <<>>) \in T!Prefixes(t, s)[j]
<1>1. i \in {k \in 0 .. j - 1 : k = 0 \/ (~ s /\ t[k + 1] \in T!Opening)} /\ j # 0
  OBVIOUS
<1>2. T!Longer(before, NULL, v, <<>>) \in T!TextsTo(t, j, s, T!Prefixes(t, s))
  <2>1. T!Longer(before, NULL, v, <<>>) \in {T!Longer(before, NULL, w, <<>>) : w \in T!Readings(t, i + 1, j)}
    OBVIOUS
  <2>2. T!Longer(before, NULL, v, <<>>)
          \in UNION {{T!Longer(b, NULL, w, <<>>) : w \in T!Readings(t, i + 1, j)} : b \in T!Prefixes(t, s)[i]}
    BY <2>1
  <2> DEFINE After(k) == UNION {{T!Longer(b, NULL, w, <<>>) : w \in T!Readings(t, k + 1, j)} : b \in T!Prefixes(t, s)[k]}
             K == {k \in 0 .. j - 1 : k = 0 \/ (~ s /\ t[k + 1] \in T!Opening)}
  <2>3. T!Longer(before, NULL, v, <<>>) \in After(i)
    BY <2>2
  <2>4. T!TextsTo(t, j, s, T!Prefixes(t, s)) = UNION {After(k) : k \in K}
    BY <1>1 DEF T!TextsTo
  <2>5. i \in K
    BY <1>1
  <2> HIDE DEF After, K
  <2> QED BY <2>3, <2>4, <2>5
<1> QED BY <1>2, PrefixesAre

(* Before the first token nothing has been read.                           *)
LEMMA NothingRead ==
  ASSUME NEW t, NEW n \in Nat, Len(t) = n, NEW s
  PROVE  T!Prefixes(t, s)[0] = {T!Nothing}
<1>1. T!TextsTo(t, 0, s, T!Prefixes(t, s)) = {T!Nothing}
  BY DEF T!TextsTo
<1> QED BY <1>1, PrefixesAre

-----------------------------------------------------------------------------
(* What has been read of a text                                            *)

(* u goes on from the first c tokens of s.                                 *)
Extends(u, s, c) ==
  u \in Seq(Token) /\ c \in 0 .. Len(u) /\ \A i \in 1 .. c : u[i] = s[i]

(* Of the frame f, h has where it begins in the text, a reading of its     *)
(* list so far, and where the part that is being read begins; and what was *)
(* heard before f.                                                         *)
Behind(u, f, h) == Follows(u, f.kind, h.from + 1, h.list, h.part)

(* The value of the part begins at b.                                      *)
Awaits(u, f, h, b) ==
  /\ Behind(u, f, h)
  /\ f.name = T!NameAt(u, f.kind, h.part) /\ b = T!ValueAt(f.kind, h.part)
  /\ f.kind = "[" \/ T!Named(u, h.part)

Has(u, f, h, v, c) ==
  \E b \in h.part .. c : Awaits(u, f, h, b) /\ v \in T!Readings(u, b, c)

Leads(k, t) == IF k = "[" THEN t # T!Closing(k) ELSE t \in String

(* A part begins, the first or one behind a comma; or there is no more of  *)
(* them.                                                                   *)
Fresh(u, f, h, c, l) ==
  /\ Behind(u, f, h) /\ h.part = c + 1 /\ f.name = NULL
  /\ h.part # h.from + 1 => l # NULL /\ l # T!Closing(f.kind)
Ended(u, f, h, c, l) ==
  /\ h.list \in T!Lists(u)[<<f.kind, h.from + 1, c>>] /\ h.from < c /\ f.name = NULL
  /\ l # NULL /\ ~ Leads(f.kind, l)

IsComma(t) == t = ","

ReadsTop(u, f, h, v, c, l) ==
  /\ f.at = "next" => Fresh(u, f, h, c, l) \/ Ended(u, f, h, c, l)
  /\ f.at = "colon" => /\ f.kind # "[" /\ Behind(u, f, h) /\ h.part = c
                       /\ f.name = u[c] /\ f.name \in String
  /\ f.at = "value" => f.kind # "[" /\ Awaits(u, f, h, c + 1)
  /\ f.at = "sep" => Has(u, f, h, v, c)
  /\ f.at = "comma" => Has(u, f, h, v, c - 1) /\ IsComma(u[c])

(* So far a reading of the text to its place p.to, and then the frames fs. *)
ReadsText(u, fs, g, v, p, c, l, s) ==
  /\ p.list \in T!Prefixes(u, s)[p.to]
  /\ fs = <<>> => p.to = c
  /\ fs # <<>> => /\ g[1].from = p.to + 1
                  /\ ReadsTop(u, fs[Len(fs)], g[Len(fs)], v, c, l)
  /\ \A k \in DOMAIN fs : u[g[k].from] = fs[k].kind
  /\ \A k \in DOMAIN fs : k # Len(fs) => Awaits(u, fs[k], g[k], g[k + 1].from)

Placed(fs, g, p, c) ==
  /\ c \in Nat /\ p.to \in 0 .. c
  /\ \A k \in DOMAIN fs : g[k].from \in 1 .. c /\ g[k].part \in g[k].from + 1 .. c + 1

(* The part has begun where its value is.                                  *)
LEMMA PartBegun ==
  ASSUME NEW u, NEW f, NEW h, NEW b \in Nat, Awaits(u, f, h, b), NEW j \in Nat, b <= j,
         h.part \in Nat
  PROVE  T!Begun(u, f.kind, h.part, j) /\ h.part <= b
<1>1. CASE f.kind = "["
  <2>1. T!Begun(u, f.kind, h.part, j) /\ T!ValueAt(f.kind, h.part) = h.part
    BY <1>1 DEF T!Begun, T!ValueAt
  <2> QED BY <2>1 DEF Awaits
<1>2. CASE f.kind # "["
  <2>1. T!Named(u, h.part) /\ b = h.part + 2
    BY <1>2, Zenon DEF Awaits, T!ValueAt
  <2>2. h.part + 2 <= j /\ h.part <= b
    BY <2>1
  <2> QED BY <2>1, <2>2 DEF T!Begun
<1> QED BY <1>1, <1>2

(* The list grows by the part that has been read.                          *)
LEMMA PartRead ==
  ASSUME NEW u, NEW n \in Nat, Len(u) = n, NEW f, f.kind \in T!Opening, NEW h, NEW v,
         NEW c \in 0 .. n, h.from \in 1 .. n, h.part \in h.from + 1 .. n + 1,
         Has(u, f, h, v, c)
  PROVE  /\ T!Longer(h.list, f.name, v, T!Past(f.kind)) \in T!Lists(u)[<<f.kind, h.from + 1, c>>]
         /\ h.from < c
<1>1. PICK b \in h.part .. c : Awaits(u, f, h, b) /\ v \in T!Readings(u, b, c)
  BY DEF Has
<1>2. PICK i \in 1 .. n, p \in 1 .. n : i = h.from + 1 /\ p = h.part /\ p \in i .. c
  BY <1>1
<1>3. b \in Nat /\ b <= c /\ c \in Nat /\ p \in Nat /\ c \in 1 .. n
  BY <1>1, <1>2
<1>4. T!Begun(u, f.kind, p, c)
  BY <1>1, <1>2, <1>3, PartBegun
<1>5. /\ Follows(u, f.kind, i, h.list, p) /\ f.name = T!NameAt(u, f.kind, p)
      /\ v \in T!Readings(u, T!ValueAt(f.kind, p), c)
  BY <1>1, <1>2 DEF Awaits, Behind
<1>6. T!Longer(h.list, T!NameAt(u, f.kind, p), v, T!Past(f.kind)) \in T!Lists(u)[<<f.kind, i, c>>]
  BY <1>2, <1>3, <1>4, <1>5, ListRead
<1>7. h.from < c
  BY <1>2
<1> QED BY <1>2, <1>5, <1>6, <1>7

(* The turns of the innermost frame.                                       *)
LEMMA FreshAwaits ==
  ASSUME NEW u, NEW f, NEW h, NEW c, NEW l, Fresh(u, f, h, c, l), f.kind = "["
  PROVE  Awaits(u, f, h, c + 1)
BY Zenon DEF Fresh, Awaits, T!NameAt, T!ValueAt

(* The name of a member is read.                                           *)
LEMMA NameTurn ==
  ASSUME NEW u, NEW f, NEW f2, NEW h, NEW v, NEW c, NEW l, NEW l2, f.kind # "[",
         Fresh(u, f, h, c, l), f2.kind = f.kind, f2.at = "colon", f2.name = u[c + 1],
         u[c + 1] \in String
  PROVE  ReadsTop(u, f2, h, v, c + 1, l2)
BY DEF Fresh, ReadsTop, Behind

(* The colon behind the name is read.                                      *)
LEMMA ColonTurn ==
  ASSUME NEW u, NEW f, NEW f2, NEW h, NEW v, NEW c \in Nat, NEW l, NEW l2,
         ReadsTop(u, f, h, v, c, l), f.at = "colon", f2.kind = f.kind, f2.at = "value",
         f2.name = f.name,
         u[c + 1] = ":"
  PROVE  ReadsTop(u, f2, h, v, c + 1, l2)
<1>1. /\ f.kind # "[" /\ Behind(u, f, h) /\ h.part = c
      /\ f.name = u[c] /\ f.name \in String
  BY DEF ReadsTop
<1>2. T!NameAt(u, f.kind, c) = u[c] /\ T!ValueAt(f.kind, c) = c + 2
  BY <1>1, Zenon DEF T!NameAt, T!ValueAt
<1>3. T!Named(u, c)
  BY <1>1 DEF T!Named
<1>4. (c + 1) + 1 = c + 2
  OBVIOUS
<1>5. Awaits(u, f2, h, (c + 1) + 1)
  BY <1>1, <1>2, <1>3, <1>4, Zenon DEF Awaits, Behind
<1> QED BY <1>1, <1>5, Zenon DEF ReadsTop

(* The value that was awaited is read.                                     *)
LEMMA ValueTurn ==
  ASSUME NEW u, NEW f, NEW f2, NEW h, NEW v, NEW c \in Nat, NEW l2, NEW b \in Nat, b <= c,
         h.part \in Nat, Awaits(u, f, h, b), v \in T!Readings(u, b, c),
         f2.kind = f.kind, f2.at = "sep", f2.name = f.name
  PROVE  ReadsTop(u, f2, h, v, c, l2)
<1>1. h.part <= b
  BY PartBegun
<1>2. b \in h.part .. c
  BY <1>1
<1>3. Awaits(u, f2, h, b)
  BY DEF Awaits, Behind
<1> QED BY <1>2, <1>3 DEF ReadsTop, Has

(* The comma behind the value is read.                                     *)
LEMMA CommaTurn ==
  ASSUME NEW u, NEW f, NEW f2, NEW h, NEW v, NEW c \in Nat, NEW l, NEW l2,
         ReadsTop(u, f, h, v, c, l), f.at = "sep", f2.kind = f.kind, f2.at = "comma",
         f2.name = f.name,
         IsComma(u[c + 1])
  PROVE  ReadsTop(u, f2, h, v, c + 1, l2)
<1>1. PICK b \in h.part .. c : Awaits(u, f, h, b) /\ v \in T!Readings(u, b, c)
  BY DEF ReadsTop, Has
<1>2. Awaits(u, f2, h, b) /\ (c + 1) - 1 = c
  BY <1>1 DEF Awaits, Behind
<1> QED BY <1>1, <1>2 DEF ReadsTop, Has

(* With the part, the list is complete, or goes on behind the comma.       *)
LEMMA EndTurn ==
  ASSUME NEW u, NEW n \in Nat, Len(u) = n, NEW f, f.kind \in T!Opening, NEW f2, NEW h, NEW h2,
         NEW v, NEW v2,
         NEW c \in 0 .. n, NEW l, NEW l2, h.from \in 1 .. n, h.part \in h.from + 1 .. n + 1,
         ReadsTop(u, f, h, v, c, l), f.at = "sep", f2.kind = f.kind, f2.at = "next",
         f2.name = NULL,
         h2.from = h.from, h2.list = T!Longer(h.list, f.name, v, T!Past(f.kind)),
         l2 # NULL, ~ Leads(f.kind, l2)
  PROVE  ReadsTop(u, f2, h2, v2, c, l2)
<1>1. Has(u, f, h, v, c)
  BY DEF ReadsTop
<1>2. /\ T!Longer(h.list, f.name, v, T!Past(f.kind)) \in T!Lists(u)[<<f.kind, h.from + 1, c>>]
      /\ h.from < c
  BY <1>1, PartRead
<1> QED BY <1>2 DEF ReadsTop, Ended

(* Behind the comma the list goes on.                                      *)
LEMMA MoreTurn ==
  ASSUME NEW u, NEW n \in Nat, Len(u) = n, NEW f, f.kind \in T!Opening, NEW f2, NEW h, NEW h2,
         NEW v, NEW v2,
         NEW c \in 1 .. n, NEW l, NEW l2, h.from \in 1 .. n, h.part \in h.from + 1 .. n + 1,
         ReadsTop(u, f, h, v, c, l), f.at = "comma", f2.kind = f.kind, f2.at = "next",
         f2.name = NULL,
         h2.from = h.from, h2.list = T!Longer(h.list, f.name, v, T!Past(f.kind)), h2.part = c + 1,
         l2 # NULL, l2 # T!Closing(f.kind)
  PROVE  ReadsTop(u, f2, h2, v2, c, l2)
<1>1. Has(u, f, h, v, c - 1) /\ IsComma(u[c])
  BY DEF ReadsTop
<1>2. c - 1 \in 0 .. n
  OBVIOUS
<1>3. /\ h2.list \in T!Lists(u)[<<f.kind, h.from + 1, c - 1>>]
      /\ h.from < c - 1
  BY <1>1, <1>2, PartRead
<1>4. c \in h2.from + 1 + 1 .. c /\ (c + 1) - 1 = c /\ (c + 1) - 2 = c - 1
  BY <1>3
<1>5. (c + 1) - 1 \in T!Commas(u, h2.from + 1 + 1, (c + 1) - 1)
  BY <1>1, <1>4, Zenon DEF T!Commas, IsComma
<1>6. Behind(u, f2, h2)
  BY <1>3, <1>4, <1>5 DEF Behind, Follows
<1> QED BY <1>6 DEF ReadsTop, Fresh

(* How the frames fs2 come from the m frames fs: another innermost frame   *)
(* of the same kind, one more, or one less with an element parsed.         *)
OtherTop(fs, fs2, m) ==
  /\ m \in Nat \ {0} /\ Len(fs) = m /\ DOMAIN fs = 1 .. m /\ Len(fs2) = m /\ DOMAIN fs2 = 1 .. m
  /\ fs2[m].kind = fs[m].kind /\ \A k \in DOMAIN fs : k # m => fs2[k] = fs[k]
OneMore(fs, fs2, m) ==
  /\ m \in Nat /\ Len(fs) = m /\ DOMAIN fs = 1 .. m /\ Len(fs2) = m + 1 /\ DOMAIN fs2 = 1 .. m + 1
  /\ \A k \in DOMAIN fs : fs2[k] = fs[k]
  /\ fs2[m + 1].at = "next" /\ fs2[m + 1].name = NULL /\ fs2[m + 1].elem = NULL
OneLess(fs, fs2, m) ==
  /\ m \in Nat /\ m >= 2 /\ Len(fs) = m /\ DOMAIN fs = 1 .. m /\ Len(fs2) = m - 1 /\ DOMAIN fs2 = 1 .. m - 1
  /\ \A k \in DOMAIN fs2 : k # m - 1 => fs2[k] = fs[k]
  /\ fs2[m - 1].at = "sep" /\ fs2[m - 1].kind = fs[m - 1].kind /\ fs2[m - 1].name = fs[m - 1].name
  /\ fs2[m - 1].elem # NULL

(* The same of what is known of the frames.                                *)
SameBelow(fs, g, g2, m) == \A k \in DOMAIN fs : k # m => g2[k] = g[k]
NewPart(fs, g, g2, m) == g2[m].from = g[m].from /\ SameBelow(fs, g, g2, m)
NewFrame(fs, g, g2, m, c) ==
  /\ \A k \in DOMAIN fs : g2[k] = g[k]
  /\ g2[m + 1].from = c + 1 /\ g2[m + 1].list = T!Nothing /\ g2[m + 1].part = c + 2

(* What the innermost frame reads is read of the text.                     *)
LEMMA TopText ==
  ASSUME NEW u, NEW fs, NEW m, NEW fs2, OtherTop(fs, fs2, m), NEW g, NEW g2, NEW v, NEW v2,
         NEW p, NEW c, NEW c2, NEW l, NEW l2, NEW s, ReadsText(u, fs, g, v, p, c, l, s),
         NewPart(fs, g, g2, m),
         ReadsTop(u, fs2[m], g2[m], v2, c2, l2)
  PROVE  ReadsText(u, fs2, g2, v2, p, c2, l2, s)
<1>0. /\ m \in Nat \ {0} /\ Len(fs) = m /\ DOMAIN fs = 1 .. m /\ Len(fs2) = m
      /\ DOMAIN fs2 = 1 .. m
      /\ fs2[m].kind = fs[m].kind /\ \A k \in DOMAIN fs : k # m => fs2[k] = fs[k]
      /\ g2[m].from = g[m].from /\ \A k \in DOMAIN fs : k # m => g2[k] = g[k]
  BY DEF OtherTop, NewPart, SameBelow
<1> USE <1>0
<1>1. fs # <<>> /\ fs2 # <<>> /\ 1 \in DOMAIN fs
  OBVIOUS
<1>2. \A k \in DOMAIN fs : g2[k].from = g[k].from /\ fs2[k].kind = fs[k].kind
  OBVIOUS
<1>3. ASSUME NEW k \in DOMAIN fs, k # m PROVE Awaits(u, fs2[k], g2[k], g2[k + 1].from)
  <2>1. k + 1 \in DOMAIN fs
    BY <1>3
  <2>2. Awaits(u, fs[k], g[k], g[k + 1].from)
    BY <1>3 DEF ReadsText
  <2> QED BY <1>2, <1>3, <2>1, <2>2
<1> QED BY <1>1, <1>2, <1>3 DEF ReadsText

(* A frame begins.                                                         *)
LEMMA PushText ==
  ASSUME NEW u, NEW fs, NEW m, NEW fs2, OneMore(fs, fs2, m), NEW g, NEW g2, NEW v, NEW v2,
         NEW p, NEW c \in Nat, NEW l, NEW l2, NEW s, ReadsText(u, fs, g, v, p, c, l, s),
         NewFrame(fs, g, g2, m, c),
         fs2[m + 1].kind = u[c + 1],
         m # 0 => Awaits(u, fs[m], g[m], c + 1)
  PROVE  ReadsText(u, fs2, g2, v2, p, c + 1, l2, s)
<1>0. /\ m \in Nat /\ Len(fs) = m /\ DOMAIN fs = 1 .. m /\ Len(fs2) = m + 1
      /\ DOMAIN fs2 = 1 .. m + 1
      /\ \A k \in DOMAIN fs : fs2[k] = fs[k]
      /\ fs2[m + 1].at = "next" /\ fs2[m + 1].name = NULL /\ fs2[m + 1].elem = NULL
      /\ \A k \in DOMAIN fs : g2[k] = g[k]
      /\ g2[m + 1].from = c + 1 /\ g2[m + 1].list = T!Nothing /\ g2[m + 1].part = c + 2
  BY DEF OneMore, NewFrame
<1> USE <1>0
<1>1. fs2 # <<>> /\ (m = 0 <=> fs = <<>>)
  OBVIOUS
<1>2. Fresh(u, fs2[m + 1], g2[m + 1], c + 1, l2)
  BY DEF Fresh, Behind, Follows
<1>3. ReadsTop(u, fs2[m + 1], g2[m + 1], v2, c + 1, l2)
  BY <1>2 DEF ReadsTop
<1>4. g2[1].from = p.to + 1
  <2>1. CASE m = 0
    BY <1>1, <2>1 DEF ReadsText
  <2>2. CASE m # 0
    BY <1>1, <2>2 DEF ReadsText
  <2> QED BY <2>1, <2>2
<1>5. \A k \in DOMAIN fs2 : u[g2[k].from] = fs2[k].kind
  BY DEF ReadsText
<1>6. ASSUME NEW k \in DOMAIN fs2, k # m + 1 PROVE Awaits(u, fs2[k], g2[k], g2[k + 1].from)
  <2>1. CASE k = m
    BY <1>6, <2>1
  <2>2. CASE k # m
    <3>1. k \in DOMAIN fs /\ k + 1 \in DOMAIN fs
      BY <1>6, <2>2
    <3> QED BY <2>2, <3>1 DEF ReadsText
  <2> QED BY <2>1, <2>2
<1> QED BY <1>1, <1>3, <1>4, <1>5, <1>6 DEF ReadsText

(* What a frame has read when it ends.                                     *)
LEMMA FrameRead ==
  ASSUME NEW u, NEW f, f.kind \in T!Opening, NEW h, NEW v, NEW c \in Nat, NEW l,
         ReadsTop(u, f, h, v, c, l), f.at = "next",
         h.from \in 1 .. c, h.part \in h.from + 1 .. c + 1, u[h.from] = f.kind,
         u[c + 1] = T!Closing(f.kind), l = NULL \/ l = u[c + 1]
  PROVE  ContainerReading(f.kind, h.list) \in T!Readings(u, h.from, c + 1)
<1>1. CASE Fresh(u, f, h, c, l)
  <2>1. h.part = c + 1 /\ c + 1 = h.from + 1 /\ Follows(u, f.kind, h.from + 1, h.list, h.part)
    BY <1>1 DEF Fresh, Behind
  <2>2. ~ (h.part - 1 \in T!Commas(u, h.from + 1 + 1, h.part - 1))
    <3>1. ASSUME h.part - 1 \in T!Commas(u, h.from + 1 + 1, h.part - 1) PROVE FALSE
      <4>1. h.from + 1 + 1 \in Int /\ h.part - 1 \in Int
        BY <2>1
      <4>2. h.part - 1 \in h.from + 1 + 1 .. h.part - 1
        BY <3>1, <4>1, CommaIs
      <4> QED BY <2>1, <4>2
    <3> QED BY <3>1
  <2>3. h.list = T!Nothing
    BY <2>1, <2>2 DEF Follows
  <2>4. h.from \in Nat /\ c + 1 \in Nat /\ h.from < c + 1
    BY <2>1
  <2>5. IF c + 1 = h.from + 1 THEN h.list = T!Nothing
        ELSE h.list \in T!Lists(u)[<<f.kind, h.from + 1, (c + 1) - 1>>]
    BY <2>1, <2>3
  <2> QED BY <2>4, <2>5, ContainerRead
<1>2. CASE Ended(u, f, h, c, l)
  <2>1. h.list \in T!Lists(u)[<<f.kind, h.from + 1, c>>] /\ h.from < c
    BY <1>2 DEF Ended
  <2>2. h.from \in Nat /\ c + 1 \in Nat /\ h.from < c + 1 /\ c + 1 # h.from + 1 /\ (c + 1) - 1 = c
    BY <2>1
  <2> QED BY <2>1, <2>2, ContainerRead
<1> QED BY <1>1, <1>2 DEF ReadsTop

(* A frame ends, and is an element of the one around it.                   *)
LEMMA PopText ==
  ASSUME NEW u, NEW fs, NEW m, NEW fs2, OneLess(fs, fs2, m), NEW g, NEW v, NEW v2,
         NEW p, NEW c \in Nat, NEW l, NEW l2, NEW s, ReadsText(u, fs, g, v, p, c, l, s),
         Placed(fs, g, p, c),
         v2 \in T!Readings(u, g[m].from, c + 1)
  PROVE  ReadsText(u, fs2, g, v2, p, c + 1, l2, s)
<1>0. /\ m \in Nat /\ m >= 2 /\ Len(fs) = m /\ DOMAIN fs = 1 .. m /\ Len(fs2) = m - 1
      /\ DOMAIN fs2 = 1 .. m - 1
      /\ \A k \in DOMAIN fs2 : k # m - 1 => fs2[k] = fs[k]
      /\ fs2[m - 1].at = "sep" /\ fs2[m - 1].kind = fs[m - 1].kind /\ fs2[m - 1].name = fs[m - 1].name
      /\ fs2[m - 1].elem # NULL
  BY DEF OneLess
<1> USE <1>0
<1>1. fs # <<>> /\ fs2 # <<>> /\ 1 \in DOMAIN fs2 /\ m - 1 \in DOMAIN fs /\ (m - 1) + 1 = m
      /\ m \in DOMAIN fs
  OBVIOUS
<1>2. Awaits(u, fs[m - 1], g[m - 1], g[m].from)
  BY <1>1 DEF ReadsText
<1>3. g[m].from \in Nat /\ g[m].from <= c + 1 /\ g[m - 1].part \in Nat /\ c + 1 \in Nat
  <2>1. g[m].from \in 1 .. c /\ g[m - 1].from \in 1 .. c
        /\ g[m - 1].part \in g[m - 1].from + 1 .. c + 1
    BY <1>1 DEF Placed
  <2> QED BY <2>1
<1>4. ReadsTop(u, fs2[m - 1], g[m - 1], v2, c + 1, l2)
  BY <1>2, <1>3, ValueTurn
<1>5. \A k \in DOMAIN fs2 : k \in DOMAIN fs /\ fs2[k].kind = fs[k].kind
  OBVIOUS
<1>6. ASSUME NEW k \in DOMAIN fs2, k # m - 1 PROVE Awaits(u, fs2[k], g[k], g[k + 1].from)
  <2>1. k \in DOMAIN fs /\ k # m
    BY <1>6
  <2> QED BY <1>6, <2>1 DEF ReadsText
<1> QED BY <1>1, <1>4, <1>5, <1>6 DEF ReadsText

-----------------------------------------------------------------------------
(* The shapes of the nodes h: w is the only table of them.                 *)

Shaped(items, w) == [i \in DOMAIN items |-> Slot(items[i].name, w[items[i].item])]
ShapeIn(h, n, w) == [kind |-> h[n].kind, items |-> Shaped(h[n].items, w)]
OnlyShape(h, w) == \A x : x = [n \in DOMAIN h |-> ShapeIn(h, n, x)] <=> x = w

(* Items look at the shapes of what they hold only.                        *)
LEMMA SameShaped ==
  ASSUME NEW items, NEW w, NEW x, \A i \in DOMAIN items : x[items[i].item] = w[items[i].item]
  PROVE  Shaped(items, x) = Shaped(items, w)
BY DEF Shaped

(* The table of shapes has an entry for each node.                         *)
LEMMA ShapeThere ==
  ASSUME NEW h, NEW w, OnlyShape(h, w)
  PROVE  w = [n \in DOMAIN h |-> ShapeIn(h, n, w)] /\ DOMAIN w = DOMAIN h
         /\ \A n \in DOMAIN h : w[n] = ShapeIn(h, n, w)
<1>1. w = [n \in DOMAIN h |-> ShapeIn(h, n, w)]
  BY DEF OnlyShape
<1> QED BY <1>1

(* What else is in a node does not matter.                                 *)
LEMMA ShapeKept ==
  ASSUME NEW h, NEW h2, NEW w, OnlyShape(h, w), DOMAIN h2 = DOMAIN h,
         \A n \in DOMAIN h : h2[n].kind = h[n].kind /\ h2[n].items = h[n].items
  PROVE  OnlyShape(h2, w)
<1>1. ASSUME NEW x PROVE [n \in DOMAIN h2 |-> ShapeIn(h2, n, x)] = [n \in DOMAIN h |-> ShapeIn(h, n, x)]
  BY DEF ShapeIn
<1> QED BY <1>1 DEF OnlyShape

(* A node that is not held gets other items.                               *)
LEMMA ShapeFilled ==
  ASSUME NEW h, NEW h2, NEW w, OnlyShape(h, w), NEW m \in DOMAIN h, DOMAIN h2 = DOMAIN h,
         \A n \in DOMAIN h : h2[n].kind = h[n].kind,
         \A n \in DOMAIN h : n # m => h2[n].items = h[n].items,
         \A n \in DOMAIN h : \A i \in DOMAIN h[n].items :
           h[n].items[i].item # m /\ h[n].items[i].item \in DOMAIN h,
         \A i \in DOMAIN h2[m].items : h2[m].items[i].item # m /\ h2[m].items[i].item \in DOMAIN h
  PROVE  OnlyShape(h2, [w EXCEPT ![m] = [kind |-> h[m].kind, items |-> Shaped(h2[m].items, w)]])
<1> DEFINE y == [kind |-> h[m].kind, items |-> Shaped(h2[m].items, w)]
           z == [w EXCEPT ![m] = y]
<1>1. DOMAIN w = DOMAIN h /\ \A n \in DOMAIN h : w[n] = ShapeIn(h, n, w)
  BY ShapeThere
<1>2. /\ DOMAIN z = DOMAIN h /\ z = [n \in DOMAIN h |-> z[n]] /\ z[m] = y
      /\ \A n \in DOMAIN h : n # m => z[n] = w[n]
  BY <1>1
<1> HIDE DEF z, y
<1>3. z = [n \in DOMAIN h2 |-> ShapeIn(h2, n, z)]
  <2>1. ASSUME NEW n \in DOMAIN h2 PROVE z[n] = ShapeIn(h2, n, z)
    <3>1. CASE n = m
      <4>1. Shaped(h2[m].items, z) = Shaped(h2[m].items, w)
        BY <1>2, SameShaped
      <4> QED BY <1>2, <3>1, <4>1 DEF ShapeIn, y
    <3>2. CASE n # m
      <4>1. Shaped(h[n].items, z) = Shaped(h[n].items, w)
        BY <1>2, SameShaped
      <4> QED BY <1>1, <1>2, <3>2, <4>1 DEF ShapeIn
    <3> QED BY <3>1, <3>2
  <2> QED BY <1>2, <2>1
<1>4. ASSUME NEW x, x = [n \in DOMAIN h2 |-> ShapeIn(h2, n, x)] PROVE x = z
  <2>1. \A n \in DOMAIN h : x[n] = ShapeIn(h2, n, x)
    BY <1>4
  <2> DEFINE r == [x EXCEPT ![m] = ShapeIn(h, m, x)]
  <2>2. /\ DOMAIN r = DOMAIN h /\ r = [n \in DOMAIN h |-> r[n]] /\ r[m] = ShapeIn(h, m, x)
        /\ \A n \in DOMAIN h : n # m => r[n] = x[n]
    BY <1>4
  <2> HIDE DEF r
  <2>3. ASSUME NEW n \in DOMAIN h PROVE r[n] = ShapeIn(h, n, r)
    <3>1. Shaped(h[n].items, r) = Shaped(h[n].items, x)
      BY <2>2, SameShaped
    <3>2. CASE n = m
      BY <2>2, <3>1, <3>2 DEF ShapeIn
    <3>3. CASE n # m
      <4>1. r[n] = ShapeIn(h2, n, x) /\ h2[n].items = h[n].items /\ h2[n].kind = h[n].kind
        BY <2>1, <2>2, <3>3
      <4> QED BY <3>1, <4>1 DEF ShapeIn
    <3> QED BY <3>2, <3>3
  <2>4. r = w
    BY <2>2, <2>3 DEF OnlyShape
  <2>5. \A n \in DOMAIN h : n # m => x[n] = z[n]
    BY <1>2, <2>2, <2>4
  <2>6. x[m] = y
    <3>1. Shaped(h2[m].items, x) = Shaped(h2[m].items, w)
      BY <2>2, <2>4, SameShaped
    <3> QED BY <2>1, <3>1 DEF ShapeIn, y
  <2>7. DOMAIN x = DOMAIN h /\ x = [n \in DOMAIN h |-> x[n]]
    BY <1>4
  <2>8. \A n \in DOMAIN h : x[n] = z[n]
    BY <1>2, <2>5, <2>6
  <2> QED BY <1>2, <2>7, <2>8
<1> QED BY <1>3, <1>4 DEF OnlyShape, z, y

(* There is a new node.                                                    *)
LEMMA ShapeGrown ==
  ASSUME NEW h, NEW h2, NEW w, OnlyShape(h, w), NEW m, m \notin DOMAIN h,
         DOMAIN h2 = DOMAIN h \cup {m},
         \A n \in DOMAIN h : h2[n].kind = h[n].kind /\ h2[n].items = h[n].items,
         \A n \in DOMAIN h2 : \A i \in DOMAIN h2[n].items : h2[n].items[i].item \in DOMAIN h,
         NEW z,
         z = [n \in DOMAIN h2 |-> IF n = m THEN [kind |-> h2[m].kind, items |-> Shaped(h2[m].items, w)]
                                         ELSE w[n]]
  PROVE  OnlyShape(h2, z) /\ \A n \in DOMAIN h : z[n] = w[n]
<1>1. DOMAIN w = DOMAIN h /\ \A n \in DOMAIN h : w[n] = ShapeIn(h, n, w)
  BY ShapeThere
<1>2. /\ DOMAIN z = DOMAIN h2 /\ z = [n \in DOMAIN h2 |-> z[n]]
      /\ z[m] = [kind |-> h2[m].kind, items |-> Shaped(h2[m].items, w)]
      /\ \A n \in DOMAIN h : z[n] = w[n]
  OBVIOUS
<1>3. z = [n \in DOMAIN h2 |-> ShapeIn(h2, n, z)]
  <2>1. ASSUME NEW n \in DOMAIN h2 PROVE z[n] = ShapeIn(h2, n, z)
    <3>1. Shaped(h2[n].items, z) = Shaped(h2[n].items, w)
      BY <1>2, SameShaped
    <3>2. CASE n = m
      BY <1>2, <3>1, <3>2 DEF ShapeIn
    <3>3. CASE n # m
      BY <1>1, <1>2, <3>1, <3>3 DEF ShapeIn
    <3> QED BY <3>2, <3>3
  <2> QED BY <1>2, <2>1
<1>4. ASSUME NEW x, x = [n \in DOMAIN h2 |-> ShapeIn(h2, n, x)] PROVE x = z
  <2>1. \A n \in DOMAIN h2 : x[n] = ShapeIn(h2, n, x)
    BY <1>4
  <2> DEFINE r == [n \in DOMAIN h |-> x[n]]
  <2>2. ASSUME NEW n \in DOMAIN h PROVE r[n] = ShapeIn(h, n, r)
    <3>1. Shaped(h[n].items, r) = Shaped(h[n].items, x)
      BY SameShaped
    <3>2. x[n] = ShapeIn(h2, n, x) /\ r[n] = x[n] /\ h2[n].items = h[n].items
          /\ h2[n].kind = h[n].kind
      BY <2>1
    <3> HIDE DEF r
    <3> QED BY <3>1, <3>2 DEF ShapeIn
  <2>3. r = [n \in DOMAIN h |-> ShapeIn(h, n, r)]
    BY <2>2
  <2> HIDE DEF r
  <2>4. r = w
    BY <2>3 DEF OnlyShape
  <2>5. \A n \in DOMAIN h : x[n] = w[n]
    BY <2>4 DEF r
  <2>6. x[m] = z[m]
    <3>1. Shaped(h2[m].items, x) = Shaped(h2[m].items, w)
      BY <2>5, SameShaped
    <3>2. x[m] = ShapeIn(h2, m, x)
      BY <2>1
    <3> QED BY <1>2, <3>1, <3>2 DEF ShapeIn
  <2>7. DOMAIN x = DOMAIN h2 /\ x = [n \in DOMAIN h2 |-> x[n]]
    BY <1>4
  <2>8. \A n \in DOMAIN h2 : x[n] = z[n]
    BY <1>2, <2>5, <2>6
  <2> QED BY <1>2, <2>7, <2>8
<1> QED BY <1>2, <1>3, <1>4 DEF OnlyShape

(* So Shape is that table.                                                 *)
LEMMA ShapeIs ==
  ASSUME NEW w, OnlyShape(nodes, w)
  PROVE  Shape = w
<1>1. \A x : [n \in DOMAIN nodes |-> ShapeOf(n, x)] = [n \in DOMAIN nodes |-> ShapeIn(nodes, n, x)]
  BY DEF ShapeOf, ShapeIn, Shaped
<1>2. \A x : x = [n \in DOMAIN nodes |-> ShapeOf(n, x)] <=> x = w
  BY <1>1 DEF OnlyShape
<1> QED BY <1>2 DEF Shape

(* What is added to the items is added to the list.                        *)
LEMMA ShapedWith ==
  ASSUME NEW S, NEW items \in Seq(S), NEW n, NEW v, NEW w
  PROVE  Shaped(With(items, n, v), w) = T!Put(Shaped(items, w), T!Item(n, w[v]))
<1>1. /\ DOMAIN Shaped(items, w) = DOMAIN items
      /\ \A i \in DOMAIN items : Shaped(items, w)[i] = Slot(items[i].name, w[items[i].item])
  BY DEF Shaped
<1>2. T!SameName(Shaped(items, w), n) = SameName(items, n)
  BY <1>1 DEF T!SameName, SameName, Slot
<1>3. T!Item(n, w[v]).name = n /\ T!Item(n, w[v]) = Slot(n, w[v])
  BY DEF T!Item, Slot
<1>4. CASE SameName(items, n) = {}
  <2>1. With(items, n, v) = Append(items, Slot(n, v))
    BY <1>4 DEF With
  <2>2. T!Put(Shaped(items, w), T!Item(n, w[v])) = Append(Shaped(items, w), Slot(n, w[v]))
    BY <1>2, <1>3, <1>4 DEF T!Put
  <2>3. PICK m \in Nat : Len(items) = m /\ DOMAIN items = 1 .. m
    OBVIOUS
  <2>4. Shaped(items, w) \in Seq({Shaped(items, w)[i] : i \in 1 .. m})
        /\ Len(Shaped(items, w)) = m
    BY <2>3 DEF Shaped
  <2>5. /\ DOMAIN Append(items, Slot(n, v)) = 1 .. m + 1
        /\ Append(items, Slot(n, v))[m + 1] = Slot(n, v)
        /\ \A i \in 1 .. m : Append(items, Slot(n, v))[i] = items[i]
    BY <2>3, Appended
  <2>6. /\ DOMAIN Append(Shaped(items, w), Slot(n, w[v])) = 1 .. m + 1
        /\ Append(Shaped(items, w), Slot(n, w[v]))[m + 1] = Slot(n, w[v])
        /\ \A i \in 1 .. m : Append(Shaped(items, w), Slot(n, w[v]))[i] = Shaped(items, w)[i]
    BY <2>4, Appended
  <2> DEFINE A == Append(items, Slot(n, v))
             B == Append(Shaped(items, w), Slot(n, w[v]))
  <2>7. ASSUME NEW i \in 1 .. m + 1 PROVE Slot(A[i].name, w[A[i].item]) = B[i]
    <3>1. CASE i = m + 1
      BY <2>5, <2>6, <3>1 DEF Slot
    <3>2. CASE i # m + 1
      <4>1. i \in 1 .. m
        BY <3>2
      <4> QED BY <1>1, <2>3, <2>5, <2>6, <4>1 DEF Slot
    <3> QED BY <3>1, <3>2
  <2>8. DOMAIN A = 1 .. m + 1 /\ DOMAIN B = 1 .. m + 1 /\ B = [i \in DOMAIN B |-> B[i]]
    BY <2>5, <2>6
  <2> HIDE DEF A, B
  <2>9. Shaped(A, w) = B
    BY <2>7, <2>8 DEF Shaped
  <2> QED BY <2>1, <2>2, <2>9 DEF A, B
<1>5. CASE SameName(items, n) # {}
  <2> DEFINE A == [i \in DOMAIN items |-> IF i \in SameName(items, n) THEN Slot(n, v) ELSE items[i]]
             B == [i \in DOMAIN items |-> IF i \in SameName(items, n) THEN Slot(n, w[v]) ELSE Shaped(items, w)[i]]
  <2>1. With(items, n, v) = A
    BY <1>5 DEF With
  <2>2. T!Put(Shaped(items, w), T!Item(n, w[v])) = B
    BY <1>1, <1>2, <1>3, <1>5 DEF T!Put
  <2>3. \A i \in DOMAIN items : Slot(A[i].name, w[A[i].item]) = B[i]
    BY <1>1 DEF Slot
  <2>4. DOMAIN A = DOMAIN items /\ B = [i \in DOMAIN items |-> B[i]]
    OBVIOUS
  <2> HIDE DEF A, B
  <2>5. Shaped(A, w) = B
    BY <2>3, <2>4 DEF Shaped
  <2> QED BY <2>1, <2>2, <2>5
<1> QED BY <1>4, <1>5

-----------------------------------------------------------------------------
(* What has been heard                                                     *)

Sound == Token \cup {"parse-start", "parse-end", "array-element", "object-member"}

FrameSaid(f, h) == (h.heard \o <<f.kind>>) \o h.list.said
TopSaid(f, h, v) == FrameSaid(f, h) \o (IF f.elem = NULL THEN <<>> ELSE v.said)
Start == <<"parse-start">>

Sounds(fs, g, v, p, sig) ==
  /\ p.list.said \in Seq(Sound) /\ v.said \in Seq(Sound)
  /\ \A k \in DOMAIN fs : /\ fs[k].kind \in T!Opening
                          /\ g[k].heard \in Seq(Sound) /\ g[k].list.said \in Seq(Sound)
  /\ fs = <<>> => sig = Start \o p.list.said
  /\ fs # <<>> => /\ g[1].heard = Start \o p.list.said
                  /\ sig = TopSaid(fs[Len(fs)], g[Len(fs)], v)
  /\ \A k \in DOMAIN fs : k # Len(fs) => g[k + 1].heard = FrameSaid(fs[k], g[k])

(* Sounds one behind the other.                                            *)
LEMMA Joined ==
  /\ \A a, b \in Seq(Sound) : a \o b \in Seq(Sound)
  /\ \A a, b, c \in Seq(Sound) : (a \o b) \o c = a \o (b \o c)
  /\ \A a \in Seq(Sound) : a \o <<>> = a /\ <<>> \o a = a
  /\ \A a \in Seq(Sound), x \in Sound : Append(a, x) = a \o <<x>> /\ <<x>> \in Seq(Sound)
  /\ <<>> \in Seq(Sound) /\ Start \in Seq(Sound)
<1>1. \A a, b, c \in Seq(Sound) : (a \o b) \o c = a \o (b \o c)
  BY ConcatAssociative
<1>2. \A a \in Seq(Sound) : a \o <<>> = a /\ <<>> \o a = a
  BY ConcatEmptySeq
<1>3. \A a \in Seq(Sound), x \in Sound : Append(a, x) = a \o <<x>> /\ <<x>> \in Seq(Sound)
  BY AppendIsConcat
<1>4. Start \in Seq(Sound)
  <2>1. "parse-start" \in Sound
    BY DEF Sound
  <2> QED BY <2>1 DEF Start
<1>5. \A a, b \in Seq(Sound) : a \o b \in Seq(Sound)
  BY ConcatProperties
<1>6. <<>> \in Seq(Sound)
  OBVIOUS
<1> QED BY <1>1, <1>2, <1>3, <1>4, <1>5, <1>6, Zenon

(* Where they are joined first does not matter.                            *)
LEMMA Associates ==
  ASSUME NEW a \in Seq(Sound), NEW b \in Seq(Sound), NEW c \in Seq(Sound)
  PROVE  (a \o b) \o c = a \o (b \o c)
BY ConcatAssociative

(* What a longer list says and holds.                                      *)
LEMMA LongerSaid ==
  ASSUME NEW l, NEW n, NEW v, NEW x
  PROVE  /\ T!Longer(l, n, v, x).said = (l.said \o v.said) \o x
         /\ T!Longer(l, n, v, x).items = T!Put(l.items, T!Item(n, v.tree))
BY DEF T!Longer

(* What a bracket, and an item, sound like.                                *)
LEMMA BracketSounds ==
  \A c \in T!Opening : c \in Sound /\ T!Closing(c) \in Sound /\ T!Past(c) \in Seq(Sound)
<1> SUFFICES ASSUME NEW c \in T!Opening
             PROVE  c \in Sound /\ T!Closing(c) \in Sound /\ T!Past(c) \in Seq(Sound)
  OBVIOUS
<1>1. c \in Sound /\ T!Closing(c) \in Sound
  BY Zenon DEF Sound, Token, T!Opening, Opening, T!Closing
<1>2. PICK x \in Sound : T!Past(c) = <<x>>
  BY DEF T!Past, Sound
<1> QED BY <1>1, <1>2

(* The innermost frame reads on, with no sound.                            *)
LEMMA TopSounds ==
  ASSUME NEW fs, NEW m, NEW fs2, OtherTop(fs, fs2, m), NEW g, NEW v, NEW v2, NEW p, NEW sig,
         Sounds(fs, g, v, p, sig),
         IF fs[m].elem = fs2[m].elem THEN v2 = v ELSE fs[m].elem = NULL /\ v2.said = <<>>
  PROVE  Sounds(fs2, g, v2, p, sig)
<1>0. /\ m \in Nat \ {0} /\ Len(fs) = m /\ DOMAIN fs = 1 .. m /\ Len(fs2) = m
      /\ DOMAIN fs2 = 1 .. m
      /\ fs2[m].kind = fs[m].kind /\ \A k \in DOMAIN fs : k # m => fs2[k] = fs[k]
  BY DEF OtherTop
<1> USE <1>0
<1>1. fs # <<>> /\ fs2 # <<>> /\ m \in DOMAIN fs
  OBVIOUS
<1>2. \A k \in DOMAIN fs : fs2[k].kind = fs[k].kind
  OBVIOUS
<1>3. TopSaid(fs2[m], g[m], v2) = TopSaid(fs[m], g[m], v)
  <2>1. FrameSaid(fs2[m], g[m]) = FrameSaid(fs[m], g[m])
    BY <1>2 DEF FrameSaid
  <2> QED BY <2>1 DEF TopSaid
<1>4. \A k \in DOMAIN fs : k # m => FrameSaid(fs2[k], g[k]) = FrameSaid(fs[k], g[k])
  OBVIOUS
<1>5. v2.said \in Seq(Sound)
  <2>1. v.said \in Seq(Sound)
    BY DEF Sounds
  <2> QED BY <2>1, Joined
<1> QED BY <1>1, <1>2, <1>3, <1>4, <1>5 DEF Sounds

(* An element is added.                                                    *)
LEMMA AddSounds ==
  ASSUME NEW fs, NEW m, NEW fs2, OtherTop(fs, fs2, m), NEW g, NEW g2, NEW v, NEW p, NEW sig,
         Sounds(fs, g, v, p, sig),
         SameBelow(fs, g, g2, m),
         fs[m].elem # NULL, fs2[m].elem = NULL, g2[m].heard = g[m].heard, NEW n,
         g2[m].list = T!Longer(g[m].list, n, v, T!Past(fs[m].kind)),
         NEW x, T!Past(fs[m].kind) = <<x>>
  PROVE  Sounds(fs2, g2, v, p, Append(sig, x))
<1>0. /\ m \in Nat \ {0} /\ Len(fs) = m /\ DOMAIN fs = 1 .. m /\ Len(fs2) = m
      /\ DOMAIN fs2 = 1 .. m
      /\ fs2[m].kind = fs[m].kind /\ \A k \in DOMAIN fs : k # m => fs2[k] = fs[k]
      /\ \A k \in DOMAIN fs : k # m => g2[k] = g[k]
  BY DEF OtherTop, SameBelow
<1> USE <1>0
<1>1. fs # <<>> /\ fs2 # <<>> /\ m \in DOMAIN fs /\ 1 \in DOMAIN fs
  OBVIOUS
<1>2. \A k \in DOMAIN fs : fs2[k].kind = fs[k].kind
  OBVIOUS
<1>3. /\ g[m].heard \in Seq(Sound) /\ g[m].list.said \in Seq(Sound) /\ v.said \in Seq(Sound)
      /\ fs[m].kind \in T!Opening /\ fs[m].kind \in Sound
      /\ sig = TopSaid(fs[m], g[m], v)
  BY <1>1, BracketSounds DEF Sounds
<1>4. PICK a \in Seq(Sound), b \in Seq(Sound), c \in Seq(Sound) :
         a = g[m].heard \o <<fs[m].kind>> /\ b = g[m].list.said /\ c = v.said
  BY <1>3, Joined
<1>5. <<x>> \in Seq(Sound)
  BY <1>3, BracketSounds
<1>5a. x \in Sound
  BY <1>5
<1>6. sig = (a \o b) \o c
  BY <1>1, <1>3, <1>4 DEF TopSaid, FrameSaid
<1>7. g2[m].list.said = (b \o c) \o <<x>>
  <2>1. T!Longer(g[m].list, n, v, T!Past(fs[m].kind)).said
          = (g[m].list.said \o v.said) \o T!Past(fs[m].kind)
    BY DEF T!Longer
  <2> QED BY <1>4, <2>1
<1>8. TopSaid(fs2[m], g2[m], v) = (a \o ((b \o c) \o <<x>>)) \o <<>>
  BY <1>4, <1>7 DEF TopSaid, FrameSaid
<1>9. /\ b \o c \in Seq(Sound) /\ a \o b \in Seq(Sound) /\ (a \o b) \o c \in Seq(Sound)
      /\ (b \o c) \o <<x>> \in Seq(Sound) /\ a \o ((b \o c) \o <<x>>) \in Seq(Sound)
  BY <1>5, Joined
<1>10. Append(sig, x) = TopSaid(fs2[m], g2[m], v)
  <2>1. Append(sig, x) = ((a \o b) \o c) \o <<x>>
    BY <1>5a, <1>6, <1>9, Joined
  <2>2. (a \o b) \o c = a \o (b \o c)
    BY Associates
  <2>3. (a \o (b \o c)) \o <<x>> = a \o ((b \o c) \o <<x>>)
    <3>1. PICK d \in Seq(Sound), e \in Seq(Sound) : d = b \o c /\ e = <<x>>
      BY <1>5, <1>9
    <3>2. (a \o d) \o e = a \o (d \o e)
      BY Associates
    <3> QED BY <3>1, <3>2
  <2>4. (a \o ((b \o c) \o <<x>>)) \o <<>> = a \o ((b \o c) \o <<x>>)
    BY <1>9, Joined
  <2> QED BY <1>8, <2>1, <2>2, <2>3, <2>4
<1>11. ASSUME NEW k \in DOMAIN fs, k # m PROVE g2[k + 1].heard = FrameSaid(fs2[k], g2[k])
  <2>1. k + 1 \in DOMAIN fs
    BY <1>11
  <2>2. g2[k + 1].heard = g[k + 1].heard
    BY <2>1
  <2>3. g[k + 1].heard = FrameSaid(fs[k], g[k])
    BY <1>11 DEF Sounds
  <2> QED BY <1>11, <2>2, <2>3
<1>12. \A k \in DOMAIN fs2 : /\ fs2[k].kind \in T!Opening
                             /\ g2[k].heard \in Seq(Sound) /\ g2[k].list.said \in Seq(Sound)
  BY <1>2, <1>7, <1>9 DEF Sounds
<1>13. g2[1].heard = Start \o p.list.said
  BY <1>1 DEF Sounds
<1> QED BY <1>1, <1>3, <1>10, <1>11, <1>12, <1>13 DEF Sounds

(* One sound more.                                                         *)
LEMMA OneSound ==
  ASSUME NEW a \in Seq(Sound), NEW x \in Sound
  PROVE  a \o <<x>> \in Seq(Sound) /\ Append(a, x) = a \o <<x>>
BY Joined

(* The bracket that opens is heard.                                        *)
LEMMA PushSounds ==
  ASSUME NEW fs, NEW m, NEW fs2, OneMore(fs, fs2, m), NEW g, NEW g2, NEW v, NEW p, NEW sig,
         Sounds(fs, g, v, p, sig),
         NEW c, NewFrame(fs, g, g2, m, c),
         m # 0 => fs[m].elem = NULL, fs2[m + 1].kind \in T!Opening,
         g2[m + 1].heard = sig
  PROVE  Sounds(fs2, g2, v, p, Append(sig, fs2[m + 1].kind))
<1>0. /\ m \in Nat /\ Len(fs) = m /\ DOMAIN fs = 1 .. m /\ Len(fs2) = m + 1
      /\ DOMAIN fs2 = 1 .. m + 1
      /\ \A k \in DOMAIN fs : fs2[k] = fs[k]
      /\ fs2[m + 1].at = "next" /\ fs2[m + 1].name = NULL /\ fs2[m + 1].elem = NULL
      /\ \A k \in DOMAIN fs : g2[k] = g[k]
      /\ g2[m + 1].list = T!Nothing
  BY DEF OneMore, NewFrame
<1> USE <1>0
<1>1. fs2 # <<>> /\ (m = 0 <=> fs = <<>>)
  OBVIOUS
<1>2. PICK x \in Sound : x = fs2[m + 1].kind
  BY BracketSounds
<1>3. sig \in Seq(Sound) /\ (m # 0 => sig = FrameSaid(fs[m], g[m]))
      /\ (m = 0 => sig = Start \o p.list.said)
  <2>1. CASE m = 0
    <3>1. sig = Start \o p.list.said /\ p.list.said \in Seq(Sound)
      BY <1>1, <2>1 DEF Sounds
    <3> QED BY <2>1, <3>1, Joined
  <2>2. CASE m # 0
    <3>0. m \in DOMAIN fs /\ fs # <<>>
      BY <1>1, <2>2
    <3>1. /\ g[m].heard \in Seq(Sound) /\ g[m].list.said \in Seq(Sound) /\ fs[m].kind \in Sound
          /\ sig = FrameSaid(fs[m], g[m]) \o <<>>
      <4>1. /\ g[m].heard \in Seq(Sound) /\ g[m].list.said \in Seq(Sound)
            /\ fs[m].kind \in T!Opening
            /\ sig = TopSaid(fs[m], g[m], v)
        BY <3>0 DEF Sounds
      <4>2. TopSaid(fs[m], g[m], v) = FrameSaid(fs[m], g[m]) \o <<>>
        BY <2>2 DEF TopSaid
      <4> QED BY <4>1, <4>2, BracketSounds
    <3>2. <<fs[m].kind>> \in Seq(Sound)
      BY <3>1
    <3>3. FrameSaid(fs[m], g[m]) \in Seq(Sound)
      BY <3>1, <3>2, Joined DEF FrameSaid
    <3> QED BY <2>2, <3>1, <3>3, Joined
  <2> QED BY <2>1, <2>2
<1>4. Append(sig, x) = TopSaid(fs2[m + 1], g2[m + 1], v)
  <2>1. T!Nothing.said = <<>>
    BY DEF T!Nothing
  <2>2. TopSaid(fs2[m + 1], g2[m + 1], v) = ((sig \o <<x>>) \o <<>>) \o <<>>
    BY <1>2, <2>1 DEF TopSaid, FrameSaid
  <2>3. sig \o <<x>> \in Seq(Sound) /\ Append(sig, x) = sig \o <<x>>
    <3>1. PICK a \in Seq(Sound) : a = sig
      BY <1>3
    <3>2. a \o <<x>> \in Seq(Sound) /\ Append(a, x) = a \o <<x>>
      BY OneSound
    <3> QED BY <3>1, <3>2
  <2> QED BY <2>2, <2>3, Joined
<1>5. ASSUME NEW k \in DOMAIN fs2, k # m + 1 PROVE g2[k + 1].heard = FrameSaid(fs2[k], g2[k])
  <2>1. k \in DOMAIN fs
    BY <1>5
  <2>2. CASE k = m
    BY <1>3, <2>1, <2>2
  <2>3. CASE k # m
    <3>1. k + 1 \in DOMAIN fs
      BY <2>1, <2>3
    <3> QED BY <2>1, <2>3, <3>1 DEF Sounds
  <2> QED BY <2>2, <2>3
<1>6. ASSUME NEW k \in DOMAIN fs2
      PROVE  /\ fs2[k].kind \in T!Opening
             /\ g2[k].heard \in Seq(Sound) /\ g2[k].list.said \in Seq(Sound)
  <2>1. CASE k = m + 1
    <3>1. T!Nothing.said = <<>> /\ <<>> \in Seq(Sound)
      BY DEF T!Nothing
    <3> QED BY <1>3, <2>1, <3>1
  <2>2. CASE k # m + 1
    <3>1. k \in DOMAIN fs
      BY <2>2
    <3> QED BY <3>1 DEF Sounds
  <2> QED BY <2>1, <2>2
<1>7. g2[1].heard = Start \o p.list.said
  <2>1. CASE m = 0
    BY <1>3, <2>1
  <2>2. CASE m # 0
    <3>1. 1 \in DOMAIN fs /\ fs # <<>>
      BY <1>1, <2>2
    <3> QED BY <3>1 DEF Sounds
  <2> QED BY <2>1, <2>2
<1> QED BY <1>1, <1>2, <1>4, <1>5, <1>6, <1>7 DEF Sounds

(* Facts about concatenations are given names: unfolded, they keep the     *)
(* provers busy.                                                           *)
Rebracketed(y, z, r, q) == ((y \o z) \o r) \o q = y \o ((z \o r) \o q)

(* The sounds of a container, joined in another order.                     *)
LEMMA Bracketed ==
  ASSUME NEW y \in Seq(Sound), NEW z \in Seq(Sound), NEW r \in Seq(Sound), NEW q \in Seq(Sound)
  PROVE  Rebracketed(y, z, r, q)
<1>1. PICK e \in Seq(Sound) : e = z \o r
  BY Joined
<1>2. (y \o z) \o r = y \o e
  BY <1>1, Associates
<1>3. (y \o e) \o q = y \o (e \o q)
  BY Associates
<1> QED BY <1>1, <1>2, <1>3 DEF Rebracketed

SaidAround(y, r, k, x, sig) ==
  <<k>> \o r \o <<x>> \in Seq(Sound) /\ Append(sig, x) = y \o (<<k>> \o r \o <<x>>)

(* What a container says is between its brackets.                          *)
LEMMA AroundSaid ==
  ASSUME NEW y \in Seq(Sound), NEW r \in Seq(Sound), NEW k \in Sound, NEW x \in Sound,
         NEW sig, sig = ((y \o <<k>>) \o r) \o <<>>
  PROVE  SaidAround(y, r, k, x, sig)
<1>1. PICK z \in Seq(Sound), q \in Seq(Sound) : z = <<k>> /\ q = <<x>>
  BY Joined
<1>2. z \o r \in Seq(Sound) /\ (z \o r) \o q \in Seq(Sound) /\ y \o z \in Seq(Sound)
  BY Joined
<1>3. (y \o z) \o r \in Seq(Sound)
  BY <1>2, Joined
<1>4. sig = (y \o z) \o r
  BY <1>1, <1>3, Joined
<1>5. Append(sig, x) = ((y \o z) \o r) \o q
  BY <1>1, <1>3, <1>4, Joined
<1>6. Rebracketed(y, z, r, q)
  BY Bracketed
<1> QED BY <1>1, <1>2, <1>5, <1>6 DEF Rebracketed, SaidAround

(* What has been heard when the innermost frame ends.                      *)
HeardOut(f, h, sig) == Append(sig, T!Closing(f.kind)) = h.heard \o ContainerReading(f.kind, h.list).said

(* The innermost frame has been heard since it began.                      *)
LEMMA FrameSounds ==
  ASSUME NEW fs, NEW m \in Nat \ {0}, Len(fs) = m, DOMAIN fs = 1 .. m, NEW g, NEW v, NEW p,
         NEW sig,
         Sounds(fs, g, v, p, sig), fs[m].elem = NULL
  PROVE  /\ ContainerReading(fs[m].kind, g[m].list).said \in Seq(Sound) /\ g[m].heard \in Seq(Sound)
         /\ HeardOut(fs[m], g[m], sig)
<1>1. fs # <<>> /\ m \in DOMAIN fs
  OBVIOUS
<1>2. /\ g[m].heard \in Seq(Sound) /\ g[m].list.said \in Seq(Sound) /\ fs[m].kind \in T!Opening
      /\ sig = FrameSaid(fs[m], g[m]) \o <<>>
  BY <1>1 DEF Sounds, TopSaid
<1>3. fs[m].kind \in Sound /\ T!Closing(fs[m].kind) \in Sound
  BY <1>2, BracketSounds
<1>4. sig = ((g[m].heard \o <<fs[m].kind>>) \o g[m].list.said) \o <<>>
  BY <1>2 DEF FrameSaid
<1>5. ContainerReading(fs[m].kind, g[m].list).said = <<fs[m].kind>> \o g[m].list.said \o <<T!Closing(fs[m].kind)>>
  BY DEF ContainerReading
<1>6. SaidAround(g[m].heard, g[m].list.said, fs[m].kind, T!Closing(fs[m].kind), sig)
  BY <1>2, <1>3, <1>4, AroundSaid
<1> QED BY <1>2, <1>5, <1>6 DEF HeardOut, SaidAround

(* The bracket that closes is heard: inside a container,                   *)
LEMMA PopSounds ==
  ASSUME NEW fs, NEW m, NEW fs2, OneLess(fs, fs2, m), NEW g, NEW v, NEW p, NEW sig,
         Sounds(fs, g, v, p, sig), fs[m].elem = NULL,
         NEW v2, v2 = ContainerReading(fs[m].kind, g[m].list)
  PROVE  Sounds(fs2, g, v2, p, Append(sig, T!Closing(fs[m].kind)))
<1>0. /\ m \in Nat /\ m >= 2 /\ Len(fs) = m /\ DOMAIN fs = 1 .. m /\ Len(fs2) = m - 1
      /\ DOMAIN fs2 = 1 .. m - 1
      /\ \A k \in DOMAIN fs2 : k # m - 1 => fs2[k] = fs[k]
      /\ fs2[m - 1].at = "sep" /\ fs2[m - 1].kind = fs[m - 1].kind /\ fs2[m - 1].name = fs[m - 1].name
      /\ fs2[m - 1].elem # NULL
  BY DEF OneLess
<1> USE <1>0
<1>1. fs # <<>> /\ fs2 # <<>> /\ m - 1 \in DOMAIN fs /\ (m - 1) + 1 = m /\ m - 1 # m
      /\ m \in Nat \ {0}
  OBVIOUS
<1>2. /\ v2.said \in Seq(Sound)
      /\ Append(sig, T!Closing(fs[m].kind)) = g[m].heard \o v2.said
  <2>1. m \in Nat \ {0}
    OBVIOUS
  <2>2. ContainerReading(fs[m].kind, g[m].list).said \in Seq(Sound)
    BY <2>1, FrameSounds, Zenon
  <2>3. HeardOut(fs[m], g[m], sig)
    BY <2>1, FrameSounds, Zenon
  <2> QED BY <2>2, <2>3 DEF HeardOut
<1>3. g[m].heard = FrameSaid(fs[m - 1], g[m - 1])
  BY <1>1 DEF Sounds
<1>4. Append(sig, T!Closing(fs[m].kind)) = TopSaid(fs2[m - 1], g[m - 1], v2)
  BY <1>2, <1>3 DEF TopSaid, FrameSaid
<1>5. \A k \in DOMAIN fs2 : k \in DOMAIN fs /\ fs2[k].kind = fs[k].kind
  OBVIOUS
<1>6. ASSUME NEW k \in DOMAIN fs2, k # m - 1 PROVE g[k + 1].heard = FrameSaid(fs2[k], g[k])
  <2>1. k \in DOMAIN fs /\ k # m
    BY <1>6
  <2> QED BY <1>6, <2>1 DEF Sounds
<1> QED BY <1>1, <1>2, <1>4, <1>5, <1>6 DEF Sounds

(* ... or at the top level.                                                *)
LEMMA LastSounds ==
  ASSUME NEW fs, Len(fs) = 1, DOMAIN fs = 1 .. 1, NEW g, NEW v, NEW p, NEW sig,
         Sounds(fs, g, v, p, sig), fs[1].elem = NULL,
         NEW v2, v2 = ContainerReading(fs[1].kind, g[1].list),
         NEW p2, p2.list = T!Longer(p.list, NULL, v2, <<>>)
  PROVE  Sounds(<<>>, g, v2, p2, Append(sig, T!Closing(fs[1].kind)))
<1>1. 1 \in DOMAIN fs /\ fs # <<>> /\ 1 \in Nat \ {0}
  <2>1. PICK m \in Nat \ {0} : m = 1 /\ Len(fs) = m /\ DOMAIN fs = 1 .. m
    OBVIOUS
  <2>2. m \in DOMAIN fs
    BY <2>1
  <2>3. fs # <<>>
    BY <2>1
  <2> QED BY <2>1, <2>2, <2>3
<1>2. /\ v2.said \in Seq(Sound)
      /\ Append(sig, T!Closing(fs[1].kind)) = g[1].heard \o v2.said
  <2>1. 1 \in Nat \ {0}
    OBVIOUS
  <2>2. ContainerReading(fs[1].kind, g[1].list).said \in Seq(Sound)
    BY <2>1, FrameSounds, Zenon
  <2>3. HeardOut(fs[1], g[1], sig)
    BY <2>1, FrameSounds, Zenon
  <2> QED BY <2>2, <2>3 DEF HeardOut
<1>3. g[1].heard = Start \o p.list.said /\ p.list.said \in Seq(Sound)
  BY <1>1 DEF Sounds
<1>4. p2.list.said = (p.list.said \o v2.said) \o <<>>
  <2>1. T!Longer(p.list, NULL, v2, <<>>).said = (p.list.said \o v2.said) \o <<>>
    BY DEF T!Longer
  <2> QED BY <2>1
<1>5. PICK a \in Seq(Sound), b \in Seq(Sound), c \in Seq(Sound) : a = Start /\ b = p.list.said /\ c = v2.said
  BY <1>2, <1>3, Joined
<1>6. (a \o b) \o c = a \o (b \o c) /\ b \o c \in Seq(Sound) /\ (b \o c) \o <<>> = b \o c
  BY Associates, Joined
<1>7. DOMAIN <<>> = {}
  OBVIOUS
<1> QED BY <1>2, <1>3, <1>4, <1>5, <1>6, <1>7 DEF Sounds
-----------------------------------------------------------------------------
(* How much of the text has been consumed; the token looked at is not.     *)
Consumed == IF look = NULL THEN Len(text) ELSE Len(text) - 1
Peeked == look # NULL => text # <<>> /\ Last(text) = look

(* Without "var", a statement that goes on has had no error.               *)
Spoken == Contains(text, "VAR")
Going ==
  /\ state \in {"statement", "name", "equals", "inside"} => outcome = "ok"
  /\ state \in {"name", "equals"} \/ vars # 0 => Spoken
  /\ state = "idle" => vars = 0

(* One value at the top level, unless there are several.                   *)
OneRoot ==
  /\ frames # <<>> /\ ~ multi => root = NULL
  /\ state # "idle" /\ strict => ~ multi

Clean == state # "idle" /\ outcome = "ok" /\ ~ Spoken

(* Every text that goes on from what has been consumed.                    *)
Goes(u) == Extends(u, text, Consumed)

(* NULL is no token.                                                       *)
LEMMA TokenThere ==
  ASSUME NEW t \in Token
  PROVE  t # NULL
BY ParserAssumption

(* The last entry of a sequence.                                           *)
LEMMA LastOf ==
  ASSUME NEW S, NEW s \in Seq(S), NEW n \in Nat, Len(s) = n + 1
  PROVE  s # <<>> /\ Last(s) = s[n + 1]
BY DEF Last

(* Where the token that is looked at is.                                   *)
LEMMA LastIs ==
  ASSUME Heard, Peeked
  PROVE  /\ text \in Seq(Token) /\ Len(text) \in Nat /\ DOMAIN text = 1 .. Len(text)
         /\ look = NULL => Consumed = Len(text)
         /\ look # NULL => Consumed = Len(text) - 1 /\ Len(text) # 0 /\ text[Len(text)] = look
         /\ Consumed \in Nat /\ Consumed <= Len(text)
<1>1. text \in Seq(Token)
  BY DEF Heard
<1>2. Len(text) \in Nat /\ DOMAIN text = 1 .. Len(text) /\ (text # <<>> => Len(text) # 0)
  BY <1>1
<1>3. look # NULL => Len(text) # 0 /\ text[Len(text)] = look
  BY <1>2 DEF Peeked, Last
<1>4. CASE look = NULL
  BY <1>1, <1>2, <1>4 DEF Consumed
<1>5. CASE look # NULL
  <2>1. Consumed = Len(text) - 1
    BY <1>5 DEF Consumed
  <2>2. Len(text) - 1 \in Nat /\ Len(text) - 1 <= Len(text)
    BY <1>2, <1>3, <1>5
  <2> QED BY <1>1, <1>2, <1>3, <1>5, <2>1, <2>2
<1> QED BY <1>4, <1>5

(* What See makes of the text.                                             *)
LEMMA Seen ==
  ASSUME Heard, Peeked, NEW t \in Token, See(t)
  PROVE  /\ Len(text') = Consumed + 1 /\ text'[Consumed + 1] = t /\ text' \in Seq(Token)
         /\ \A i \in 1 .. Consumed : text'[i] = text[i]
         /\ text' # <<>> /\ Last(text') = t
         /\ look = NULL \/ look = t
<1>1. PICK s \in Seq(Token) : s = text
  BY LastIs
<1>2. /\ Len(text) \in Nat /\ DOMAIN text = 1 .. Len(text)
      /\ look = NULL => Consumed = Len(text)
      /\ look # NULL => Consumed = Len(text) - 1 /\ Len(text) # 0 /\ text[Len(text)] = look
      /\ Consumed \in Nat /\ Consumed <= Len(text)
  BY LastIs
<1>3. CASE look = NULL
  <2>1. text' = Append(s, t)
    BY <1>1, <1>3 DEF See
  <2>2. /\ Len(Append(s, t)) = Len(s) + 1 /\ Append(s, t)[Len(s) + 1] = t
        /\ \A i \in DOMAIN s : Append(s, t)[i] = s[i]
        /\ Append(s, t) \in Seq(Token)
    BY Appended
  <2>3. /\ Len(text') = Consumed + 1 /\ text'[Consumed + 1] = t /\ text' \in Seq(Token)
        /\ \A i \in 1 .. Consumed : text'[i] = text[i]
    BY <1>1, <1>2, <1>3, <2>1, <2>2
  <2>4. text' # <<>> /\ Last(text') = t
    BY <1>2, <2>3, LastOf
  <2> QED BY <1>3, <2>3, <2>4
<1>4. CASE look # NULL
  <2>1. text' = text /\ look = t
    BY <1>4 DEF See
  <2>3. /\ Len(text') = Consumed + 1 /\ text'[Consumed + 1] = t /\ text' \in Seq(Token)
        /\ \A i \in 1 .. Consumed : text'[i] = text[i]
    BY <1>1, <1>2, <1>4, <2>1
  <2>4. text' # <<>> /\ Last(text') = t
    BY <1>2, <2>3, LastOf
  <2> QED BY <2>1, <2>3, <2>4
<1> QED BY <1>3, <1>4

(* A token consumed is one token more.                                     *)
LEMMA Consumes ==
  ASSUME Heard, Peeked, NEW t \in Token, See(t), Eat(t), t # "EOF"
  PROVE  /\ look' = NULL /\ Consumed' = Consumed + 1 /\ Consumed \in Nat
         /\ \A u : Goes(u)' => Goes(u) /\ u[Consumed + 1] = t /\ Consumed + 1 <= Len(u) /\ Len(u) \in Nat
<1>1. /\ Len(text') = Consumed + 1 /\ text'[Consumed + 1] = t
      /\ \A i \in 1 .. Consumed : text'[i] = text[i]
  BY Seen
<1>2. look' = NULL /\ Consumed \in Nat
  BY LastIs DEF Eat
<1>3. Consumed' = Consumed + 1
  BY <1>1, <1>2 DEF Consumed
<1>4. ASSUME NEW u, Goes(u)'
      PROVE  Goes(u) /\ u[Consumed + 1] = t /\ Consumed + 1 <= Len(u) /\ Len(u) \in Nat
  <2>1. u \in Seq(Token) /\ Consumed' \in 0 .. Len(u) /\ \A i \in 1 .. Consumed' : u[i] = text'[i]
    BY <1>4 DEF Goes, Extends
  <2>2. Len(u) \in Nat
    BY <2>1
  <2>3. Consumed + 1 <= Len(u) /\ u[Consumed + 1] = t
    BY <1>1, <1>2, <1>3, <2>1, <2>2
  <2>4. Consumed \in 0 .. Len(u) /\ \A i \in 1 .. Consumed : u[i] = text[i]
    BY <1>1, <1>2, <1>3, <2>1, <2>2
  <2> QED BY <2>1, <2>2, <2>3, <2>4 DEF Goes, Extends
<1> QED BY <1>2, <1>3, <1>4

(* A token looked at is known, and no more than that.                      *)
LEMMA Peeks ==
  ASSUME Heard, Peeked, NEW t \in Token, See(t), Keep(t)
  PROVE  /\ look' = t /\ Consumed' = Consumed /\ Consumed \in Nat
         /\ \A u : Goes(u)' => Goes(u) /\ Len(u) \in Nat /\ Consumed <= Len(u)
<1>1. /\ Len(text') = Consumed + 1
      /\ \A i \in 1 .. Consumed : text'[i] = text[i]
  BY Seen
<1>2. look' = t /\ t # NULL /\ Consumed \in Nat
  BY LastIs, TokenThere DEF Keep
<1>3. Consumed' = Consumed
  BY <1>1, <1>2 DEF Consumed
<1>4. ASSUME NEW u, Goes(u)'
      PROVE  Goes(u) /\ Len(u) \in Nat /\ Consumed <= Len(u)
  <2>1. u \in Seq(Token) /\ Consumed' \in 0 .. Len(u) /\ \A i \in 1 .. Consumed' : u[i] = text'[i]
    BY <1>4 DEF Goes, Extends
  <2>2. Len(u) \in Nat
    BY <2>1
  <2>4. Consumed \in 0 .. Len(u) /\ \A i \in 1 .. Consumed : u[i] = text[i]
    BY <1>1, <1>2, <1>3, <2>1, <2>2
  <2> QED BY <2>1, <2>2, <2>4 DEF Goes, Extends
<1> QED BY <1>2, <1>3, <1>4

(* What is looked at stays the last token of the text.                     *)
LEMMA StillPeeked ==
  ASSUME Heard, Peeked, NEW t \in Token, See(t), Keep(t) \/ Eat(t)
  PROVE  Peeked'
<1>1. text' # <<>> /\ Last(text') = t /\ look' \in {t, NULL}
  BY Seen DEF Keep, Eat
<1> QED BY <1>1 DEF Peeked

(* "var" stays in the text, once it has been seen.                         *)
LEMMA StillSpoken ==
  ASSUME Heard, Peeked, NEW t \in Token, See(t)
  PROVE  (Spoken => Spoken') /\ (t = "VAR" => Spoken')
<1>1. text' = text \/ text' = Append(text, t)
  BY DEF See
<1>2. ASSUME Spoken PROVE Spoken'
  <2>1. PICK i \in 1 .. Len(text) : text[i] = "VAR"
    BY <1>2 DEF Spoken, Contains
  <2>2. text \in Seq(Token)
    BY DEF Heard
  <2>3. i \in 1 .. Len(Append(text, t)) /\ Append(text, t)[i] = "VAR"
    BY <2>1, <2>2
  <2> QED BY <1>1, <2>1, <2>3 DEF Spoken, Contains
<1>3. ASSUME t = "VAR" PROVE Spoken'
  <2>1. Len(text') = Consumed + 1 /\ text'[Consumed + 1] = t /\ Consumed \in Nat
    BY Seen, LastIs
  <2>2. Consumed + 1 \in 1 .. Len(text')
    BY <2>1
  <2> QED BY <1>3, <2>1, <2>2 DEF Spoken, Contains
<1> QED BY <1>2, <1>3

-----------------------------------------------------------------------------
(* The text so far, whatever follows it.                                   *)

Reading(g, v, p) ==
  /\ Placed(frames, g, p, Consumed)
  /\ \A u : Goes(u) => ReadsText(u, frames, g, v, p, Consumed, look, strict)

(* In the innermost frame                                                  *)
LEMMA TopReading ==
  ASSUME Typed, frames # <<>>, NEW f, frames' = Append(Front(frames), f), f.kind = Top.kind,
         strict' = strict,
         NEW g, NEW g2, NEW v, NEW v2, NEW p, Reading(g, v, p),
         Consumed \in Nat, Consumed' \in {Consumed, Consumed + 1},
         NEW m, m = Len(frames), NewPart(frames, g, g2, m),
         g2[m].part \in g2[m].from + 1 .. Consumed' + 1,
         \A u : Goes(u)' => /\ Goes(u)
                            /\ ReadsTop(u, Top, g[m], v, Consumed, look)
                                 => ReadsTop(u, f, g2[m], v2, Consumed', look')
  PROVE  Reading(g2, v2, p)'
<1>1. /\ Len(frames') = m /\ DOMAIN frames' = DOMAIN frames
      /\ DOMAIN frames = 1 .. m /\ m \in Nat \ {0}
      /\ Top = frames[m] /\ frames'[m] = f
      /\ \A k \in DOMAIN frames : k # m => frames'[k] = frames[k]
  BY TopReplaced
<1>2. Placed(frames, g, p, Consumed)
  BY DEF Reading
<1>2a. g2[m].from = g[m].from /\ \A k \in DOMAIN frames : k # m => g2[k] = g[k]
  BY DEF NewPart, SameBelow
<1>3. Placed(frames', g2, p, Consumed')
  <2>1. Consumed' \in Nat /\ p.to \in 0 .. Consumed'
    BY <1>2 DEF Placed
  <2>2. ASSUME NEW k \in DOMAIN frames'
        PROVE  g2[k].from \in 1 .. Consumed' /\ g2[k].part \in g2[k].from + 1 .. Consumed' + 1
    <3>1. k \in DOMAIN frames
      BY <1>1
    <3>2. g[k].from \in 1 .. Consumed /\ g[k].part \in g[k].from + 1 .. Consumed + 1
      BY <1>2, <3>1 DEF Placed
    <3>3. g[k].from \in 1 .. Consumed'
      BY <3>2
    <3>4. CASE k = m
      BY <1>2a, <3>3, <3>4
    <3>5. CASE k # m
      BY <1>2a, <3>1, <3>2, <3>3, <3>5
    <3> QED BY <3>4, <3>5
  <2> QED BY <2>1, <2>2 DEF Placed
<1>4. ASSUME NEW u, Goes(u)'
      PROVE  ReadsText(u, frames', g2, v2, p, Consumed', look', strict)
  <2>1. ReadsText(u, frames, g, v, p, Consumed, look, strict)
    BY <1>4 DEF Reading
  <2>2. ReadsTop(u, frames[m], g[m], v, Consumed, look)
    BY <1>1, <2>1 DEF ReadsText
  <2>3. ReadsTop(u, frames'[m], g2[m], v2, Consumed', look')
    BY <1>1, <1>4, <2>2
  <2>5. OtherTop(frames, frames', m)
    BY <1>1 DEF OtherTop
  <2> QED BY <2>1, <2>3, <2>5, TopText, Zenon
<1> QED BY <1>3, <1>4 DEF Reading

(* A frame begins.                                                         *)
LEMMA PushReading ==
  ASSUME Typed, NEW n, NEW t, frames' = Append(frames, Opened(t, n)), strict' = strict,
         NEW g, NEW g2, NEW v, NEW v2, NEW p, Reading(g, v, p),
         Consumed \in Nat, Consumed' = Consumed + 1,
         NEW m, m = Len(frames), NewFrame(frames, g, g2, m, Consumed),
         \A u : Goes(u)' => /\ Goes(u) /\ u[Consumed + 1] = t
                            /\ frames # <<>> /\ ReadsTop(u, Top, g[m], v, Consumed, look)
                                 => Awaits(u, Top, g[m], Consumed + 1)
  PROVE  Reading(g2, v2, p)'
<1>1. /\ Len(frames') = m + 1 /\ DOMAIN frames' = 1 .. m + 1 /\ DOMAIN frames = 1 .. m
      /\ m \in Nat
      /\ frames'[m + 1] = Opened(t, n) /\ \A k \in DOMAIN frames : frames'[k] = frames[k]
  <2>1. PICK s \in Seq(Frames) : s = frames
    BY DEF Typed
  <2>2. PICK x : x = Opened(t, n)
    OBVIOUS
  <2>3. /\ Len(Append(s, x)) = Len(s) + 1 /\ DOMAIN Append(s, x) = 1 .. (Len(s) + 1)
        /\ DOMAIN s = 1 .. Len(s) /\ Len(s) \in Nat
        /\ Append(s, x)[Len(s) + 1] = x
        /\ \A i \in DOMAIN s : Append(s, x)[i] = s[i]
    BY Appended
  <2> QED BY <2>1, <2>2, <2>3
<1>2. m # 0 => frames # <<>> /\ Top = frames[m]
  BY <1>1, TopThere
<1>3. Placed(frames, g, p, Consumed)
  BY DEF Reading
<1>3a. /\ \A k \in DOMAIN frames : g2[k] = g[k]
       /\ g2[m + 1].from = Consumed + 1 /\ g2[m + 1].part = Consumed + 2
  BY DEF NewFrame
<1>4. Placed(frames', g2, p, Consumed')
  <2>1. Consumed' \in Nat /\ p.to \in 0 .. Consumed'
    BY <1>3 DEF Placed
  <2>2. ASSUME NEW k \in DOMAIN frames'
        PROVE  g2[k].from \in 1 .. Consumed' /\ g2[k].part \in g2[k].from + 1 .. Consumed' + 1
    <3>1. CASE k = m + 1
      BY <1>3a, <3>1
    <3>2. CASE k # m + 1
      <4>1. k \in DOMAIN frames
        BY <1>1, <3>2
      <4>2. g[k].from \in 1 .. Consumed /\ g[k].part \in g[k].from + 1 .. Consumed + 1
        BY <1>3, <4>1 DEF Placed
      <4>3. g2[k] = g[k]
        BY <1>3a, <4>1
      <4> QED BY <4>2, <4>3
    <3> QED BY <3>1, <3>2
  <2> QED BY <2>1, <2>2 DEF Placed
<1>5. /\ frames'[m + 1].at = "next" /\ frames'[m + 1].name = NULL /\ frames'[m + 1].kind = t
      /\ frames'[m + 1].elem = NULL
  BY <1>1 DEF Opened
<1>6. ASSUME NEW u, Goes(u)'
      PROVE  ReadsText(u, frames', g2, v2, p, Consumed', look', strict)
  <2>1. ReadsText(u, frames, g, v, p, Consumed, look, strict)
    BY <1>6 DEF Reading
  <2>2. u[Consumed + 1] = t
    BY <1>6
  <2>3. m # 0 => Awaits(u, frames[m], g[m], Consumed + 1)
    <3>1. m # 0 => ReadsTop(u, frames[m], g[m], v, Consumed, look)
      BY <1>2, <2>1 DEF ReadsText
    <3> QED BY <1>2, <1>6, <3>1
  <2>4. OneMore(frames, frames', m)
    BY <1>1, <1>5 DEF OneMore
  <2>5. frames'[m + 1].kind = u[Consumed + 1]
    BY <1>5, <2>2
  <2>6. Consumed \in Nat
    OBVIOUS
  <2> QED BY <2>1, <2>3, <2>4, <2>5, <2>6, PushText, Zenon
<1> QED BY <1>4, <1>6 DEF Reading

(* The innermost frame ends: the one around it has its node for element.   *)
LEMMA Popped ==
  ASSUME Typed, frames # <<>>, Front(frames) # <<>>,
         frames' = Append(Front(Front(frames)),
                          [Last(Front(frames)) EXCEPT !.elem = Top.node, !.at = "sep"]),
         NEW m, m = Len(frames)
  PROVE  /\ OneLess(frames, frames', m) /\ Top = frames[m] /\ m \in DOMAIN frames
         /\ m - 1 \in DOMAIN frames /\ Last(Front(frames)) = frames[m - 1]
         /\ Len(frames') = m - 1 /\ m - 1 \in DOMAIN frames'
         /\ frames'[m - 1].elem = Top.node
         /\ \A k \in DOMAIN frames' :
              /\ k \in DOMAIN frames /\ k # m /\ frames'[k].kind = frames[k].kind
              /\ frames'[k].node = frames[k].node /\ frames'[k].items = frames[k].items
<1>0. NULL \notin Nat /\ frames \in Seq(Frames)
  BY ParserAssumption DEF Typed
<1>2. PICK q : q = m - 1
  OBVIOUS
<1>3. PICK rest \in Seq(Frames) : rest = Front(frames)
  BY <1>0, Shortened
<1>4. /\ Len(rest) = q /\ m \in Nat \ {0} /\ DOMAIN frames = 1 .. m /\ Top = frames[m]
      /\ \A i \in DOMAIN rest : rest[i] = frames[i] /\ i \in DOMAIN frames /\ i # m
      /\ DOMAIN rest = 1 .. q
  BY <1>0, <1>2, <1>3, Shortened DEF Top
<1>5. PICK f : f = [Last(rest) EXCEPT !.elem = Top.node, !.at = "sep"]
  OBVIOUS
<1>6. /\ Len(frames') = q /\ DOMAIN frames' = 1 .. q /\ q \in Nat \ {0} /\ Last(rest) = rest[q]
      /\ frames'[q] = f
      /\ \A i \in DOMAIN frames' : i # q => frames'[i] = rest[i]
  <2>1. frames' = Append(Front(rest), f) /\ rest # <<>>
    BY <1>3, <1>5
  <2> QED BY <2>1, <1>4, LastReplaced, SMTT(30)
<1>7. q \in DOMAIN frames' /\ q \in DOMAIN frames /\ q # m /\ m \in DOMAIN frames /\ m >= 2
  BY <1>2, <1>4, <1>6
<1>8. \A k \in DOMAIN frames' : k \in DOMAIN frames /\ k # m /\ (k # q => frames'[k] = frames[k])
  BY <1>4, <1>6
<1>9. Last(rest) = frames[q]
  BY <1>4, <1>6
<1>10. frames[q] \in Frames /\ Top \in Frames
  BY <1>0, <1>4, <1>7, Entries
<1>13. /\ f.node = frames[q].node /\ f.items = frames[q].items /\ f.name = frames[q].name
       /\ f.kind = frames[q].kind /\ f.elem = Top.node /\ f.at = "sep"
  <2>1. f = [frames[q] EXCEPT !.elem = Top.node, !.at = "sep"]
    BY <1>5, <1>9
  <2> QED BY <2>1, <1>10 DEF Frames
<1>14. Top.node # NULL
  <2>1. Top.node \in DOMAIN nodes
    BY <1>10 DEF Frames
  <2>2. DOMAIN nodes \subseteq Nat
    BY Parts
  <2> QED BY <1>0, <2>1, <2>2
<1>15. OneLess(frames, frames', m)
  BY <1>2, <1>4, <1>6, <1>7, <1>8, <1>13, <1>14 DEF OneLess
<1>16. \A k \in DOMAIN frames' :
          /\ frames'[k].kind = frames[k].kind
          /\ frames'[k].node = frames[k].node /\ frames'[k].items = frames[k].items
  BY <1>6, <1>8, <1>13
<1> QED BY <1>2, <1>3, <1>4, <1>6, <1>7, <1>8, <1>9, <1>13, <1>15, <1>16

(* What closes the innermost frame reads its container.                    *)
LEMMA TopEnds ==
  ASSUME Typed, frames # <<>>, Top.at = "next", NEW g, NEW v, NEW p, NEW m, m = Len(frames),
         NEW t, t = T!Closing(Top.kind), look = NULL \/ look = t, Consumed \in Nat,
         Placed(frames, g, p, Consumed),
         NEW u, ReadsText(u, frames, g, v, p, Consumed, look, strict), u[Consumed + 1] = t
  PROVE  ContainerReading(Top.kind, g[m].list) \in T!Readings(u, g[m].from, Consumed + 1)
<1>1. m \in DOMAIN frames /\ Top = frames[m] /\ Top \in Frames
  BY TopThere
<1>2. Top.kind \in T!Opening
  BY <1>1 DEF Frames, Opening, T!Opening
<1>3. ReadsTop(u, Top, g[m], v, Consumed, look) /\ u[g[m].from] = Top.kind
  BY <1>1 DEF ReadsText
<1>4. g[m].from \in 1 .. Consumed /\ g[m].part \in g[m].from + 1 .. Consumed + 1
  BY <1>1 DEF Placed
<1>5. u[Consumed + 1] = T!Closing(Top.kind) /\ (look = NULL \/ look = u[Consumed + 1])
  OBVIOUS
<1> QED BY <1>2, <1>3, <1>4, <1>5, FrameRead

(* ... and the one around it reads on.                                     *)
LEMMA PopReading ==
  ASSUME Typed, frames # <<>>, Front(frames) # <<>>, Top.at = "next",
         frames' = Append(Front(Front(frames)),
                          [Last(Front(frames)) EXCEPT !.elem = Top.node, !.at = "sep"]),
         strict' = strict, NEW g, NEW v, NEW v2, NEW p, Reading(g, v, p), NEW m, m = Len(frames),
         v2 = ContainerReading(Top.kind, g[m].list),
         NEW t, t = T!Closing(Top.kind), look = NULL \/ look = t,
         Consumed \in Nat, Consumed' = Consumed + 1,
         \A u : Goes(u)' => Goes(u) /\ u[Consumed + 1] = t
  PROVE  Reading(g, v2, p)'
<1>1. /\ OneLess(frames, frames', m) /\ \A k \in DOMAIN frames' : k \in DOMAIN frames
  BY Popped
<1>2. Placed(frames, g, p, Consumed)
  BY DEF Reading
<1>3. Placed(frames', g, p, Consumed')
  <2>1. Consumed' \in Nat /\ p.to \in 0 .. Consumed'
    BY <1>2 DEF Placed
  <2>2. ASSUME NEW k \in DOMAIN frames'
        PROVE  g[k].from \in 1 .. Consumed' /\ g[k].part \in g[k].from + 1 .. Consumed' + 1
    <3>1. g[k].from \in 1 .. Consumed /\ g[k].part \in g[k].from + 1 .. Consumed + 1
      BY <1>1, <1>2 DEF Placed
    <3> QED BY <3>1
  <2> QED BY <2>1, <2>2 DEF Placed
<1>4. ASSUME NEW u, Goes(u)'
      PROVE  ReadsText(u, frames', g, v2, p, Consumed', look', strict)
  <2>1. ReadsText(u, frames, g, v, p, Consumed, look, strict) /\ u[Consumed + 1] = t
    BY <1>4 DEF Reading
  <2>2. v2 \in T!Readings(u, g[m].from, Consumed + 1)
    BY <1>2, <2>1, TopEnds
  <2>3. Consumed \in Nat
    OBVIOUS
  <2>4. ReadsText(u, frames', g, v2, p, Consumed + 1, look', strict)
    BY <1>1, <1>2, <2>1, <2>2, <2>3, PopText, Zenon
  <2> QED BY <2>4
<1> QED BY <1>3, <1>4 DEF Reading

(* Between statements the text so far is all that is known.                *)
LEMMA NothingOpen ==
  ASSUME NEW u, NEW g, NEW v, NEW p, NEW c, NEW l, NEW s, p.list \in T!Prefixes(u, s)[p.to],
         p.to = c
  PROVE  ReadsText(u, <<>>, g, v, p, c, l, s)
<1>1. DOMAIN <<>> = {}
  OBVIOUS
<1> QED BY <1>1 DEF ReadsText

(* The value of the statement is read.                                     *)
LEMMA LastReading ==
  ASSUME Typed, frames # <<>>, Front(frames) = <<>>, Top.at = "next", frames' = <<>>,
         strict' = strict,
         NEW g, NEW v, NEW v2, NEW p, NEW p2, Reading(g, v, p), NEW m, m = Len(frames),
         v2 = ContainerReading(Top.kind, g[m].list),
         p2.list = T!Longer(p.list, NULL, v2, <<>>), p2.to = Consumed + 1, p.to = 0 \/ ~ strict,
         NEW t, t = T!Closing(Top.kind), look = NULL \/ look = t,
         Consumed \in Nat, Consumed' = Consumed + 1,
         \A u : Goes(u)' => Goes(u) /\ u[Consumed + 1] = t /\ Consumed + 1 <= Len(u) /\ Len(u) \in Nat
  PROVE  Reading(g, v2, p2)' /\ m = 1
<1>1. m = 1 /\ Top = frames[m] /\ m \in DOMAIN frames /\ Top \in Frames
  <2>1. PICK s \in Seq(Frames) : s = frames
    BY DEF Typed
  <2>2. Len(Front(s)) = Len(s) - 1 /\ Len(s) \in Nat \ {0}
    BY <2>1, Shortened
  <2>3. Len(s) = 1
    <3>1. PICK r : r = Front(s) /\ r = <<>>
      BY <2>1
    <3>2. Len(r) = 0
      BY <3>1
    <3> QED BY <2>2, <3>1, <3>2
  <2> QED BY <2>1, <2>3, TopThere
<1>2. Placed(frames, g, p, Consumed)
  BY DEF Reading
<1>3. p.to \in 0 .. Consumed
  BY <1>2 DEF Placed
<1>4. Placed(frames', g, p2, Consumed')
  <2>1. Consumed' \in Nat /\ p2.to \in 0 .. Consumed'
    OBVIOUS
  <2>2. DOMAIN frames' = {}
    OBVIOUS
  <2> QED BY <2>1, <2>2 DEF Placed
<1>5. ASSUME NEW u, Goes(u)'
      PROVE  ReadsText(u, frames', g, v2, p2, Consumed', look', strict)
  <2>1. ReadsText(u, frames, g, v, p, Consumed, look, strict) /\ u[Consumed + 1] = t
    BY <1>5 DEF Reading
  <2>2. v2 \in T!Readings(u, g[m].from, Consumed + 1)
    BY <1>2, <2>1, TopEnds
  <2>3. /\ p.list \in T!Prefixes(u, strict)[p.to]
        /\ g[m].from = p.to + 1 /\ u[p.to + 1] \in T!Opening
    <3>1. g[1].from = p.to + 1 /\ u[g[m].from] = Top.kind
      BY <1>1, <2>1 DEF ReadsText
    <3>2. Top.kind \in T!Opening
      BY <1>1 DEF Frames, Opening, T!Opening
    <3> QED BY <1>1, <2>1, <3>1, <3>2 DEF ReadsText
  <2>4. PICK n \in Nat : n = Len(u) /\ Consumed + 1 <= n
    BY <1>5
  <2>5. p.to \in 0 .. n /\ Consumed + 1 \in 0 .. n /\ p.to < Consumed + 1
    BY <1>3, <2>4
  <2>6. T!Longer(p.list, NULL, v2, <<>>) \in T!Prefixes(u, strict)[Consumed + 1]
    <3>1. v2 \in T!Readings(u, p.to + 1, Consumed + 1)
      BY <2>2, <2>3
    <3> QED BY <2>3, <2>4, <2>5, <3>1, TextRead
  <2>7. p2.list \in T!Prefixes(u, strict)[p2.to]
    BY <2>6
  <2> QED BY <2>7, NothingOpen
<1> QED BY <1>1, <1>4, <1>5 DEF Reading

(* ... and a scalar is one at once.                                        *)
LEMMA ScalarStatement ==
  ASSUME frames = <<>>, frames' = <<>>, strict' = strict,
         NEW t \in Scalar, NEW g, NEW v, NEW v2, NEW p, NEW p2, Reading(g, v, p), p.to = 0,
         v2 = ScalarReading(t), p2.list = T!Longer(p.list, NULL, v2, <<>>), p2.to = Consumed + 1,
         Consumed \in Nat, Consumed' = Consumed + 1,
         \A u : Goes(u)' => Goes(u) /\ u[Consumed + 1] = t /\ Consumed + 1 <= Len(u) /\ Len(u) \in Nat
  PROVE  Reading(g, v2, p2)'
<1>4. Placed(frames', g, p2, Consumed')
  <2>1. Consumed' \in Nat /\ p2.to \in 0 .. Consumed'
    OBVIOUS
  <2>2. DOMAIN frames' = {}
    OBVIOUS
  <2> QED BY <2>1, <2>2 DEF Placed
<1>5. ASSUME NEW u, Goes(u)'
      PROVE  ReadsText(u, frames', g, v2, p2, Consumed', look', strict)
  <2>1. /\ p.list \in T!Prefixes(u, strict)[p.to] /\ p.to = Consumed
        /\ u[Consumed + 1] = t
    BY <1>5 DEF Reading, ReadsText
  <2>2. v2 \in T!Readings(u, Consumed + 1, Consumed + 1)
    BY <2>1, ScalarRead
  <2>4. PICK n \in Nat : n = Len(u) /\ Consumed + 1 <= n
    BY <1>5
  <2>5. p.to \in 0 .. n /\ Consumed + 1 \in 0 .. n /\ p.to < Consumed + 1
    BY <2>1, <2>4
  <2>6. T!Longer(p.list, NULL, v2, <<>>) \in T!Prefixes(u, strict)[Consumed + 1]
    <3>1. v2 \in T!Readings(u, p.to + 1, Consumed + 1)
      BY <2>1, <2>2
    <3> QED BY <2>1, <2>4, <2>5, <3>1, TextRead
  <2>7. p2.list \in T!Prefixes(u, strict)[p2.to]
    BY <2>6
  <2> QED BY <2>7, NothingOpen
<1> QED BY <1>4, <1>5 DEF Reading

(* Nothing has been read.                                                  *)
LEMMA FirstReading ==
  ASSUME frames' = <<>>, text' = <<>>, look' = NULL,
         NEW g, NEW v, NEW p, p.list = T!Nothing, p.to = 0
  PROVE  Reading(g, v, p)'
<1>1. Consumed' = 0
  BY DEF Consumed
<1>2. Placed(frames', g, p, Consumed')
  <2>1. DOMAIN frames' = {}
    OBVIOUS
  <2> QED BY <1>1, <2>1 DEF Placed
<1>3. ASSUME NEW u, Goes(u)'
      PROVE  ReadsText(u, frames', g, v, p, Consumed', look', strict')
  <2>1. PICK n \in Nat : n = Len(u)
    BY <1>3 DEF Goes, Extends
  <2>2. p.list \in T!Prefixes(u, strict')[p.to]
    BY <2>1, NothingRead
  <2> QED BY <1>1, <2>2, NothingOpen
<1> QED BY <1>2, <1>3 DEF Reading
-----------------------------------------------------------------------------
(* The tree so far is the one that has been read: w has the shape of each  *)
(* node, and what the frames have is what their lists read.                *)
TopItems(h, r, mu, w) ==
  IF r = NULL THEN <<>>
  ELSE IF mu THEN Shaped(h[r].items, w) ELSE <<T!Item(NULL, w[r])>>

Trees(w, g, v, p) ==
  /\ OnlyShape(nodes, w)
  /\ \A k \in DOMAIN frames :
       /\ nodes[frames[k].node].kind = frames[k].kind
       /\ g[k].list.items = Shaped(frames[k].items, w)
  /\ frames # <<>> /\ Top.elem # NULL => v.tree = w[Top.elem]
  /\ p.list.items = TopItems(nodes, root, multi, w)

(* No items have no shapes.                                                *)
LEMMA NoItems ==
  ASSUME NEW w
  PROVE  Shaped(<<>>, w) = <<>>
BY DEF Shaped

(* The first item of a list, and one without a name after the others.      *)
LEMMA Unnamed ==
  ASSUME NEW items, NEW x
  PROVE  /\ T!Put(items, T!Item(NULL, x)) = Append(items, T!Item(NULL, x))
         /\ T!Put(<<>>, T!Item(NULL, x)) = <<T!Item(NULL, x)>>
         /\ \A v : With(items, NULL, v) = Append(items, Slot(NULL, v))
<1>1. T!Item(NULL, x).name = NULL
  BY DEF T!Item
<1>2. \A s : T!SameName(s, NULL) = {} /\ SameName(s, NULL) = {}
  BY DEF T!SameName, SameName
<1> QED BY <1>1, <1>2 DEF T!Put, With

(* The innermost frame after a step.                                       *)
LEMMA TopAfter ==
  ASSUME NEW m, Len(frames') = m
  PROVE  Top' = frames'[m]
BY DEF Top, Last

(* The innermost frame reads on: no node changes.                          *)
LEMMA TurnTrees ==
  ASSUME Typed, frames # <<>>, NEW f, frames' = Append(Front(frames), f), f.node = Top.node,
         f.kind = Top.kind, f.items = Top.items, f.elem = Top.elem,
         UNCHANGED <<nodes, root, multi>>,
         NEW w, NEW g, NEW v, NEW p, Trees(w, g, v, p)
  PROVE  Trees(w, g, v, p)'
<1>1. PICK m : m = Len(frames)
  OBVIOUS
<1>2. /\ Len(frames') = m /\ DOMAIN frames' = DOMAIN frames /\ Top = frames[m] /\ frames'[m] = f
      /\ \A k \in DOMAIN frames : k # m => frames'[k] = frames[k]
  BY <1>1, TopReplaced
<1>3. Top' = f
  BY <1>2, TopAfter
<1>4. \A k \in DOMAIN frames :
        /\ frames'[k].node = frames[k].node /\ frames'[k].kind = frames[k].kind
        /\ frames'[k].items = frames[k].items
  BY <1>2
<1> QED BY <1>2, <1>3, <1>4 DEF Trees

(* An element is added.                                                    *)
LEMMA AddTrees ==
  ASSUME Good, frames # <<>>, Top.elem # NULL,
         nodes' = [SetParent(nodes, Top.elem, Top.node)
                     EXCEPT ![Top.elem].sealed = @ \/ immutable],
         frames' = Append(Front(frames), Holding(Top)), UNCHANGED <<root, multi>>,
         NEW w, NEW g, NEW g2, NEW v, NEW p, Trees(w, g, v, p), NEW m, m = Len(frames),
         SameBelow(frames, g, g2, m), NEW x, g2[m].list = T!Longer(g[m].list, Top.name, v, x)
  PROVE  Trees(w, g2, v, p)'
<1>0. Typed
  BY DEF Good
<1>1. /\ DOMAIN nodes' = DOMAIN nodes /\ Top.elem \in DOMAIN nodes /\ Top \in Frames
      /\ \A n \in DOMAIN nodes : nodes'[n].items = nodes[n].items /\ nodes'[n].kind = nodes[n].kind
  BY AddNodes
<1>2. PICK f : f = Holding(Top)
  OBVIOUS
<1>3. /\ Len(frames') = m /\ DOMAIN frames' = DOMAIN frames /\ Top = frames[m] /\ frames'[m] = f
      /\ \A k \in DOMAIN frames : k # m => frames'[k] = frames[k]
      /\ DOMAIN frames = 1 .. m /\ m \in Nat \ {0}
  BY <1>0, <1>2, TopReplaced
<1>4. /\ f.node = Top.node /\ f.kind = Top.kind /\ f.elem = NULL
      /\ f.items = With(Top.items, Top.name, Top.elem)
  BY <1>1, <1>2 DEF Holding, Frames
<1>5. Top' = f
  BY <1>3, TopAfter
<1>6. OnlyShape(nodes', w)
  <2>1. OnlyShape(nodes, w)
    BY DEF Trees
  <2>2. PICK h : h = nodes'
    OBVIOUS
  <2>3. OnlyShape(h, w)
    BY <1>1, <2>1, <2>2, ShapeKept
  <2> QED BY <2>2, <2>3
<1>7. g2[m].list.items = Shaped(f.items, w)
  <2>1. g2[m].list.items = T!Put(g[m].list.items, T!Item(Top.name, v.tree))
    <3>1. T!Longer(g[m].list, Top.name, v, x).items = T!Put(g[m].list.items, T!Item(Top.name, v.tree))
      BY DEF T!Longer
    <3> QED BY <3>1
  <2>2. g[m].list.items = Shaped(Top.items, w) /\ v.tree = w[Top.elem]
    BY <1>3 DEF Trees
  <2>3. Top.items \in Seq(Slots)
    BY <1>1 DEF Frames
  <2> QED BY <1>4, <2>1, <2>2, <2>3, ShapedWith
<1>8. ASSUME NEW k \in DOMAIN frames'
      PROVE  /\ nodes'[frames'[k].node].kind = frames'[k].kind
             /\ g2[k].list.items = Shaped(frames'[k].items, w)
  <2>1. k \in DOMAIN frames /\ frames[k].node \in DOMAIN nodes
    BY <1>0, <1>3, Parts
  <2>2. nodes[frames[k].node].kind = frames[k].kind
    BY <2>1 DEF Trees
  <2>3. CASE k = m
    BY <1>1, <1>3, <1>4, <1>7, <2>1, <2>2, <2>3
  <2>4. CASE k # m
    <3>1. g2[k] = g[k] /\ frames'[k] = frames[k]
      BY <1>3, <2>1, <2>4 DEF SameBelow
    <3>2. g[k].list.items = Shaped(frames[k].items, w)
      BY <2>1 DEF Trees
    <3> QED BY <1>1, <2>1, <2>2, <3>1, <3>2
  <2> QED BY <2>3, <2>4
<1>9. TopItems(nodes', root', multi', w) = TopItems(nodes, root, multi, w)
  <2>1. root # NULL => nodes'[root].items = nodes[root].items
    BY <1>0, <1>1 DEF Typed
  <2> QED BY <2>1 DEF TopItems
<1> QED BY <1>4, <1>5, <1>6, <1>8, <1>9 DEF Trees

(* A new node has a shape of its own, and no other shape changes.          *)
SameShapes(w, w2) ==
  /\ \A n \in DOMAIN nodes : w2[n] = w[n] /\ Shaped(nodes[n].items, w2) = Shaped(nodes[n].items, w)
  /\ \A k \in DOMAIN frames : Shaped(frames[k].items, w2) = Shaped(frames[k].items, w)

(* The items of the nodes have the shapes they had.                        *)
LEMMA SameShapesIf ==
  ASSUME Typed, NEW w, NEW w2, \A n \in DOMAIN nodes : w2[n] = w[n]
  PROVE  SameShapes(w, w2)
<1>1. ASSUME NEW n \in DOMAIN nodes
      PROVE  Shaped(nodes[n].items, w2) = Shaped(nodes[n].items, w)
  <2>1. \A i \in DOMAIN nodes[n].items : w2[nodes[n].items[i].item] = w[nodes[n].items[i].item]
    BY Parts
  <2> QED BY <2>1, SameShaped
<1>2. ASSUME NEW k \in DOMAIN frames
      PROVE  Shaped(frames[k].items, w2) = Shaped(frames[k].items, w)
  <2>1. \A i \in DOMAIN frames[k].items : w2[frames[k].items[i].item] = w[frames[k].items[i].item]
    BY Parts
  <2> QED BY <2>1, SameShaped
<1> QED BY <1>1, <1>2 DEF SameShapes

(* One more node leaves the shapes of the others.                          *)
LEMMA GrownShapes ==
  ASSUME Typed, NEW x, Empty(x), nodes' = Append(nodes, x), NEW w, OnlyShape(nodes, w)
  PROVE  \E w2 : /\ OnlyShape(nodes', w2) /\ SameShapes(w, w2)
                 /\ w2[New] = [kind |-> x.kind, items |-> <<>>]
<1>0. PICK h, m : h = nodes' /\ m = New
  OBVIOUS
<1>1. /\ DOMAIN h = DOMAIN nodes \cup {m} /\ m \notin DOMAIN nodes
      /\ \A n \in DOMAIN nodes : h[n] = nodes[n]
      /\ h[m] = x /\ x.items = <<>>
  BY <1>0, Grown
<1>2. PICK w2 : w2 = [n \in DOMAIN h |->
                        IF n = m THEN [kind |-> h[m].kind, items |-> Shaped(h[m].items, w)]
                        ELSE w[n]]
  OBVIOUS
<1>3. \A n \in DOMAIN h : \A i \in DOMAIN h[n].items : h[n].items[i].item \in DOMAIN nodes
  <2>1. ASSUME NEW n \in DOMAIN h, NEW i \in DOMAIN h[n].items
        PROVE  h[n].items[i].item \in DOMAIN nodes
    <3>1. n # m
      BY <1>1
    <3>2. n \in DOMAIN nodes /\ h[n] = nodes[n]
      BY <1>1, <3>1
    <3> QED BY <3>2, Parts
  <2> QED BY <2>1
<1>4. OnlyShape(h, w2) /\ \A n \in DOMAIN nodes : w2[n] = w[n]
  <2>1. \A n \in DOMAIN nodes : h[n].kind = nodes[n].kind /\ h[n].items = nodes[n].items
    BY <1>1
  <2>2. PICK o : o = nodes
    OBVIOUS
  <2>3. OnlyShape(o, w) /\ m \notin DOMAIN o /\ DOMAIN h = DOMAIN o \cup {m}
    BY <1>1, <2>2
  <2>4. OnlyShape(h, w2) /\ \A n \in DOMAIN o : w2[n] = w[n]
    BY <1>2, <1>3, <2>1, <2>2, <2>3, ShapeGrown
  <2> QED BY <2>2, <2>4
<1>5. w2[m] = [kind |-> x.kind, items |-> <<>>]
  BY <1>1, <1>2, NoItems
<1> QED BY <1>0, <1>4, <1>5, SameShapesIf

(* An element that is a value.                                             *)
LEMMA ScalarTrees ==
  ASSUME Good, frames # <<>>, NEW t \in Scalar, nodes' = Append(nodes, Leaf(t)),
         frames' = Append(Front(frames), [Top EXCEPT !.elem = New, !.at = "sep"]),
         UNCHANGED <<root, multi>>,
         NEW w, NEW g, NEW v, NEW p, Trees(w, g, v, p)
  PROVE  \E w2 : Trees(w2, g, ScalarReading(t), p)'
<1>0. Typed /\ Empty(Leaf(t)) /\ Leaf(t).kind = t
  BY NodeEmpty DEF Good, Typed, Leaf, Node
<1>1. PICK w2 : /\ OnlyShape(nodes', w2) /\ SameShapes(w, w2)
                /\ w2[New] = [kind |-> t, items |-> <<>>]
  <2>1. OnlyShape(nodes, w)
    BY DEF Trees
  <2>2. \E w2 : /\ OnlyShape(nodes', w2) /\ SameShapes(w, w2)
                /\ w2[New] = [kind |-> Leaf(t).kind, items |-> <<>>]
    BY <1>0, <2>1, GrownShapes
  <2> QED BY <1>0, <2>2
<1>2. \A n \in DOMAIN nodes : nodes'[n] = nodes[n]
  BY <1>0, Grown
<1>3. PICK f : f = [Top EXCEPT !.elem = New, !.at = "sep"]
  OBVIOUS
<1>4. PICK m : m = Len(frames)
  OBVIOUS
<1>5. /\ Len(frames') = m /\ DOMAIN frames' = DOMAIN frames /\ Top = frames[m] /\ frames'[m] = f
      /\ \A k \in DOMAIN frames : k # m => frames'[k] = frames[k]
      /\ m \in DOMAIN frames
  BY <1>0, <1>3, <1>4, TopReplaced, TopThere
<1>6. f.elem = New /\ f.node = Top.node /\ f.items = Top.items /\ f.kind = Top.kind
  <2>1. Top \in Frames
    BY <1>0, TopThere
  <2> QED BY <1>3, <2>1 DEF Frames
<1>7. \A k \in DOMAIN frames :
        /\ frames'[k].node = frames[k].node /\ frames'[k].kind = frames[k].kind
        /\ frames'[k].items = frames[k].items
  BY <1>5, <1>6
<1>8. ASSUME NEW k \in DOMAIN frames'
      PROVE  /\ nodes'[frames'[k].node].kind = frames'[k].kind
             /\ g[k].list.items = Shaped(frames'[k].items, w2)
  <2>1. k \in DOMAIN frames /\ frames[k].node \in DOMAIN nodes
    BY <1>0, <1>5, Parts
  <2>2. nodes[frames[k].node].kind = frames[k].kind
        /\ g[k].list.items = Shaped(frames[k].items, w)
    BY <2>1 DEF Trees
  <2>3. Shaped(frames[k].items, w2) = Shaped(frames[k].items, w)
    BY <1>1, <2>1 DEF SameShapes
  <2> QED BY <1>2, <1>7, <2>1, <2>2, <2>3
<1>9. TopItems(nodes', root', multi', w2) = TopItems(nodes, root, multi, w)
  <2>1. root # NULL => /\ w2[root] = w[root] /\ nodes'[root].items = nodes[root].items
                       /\ Shaped(nodes[root].items, w2) = Shaped(nodes[root].items, w)
    BY <1>0, <1>1, <1>2 DEF Typed, SameShapes
  <2> QED BY <2>1 DEF TopItems
<1>10. Top' = f /\ ScalarReading(t).tree = w2[f.elem]
  BY <1>1, <1>5, <1>6, TopAfter DEF ScalarReading
<1> QED BY <1>1, <1>8, <1>9, <1>10 DEF Trees

(* A container begins, in the nodes there are.                             *)
LEMMA PushTrees ==
  ASSUME Good, NEW t \in Opening, nodes' = Append(nodes, Node(t)),
         frames' = Append(frames, Opened(t, New)),
         root' = root, multi' = multi, NEW m, m = Len(frames), NEW c,
         NEW w, NEW g, NEW g2, NEW v, NEW p, Trees(w, g, v, p), NewFrame(frames, g, g2, m, c)
  PROVE  \E w2 : Trees(w2, g2, v, p)'
<1>0. Typed /\ Empty(Node(t)) /\ Node(t).kind = t
  BY NodeEmpty DEF Good, Typed, Node
<1>1. PICK w2 : /\ OnlyShape(nodes', w2) /\ SameShapes(w, w2)
  <2>1. OnlyShape(nodes, w)
    BY DEF Trees
  <2> QED BY <1>0, <2>1, GrownShapes
<1>2. /\ \A n \in DOMAIN nodes : nodes'[n] = nodes[n]
      /\ nodes'[New].kind = t
  BY <1>0, Grown
<1>5. /\ Len(frames') = m + 1 /\ DOMAIN frames' = DOMAIN frames \cup {m + 1}
      /\ frames'[m + 1] = Opened(t, New) /\ \A k \in DOMAIN frames : frames'[k] = frames[k]
      /\ DOMAIN frames = 1 .. m /\ m \in Nat
  <2>1. PICK s \in Seq(Frames) : s = frames
    BY <1>0 DEF Typed
  <2>2. PICK x : x = Opened(t, New)
    OBVIOUS
  <2>3. /\ Len(Append(s, x)) = Len(s) + 1 /\ DOMAIN Append(s, x) = 1 .. (Len(s) + 1)
        /\ DOMAIN s = 1 .. Len(s) /\ Len(s) \in Nat
        /\ Append(s, x)[Len(s) + 1] = x
        /\ \A i \in DOMAIN s : Append(s, x)[i] = s[i]
    BY Appended
  <2> QED BY <2>1, <2>2, <2>3
<1>6. /\ frames'[m + 1].node = New /\ frames'[m + 1].kind = t /\ frames'[m + 1].items = <<>>
      /\ frames'[m + 1].elem = NULL
  BY <1>5 DEF Opened
<1>7. g2[m + 1].list.items = <<>> /\ \A k \in DOMAIN frames : g2[k] = g[k]
  BY DEF NewFrame, T!Nothing
<1>8. ASSUME NEW k \in DOMAIN frames'
      PROVE  /\ nodes'[frames'[k].node].kind = frames'[k].kind
             /\ g2[k].list.items = Shaped(frames'[k].items, w2)
  <2>1. CASE k = m + 1
    BY <1>2, <1>6, <1>7, <2>1, NoItems
  <2>2. CASE k # m + 1
    <3>1. k \in DOMAIN frames /\ frames[k].node \in DOMAIN nodes
      BY <1>0, <1>5, <2>2, Parts
    <3>2. nodes[frames[k].node].kind = frames[k].kind
          /\ g[k].list.items = Shaped(frames[k].items, w)
      BY <3>1 DEF Trees
    <3>3. Shaped(frames[k].items, w2) = Shaped(frames[k].items, w)
      BY <1>1, <3>1 DEF SameShapes
    <3> QED BY <1>2, <1>5, <1>7, <3>1, <3>2, <3>3
  <2> QED BY <2>1, <2>2
<1>9. TopItems(nodes', root', multi', w2) = TopItems(nodes, root, multi, w)
  <2>1. root # NULL => /\ w2[root] = w[root] /\ nodes'[root].items = nodes[root].items
                       /\ Shaped(nodes[root].items, w2) = Shaped(nodes[root].items, w)
    BY <1>0, <1>1, <1>2 DEF Typed, SameShapes
  <2> QED BY <2>1 DEF TopItems
<1>10. Top'.elem = NULL
  BY <1>5, <1>6, TopAfter
<1> QED BY <1>1, <1>8, <1>9, <1>10 DEF Trees

(* ... and in those with the new root of several values.                   *)
LEMMA PushMoreTrees ==
  ASSUME Good, root # NULL, ~ multi, frames = <<>>, NEW t \in Opening,
         nodes' = Append(MultiRoot, Node(t)),
         frames' = Append(frames, Opened(t, Len(MultiRoot) + 1)),
         root' = New, multi' = TRUE, NEW c,
         NEW w, NEW g, NEW g2, NEW v, NEW p, Trees(w, g, v, p), NewFrame(frames, g, g2, 0, c)
  PROVE  \E w2 : Trees(w2, g2, v, p)'
<1>0. Typed /\ NULL \notin Nat
  BY ParserAssumption DEF Good
<1>1. /\ DOMAIN nodes' = DOMAIN nodes \cup {New, New + 1} /\ Len(MultiRoot) + 1 = New + 1
      /\ New \notin DOMAIN nodes /\ New + 1 \notin DOMAIN nodes /\ New \in Nat
      /\ \A n \in DOMAIN nodes : nodes'[n].items = nodes[n].items /\ nodes'[n].kind = nodes[n].kind
      /\ nodes'[New].items = <<Slot(NULL, root)>>
      /\ nodes'[New + 1].items = <<>> /\ nodes'[New + 1].kind = t
      /\ root \in DOMAIN nodes
  BY <1>0, MultiRootNodes DEF Typed
<1>2. PICK o, h, a, b : o = nodes /\ h = nodes' /\ a = New /\ b = New + 1
  OBVIOUS
<1>3. PICK h1 : h1 = [n \in DOMAIN o \cup {a} |-> h[n]]
  OBVIOUS
<1>4. /\ a \notin DOMAIN o /\ b \notin DOMAIN o /\ a # b /\ a # NULL
      /\ DOMAIN h = DOMAIN o \cup {a, b}
      /\ DOMAIN h1 = DOMAIN o \cup {a} /\ DOMAIN h = DOMAIN h1 \cup {b} /\ b \notin DOMAIN h1
      /\ \A n \in DOMAIN h1 : h1[n] = h[n]
      /\ \A n \in DOMAIN o : h[n].items = o[n].items /\ h[n].kind = o[n].kind
      /\ h[a].items = <<Slot(NULL, root)>> /\ h[b].items = <<>> /\ h[b].kind = t
      /\ root \in DOMAIN o
  BY <1>0, <1>1, <1>2, <1>3
<1>5. \A n \in DOMAIN o : \A i \in DOMAIN o[n].items : o[n].items[i].item \in DOMAIN o
  BY <1>0, <1>2, Parts
<1>6. \A i \in DOMAIN <<Slot(NULL, root)>> : <<Slot(NULL, root)>>[i].item = root
  BY DEF Slot
<1>7. \A n \in DOMAIN h1 : \A i \in DOMAIN h1[n].items : h1[n].items[i].item \in DOMAIN o
  BY <1>4, <1>5, <1>6
<1>8. PICK w1 : w1 = [n \in DOMAIN h1 |->
                        IF n = a THEN [kind |-> h1[a].kind, items |-> Shaped(h1[a].items, w)] ELSE w[n]]
  OBVIOUS
<1>9. OnlyShape(h1, w1) /\ \A n \in DOMAIN o : w1[n] = w[n]
  <2>1. OnlyShape(o, w)
    BY <1>2 DEF Trees
  <2>2. \A n \in DOMAIN o : h1[n].kind = o[n].kind /\ h1[n].items = o[n].items
    BY <1>4
  <2> QED BY <1>4, <1>7, <1>8, <2>1, <2>2, ShapeGrown
<1>10. \A n \in DOMAIN h : \A i \in DOMAIN h[n].items : h[n].items[i].item \in DOMAIN h1
  <2>1. \A i \in DOMAIN h[b].items : FALSE
    BY <1>4
  <2>2. \A n \in DOMAIN h : n \in DOMAIN h1 \/ n = b
    BY <1>4
  <2> QED BY <1>4, <1>7, <2>1, <2>2
<1>11. PICK w2 : w2 = [n \in DOMAIN h |->
                        IF n = b THEN [kind |-> h[b].kind, items |-> Shaped(h[b].items, w1)] ELSE w1[n]]
  OBVIOUS
<1>12. OnlyShape(h, w2) /\ \A n \in DOMAIN h1 : w2[n] = w1[n]
  <2>1. \A n \in DOMAIN h1 : h[n].kind = h1[n].kind /\ h[n].items = h1[n].items
    BY <1>4
  <2>2. b \notin DOMAIN h1 /\ DOMAIN h = DOMAIN h1 \cup {b}
    BY <1>4
  <2>3. OnlyShape(h1, w1)
    BY <1>9
  <2> QED BY <1>10, <1>11, <2>1, <2>2, <2>3, ShapeGrown
<1>13. w2[root] = w[root]
  BY <1>4, <1>9, <1>12
<1>14. TopItems(nodes', root', multi', w2) = TopItems(nodes, root, multi, w)
  <2>1. Shaped(<<Slot(NULL, root)>>, w2) = <<T!Item(NULL, w[root])>>
    BY <1>13 DEF Shaped, Slot, T!Item
  <2> QED BY <1>2, <1>4, <2>1 DEF TopItems
<1>15. /\ Len(frames') = 1 /\ DOMAIN frames' = {1} /\ frames'[1] = Opened(t, b)
  BY <1>1, <1>2
<1>16. /\ frames'[1].node = b /\ frames'[1].kind = t /\ frames'[1].items = <<>>
       /\ frames'[1].elem = NULL
  BY <1>15 DEF Opened
<1>17. g2[1].list.items = <<>>
  <2>1. g2[0 + 1].list = T!Nothing /\ 0 + 1 = 1
    BY DEF NewFrame
  <2> QED BY <2>1 DEF T!Nothing
<1>18. \A k \in DOMAIN frames' :
          /\ nodes'[frames'[k].node].kind = frames'[k].kind
          /\ g2[k].list.items = Shaped(frames'[k].items, w2)
  BY <1>2, <1>4, <1>15, <1>16, <1>17, NoItems
<1>19. Top'.elem = NULL
  BY <1>15, <1>16, TopAfter
<1>20. p.list.items = TopItems(nodes, root, multi, w)
  BY DEF Trees
<1> QED BY <1>2, <1>12, <1>14, <1>18, <1>19, <1>20 DEF Trees

-----------------------------------------------------------------------------
(* The node of the innermost frame gets its items: its shape changes, and  *)
(* no other, since nothing holds it.                                       *)
LEMMA FilledShapes ==
  ASSUME Good, frames # <<>>, NEW e, e = Top.node, NEW h, DOMAIN h = DOMAIN nodes,
         \A n \in DOMAIN nodes : n # e => h[n] = nodes[n],
         h[e].items = Top.items, h[e].kind = nodes[e].kind, NEW w, OnlyShape(nodes, w)
  PROVE  \E w2 : /\ OnlyShape(h, w2) /\ w2[e] = [kind |-> nodes[e].kind, items |-> Shaped(Top.items, w)]
                 /\ \A n \in DOMAIN nodes :
                      /\ n # e => w2[n] = w[n]
                      /\ Shaped(nodes[n].items, w2) = Shaped(nodes[n].items, w)
                 /\ \A k \in DOMAIN frames : Shaped(frames[k].items, w2) = Shaped(frames[k].items, w)
<1>0. Typed
  BY DEF Good
<1>1. PICK m \in DOMAIN frames : Top = frames[m]
  BY <1>0, TopThere
<1>2. e \in DOMAIN nodes /\ ~ Held(e)
  BY <1>0, <1>1, Parts DEF Good, OpenApart
<1>3. \A n \in DOMAIN nodes : \A i \in DOMAIN nodes[n].items :
        nodes[n].items[i].item # e /\ nodes[n].items[i].item \in DOMAIN nodes
  BY <1>0, <1>2, Parts DEF Held
<1>4. \A k \in DOMAIN frames : \A i \in DOMAIN frames[k].items :
        frames[k].items[i].item # e /\ frames[k].items[i].item \in DOMAIN nodes
  BY <1>0, <1>2, Parts DEF Held
<1>5. PICK w2 : w2 = [w EXCEPT ![e] = [kind |-> nodes[e].kind, items |-> Shaped(h[e].items, w)]]
  OBVIOUS
<1>6. OnlyShape(h, w2)
  <2>1. PICK o : o = nodes
    OBVIOUS
  <2>2. OnlyShape(o, w) /\ e \in DOMAIN o /\ DOMAIN h = DOMAIN o
    BY <1>2, <2>1
  <2>3. /\ \A n \in DOMAIN o : h[n].kind = o[n].kind
        /\ \A n \in DOMAIN o : n # e => h[n].items = o[n].items
    BY <2>1
  <2>4. \A n \in DOMAIN o : \A i \in DOMAIN o[n].items :
          o[n].items[i].item # e /\ o[n].items[i].item \in DOMAIN o
    BY <1>3, <2>1
  <2>5. \A i \in DOMAIN h[e].items : h[e].items[i].item # e /\ h[e].items[i].item \in DOMAIN o
    BY <1>1, <1>4, <2>1
  <2>6. OnlyShape(h, [w EXCEPT ![e] = [kind |-> o[e].kind, items |-> Shaped(h[e].items, w)]])
    BY <2>2, <2>3, <2>4, <2>5, ShapeFilled
  <2> QED BY <1>5, <2>1, <2>6
<1>7. DOMAIN w = DOMAIN nodes
  BY ShapeThere
<1>8. /\ w2[e] = [kind |-> nodes[e].kind, items |-> Shaped(Top.items, w)]
      /\ \A n \in DOMAIN nodes : n # e => w2[n] = w[n]
  BY <1>2, <1>5, <1>7
<1>9. ASSUME NEW n \in DOMAIN nodes
      PROVE  Shaped(nodes[n].items, w2) = Shaped(nodes[n].items, w)
  BY <1>3, <1>8, SameShaped
<1>10. ASSUME NEW k \in DOMAIN frames
       PROVE  Shaped(frames[k].items, w2) = Shaped(frames[k].items, w)
  BY <1>4, <1>8, SameShaped
<1> QED BY <1>6, <1>8, <1>9, <1>10

(* The shape of a frame's container is what the frame has read.            *)
LEMMA TopTree ==
  ASSUME Typed, frames # <<>>, NEW w, NEW g, NEW v, NEW p, Trees(w, g, v, p), NEW m,
         m = Len(frames)
  PROVE  ContainerReading(Top.kind, g[m].list).tree
           = [kind |-> nodes[Top.node].kind, items |-> Shaped(Top.items, w)]
<1>1. m \in DOMAIN frames /\ Top = frames[m]
  BY TopThere
<1>2. nodes[Top.node].kind = Top.kind /\ g[m].list.items = Shaped(Top.items, w)
  BY <1>1 DEF Trees
<1> QED BY <1>2 DEF ContainerReading

(* A container ends, and is an element of the one around it.               *)
LEMMA PopTrees ==
  ASSUME Good, frames # <<>>, Front(frames) # <<>>,
         nodes' = Closed(nodes, Top, Last(Front(frames)).node),
         frames' = Append(Front(Front(frames)),
                          [Last(Front(frames)) EXCEPT !.elem = Top.node, !.at = "sep"]),
         UNCHANGED <<root, multi>>, NEW m, m = Len(frames),
         NEW w, NEW g, NEW v, NEW p, Trees(w, g, v, p),
         NEW v2, v2 = ContainerReading(Top.kind, g[m].list)
  PROVE  \E w2 : Trees(w2, g, v2, p)'
<1>0. Typed /\ NULL \notin Nat
  BY ParserAssumption DEF Good
<1>1. /\ Top = frames[m] /\ m \in DOMAIN frames /\ m \in Nat
      /\ m - 1 \in DOMAIN frames /\ Last(Front(frames)) = frames[m - 1]
      /\ Len(frames') = m - 1 /\ m - 1 \in DOMAIN frames'
      /\ frames'[m - 1].elem = Top.node
      /\ \A k \in DOMAIN frames' :
           /\ k \in DOMAIN frames /\ k # m /\ frames'[k].kind = frames[k].kind
           /\ frames'[k].node = frames[k].node /\ frames'[k].items = frames[k].items
  <2>1. /\ Top = frames[m] /\ m \in DOMAIN frames
        /\ m - 1 \in DOMAIN frames /\ Last(Front(frames)) = frames[m - 1]
        /\ Len(frames') = m - 1 /\ m - 1 \in DOMAIN frames'
        /\ frames'[m - 1].elem = Top.node
    BY <1>0, Popped, Zenon
  <2>2. \A k \in DOMAIN frames' :
           /\ k \in DOMAIN frames /\ k # m /\ frames'[k].kind = frames[k].kind
           /\ frames'[k].node = frames[k].node /\ frames'[k].items = frames[k].items
    BY <1>0, Popped, Zenon
  <2>3. m \in Nat
    BY <1>0, Parts
  <2> QED BY <2>1, <2>2, <2>3
<1>2. PICK e, f : e = Top.node /\ f = frames[m - 1].node
  OBVIOUS
<1>3. /\ e \in DOMAIN nodes /\ f \in DOMAIN nodes /\ f # e /\ ~ nodes[f].sealed /\ ~ Held(e)
      /\ e # root
  <2>1. m - 1 # m
    BY <1>1
  <2> QED BY <1>0, <1>1, <1>2, <2>1, Parts DEF Good, OpenApart
<1>4. /\ DOMAIN nodes' = DOMAIN nodes
      /\ \A n \in DOMAIN nodes : n # e => nodes'[n] = nodes[n]
      /\ nodes'[e].items = Top.items /\ nodes'[e].kind = nodes[e].kind
  <2>1. nodes' = Closed(nodes, Top, f)
    BY <1>1, <1>2
  <2> QED BY <1>2, <1>3, <2>1, ClosedNodes
<1>5. PICK w2 : /\ OnlyShape(nodes', w2)
                /\ w2[e] = [kind |-> nodes[e].kind, items |-> Shaped(Top.items, w)]
                /\ \A n \in DOMAIN nodes :
                      /\ n # e => w2[n] = w[n]
                      /\ Shaped(nodes[n].items, w2) = Shaped(nodes[n].items, w)
                /\ \A k \in DOMAIN frames : Shaped(frames[k].items, w2) = Shaped(frames[k].items, w)
  <2>1. OnlyShape(nodes, w)
    BY DEF Trees
  <2>2. PICK h : h = nodes'
    OBVIOUS
  <2> QED BY <1>2, <1>4, <2>1, <2>2, FilledShapes
<1>6. Top' = frames'[m - 1] /\ Top'.elem = e
  BY <1>1, <1>2, TopAfter
<1>7. v2.tree = w2[e]
  BY <1>0, <1>2, <1>5, TopTree
<1>8. ASSUME NEW k \in DOMAIN frames'
      PROVE  /\ nodes'[frames'[k].node].kind = frames'[k].kind
             /\ g[k].list.items = Shaped(frames'[k].items, w2)
  <2>1. k \in DOMAIN frames /\ frames[k].node \in DOMAIN nodes
    BY <1>0, <1>1, Parts
  <2>2. nodes[frames[k].node].kind = frames[k].kind
        /\ g[k].list.items = Shaped(frames[k].items, w)
    BY <2>1 DEF Trees
  <2>3. Shaped(frames[k].items, w2) = Shaped(frames[k].items, w)
    BY <1>5, <2>1
  <2> QED BY <1>1, <1>4, <2>1, <2>2, <2>3
<1>9. TopItems(nodes', root', multi', w2) = TopItems(nodes, root, multi, w)
  <2>1. root # NULL => /\ w2[root] = w[root] /\ nodes'[root].items = nodes[root].items
                       /\ Shaped(nodes[root].items, w2) = Shaped(nodes[root].items, w)
    BY <1>0, <1>3, <1>4, <1>5 DEF Typed
  <2> QED BY <2>1 DEF TopItems
<1>10. p.list.items = TopItems(nodes, root, multi, w)
  BY DEF Trees
<1> QED BY <1>5, <1>6, <1>7, <1>8, <1>9, <1>10 DEF Trees

(* The container is the only value of the text.                            *)
LEMMA RootTrees ==
  ASSUME Good, frames # <<>>, ~ multi, root = NULL, nodes' = Closed(nodes, Top, NULL),
         root' = Top.node,
         frames' = <<>>, multi' = multi, NEW m, m = Len(frames),
         NEW w, NEW g, NEW v, NEW p, Trees(w, g, v, p),
         NEW v2, v2 = ContainerReading(Top.kind, g[m].list),
         NEW p2, p2.list = T!Longer(p.list, NULL, v2, <<>>)
  PROVE  \E w2 : Trees(w2, g, v2, p2)'
<1>0. Typed /\ NULL \notin Nat
  BY ParserAssumption DEF Good
<1>1. PICK e : e = Top.node
  OBVIOUS
<1>2. /\ DOMAIN nodes' = DOMAIN nodes /\ e \in DOMAIN nodes
      /\ \A n \in DOMAIN nodes : n # e => nodes'[n] = nodes[n]
      /\ nodes'[e].items = Top.items /\ nodes'[e].kind = nodes[e].kind
  BY <1>1, ClosedNodes
<1>3. PICK w2 : OnlyShape(nodes', w2) /\ w2[e] = [kind |-> nodes[e].kind, items |-> Shaped(Top.items, w)]
  <2>1. OnlyShape(nodes, w)
    BY DEF Trees
  <2>2. PICK h : h = nodes'
    OBVIOUS
  <2>3. PICK w2 : /\ OnlyShape(h, w2)
                 /\ w2[e] = [kind |-> nodes[e].kind, items |-> Shaped(Top.items, w)]
                 /\ \A n \in DOMAIN nodes :
                      /\ n # e => w2[n] = w[n]
                      /\ Shaped(nodes[n].items, w2) = Shaped(nodes[n].items, w)
                 /\ \A k \in DOMAIN frames : Shaped(frames[k].items, w2) = Shaped(frames[k].items, w)
    BY <1>1, <1>2, <2>1, <2>2, FilledShapes
  <2> QED BY <2>2, <2>3
<1>4. v2.tree = w2[e]
  BY <1>0, <1>1, <1>3, TopTree
<1>5. p.list.items = <<>>
  BY DEF Trees, TopItems
<1>6. p2.list.items = T!Put(p.list.items, T!Item(NULL, v2.tree))
  <2>1. T!Longer(p.list, NULL, v2, <<>>).items = T!Put(p.list.items, T!Item(NULL, v2.tree))
    BY DEF T!Longer
  <2> QED BY <2>1
<1>7. p2.list.items = <<T!Item(NULL, w2[e])>>
  BY <1>4, <1>5, <1>6, Unnamed
<1>8. root' # NULL
  <2>1. e \in Nat
    BY <1>0, <1>2, Parts
  <2> QED BY <1>0, <1>1, <2>1
<1>9. TopItems(nodes', root', multi', w2) = <<T!Item(NULL, w2[e])>>
  BY <1>1, <1>8 DEF TopItems
<1>10. DOMAIN frames' = {}
  OBVIOUS
<1> QED BY <1>3, <1>7, <1>9, <1>10 DEF Trees

(* ... or one more of the several.                                         *)
LEMMA MoreTrees ==
  ASSUME Good, frames # <<>>, multi, root # NULL,
         nodes' = [Closed(nodes, Top, NULL) EXCEPT ![root].items = Append(@, Slot(NULL, Top.node))],
         frames' = <<>>, UNCHANGED <<root, multi>>, NEW m, m = Len(frames),
         NEW w, NEW g, NEW v, NEW p, Trees(w, g, v, p),
         NEW v2, v2 = ContainerReading(Top.kind, g[m].list),
         NEW p2, p2.list = T!Longer(p.list, NULL, v2, <<>>)
  PROVE  /\ \E w2 : Trees(w2, g, v2, p2)'
         /\ Len(nodes'[root].items) >= 2
<1>0. Typed /\ NULL \notin Nat
  BY ParserAssumption DEF Good
<1>1. PICK e, h : e = Top.node /\ h = Closed(nodes, Top, NULL)
  OBVIOUS
<1>2. /\ h \in Seq(Nodes) /\ DOMAIN h = DOMAIN nodes /\ e \in DOMAIN nodes
      /\ \A n \in DOMAIN nodes : n # e => h[n] = nodes[n]
      /\ h[e].items = Top.items /\ h[e].kind = nodes[e].kind
  BY <1>1, ClosedNodes
<1>3. PICK w1 : /\ OnlyShape(h, w1)
                /\ w1[e] = [kind |-> nodes[e].kind, items |-> Shaped(Top.items, w)]
                /\ \A n \in DOMAIN nodes :
                      /\ n # e => w1[n] = w[n]
                      /\ Shaped(nodes[n].items, w1) = Shaped(nodes[n].items, w)
  <2>1. OnlyShape(nodes, w)
    BY DEF Trees
  <2>2. /\ DOMAIN h = DOMAIN nodes /\ \A n \in DOMAIN nodes : n # e => h[n] = nodes[n]
        /\ h[e].items = Top.items /\ h[e].kind = nodes[e].kind
    BY <1>2
  <2>3. PICK w2 : /\ OnlyShape(h, w2)
                 /\ w2[e] = [kind |-> nodes[e].kind, items |-> Shaped(Top.items, w)]
                 /\ \A n \in DOMAIN nodes :
                      /\ n # e => w2[n] = w[n]
                      /\ Shaped(nodes[n].items, w2) = Shaped(nodes[n].items, w)
                 /\ \A k \in DOMAIN frames : Shaped(frames[k].items, w2) = Shaped(frames[k].items, w)
    BY <1>1, <2>1, <2>2, FilledShapes
  <2> QED BY <2>3
<1>4. PICK r \in DOMAIN nodes : r = root
  BY <1>0 DEF Typed
<1>5. PICK d \in DOMAIN frames : Top = frames[d]
  BY <1>0, TopThere
<1>6. r # e /\ ~ Held(r) /\ ~ Held(e)
  BY <1>1, <1>4, <1>5 DEF Good, OpenApart, RootAbove
<1>7. PICK new : new = Append(nodes[r].items, Slot(NULL, e))
  OBVIOUS
<1>8. nodes[r].items \in Seq(Slots) /\ nodes[r].items # <<>> /\ h[r] = nodes[r] /\ h[r] \in Nodes
  BY <1>0, <1>2, <1>4, <1>6, Parts DEF Good, RootAbove
<1>9. /\ DOMAIN nodes' = DOMAIN nodes /\ nodes'[r].items = new /\ nodes'[r].kind = h[r].kind
      /\ \A n \in DOMAIN nodes : n # r => nodes'[n] = h[n]
  <2>1. nodes' = [h EXCEPT ![r].items = new]
    BY <1>1, <1>4, <1>7, <1>8
  <2>2. nodes' = [h EXCEPT ![r] = [h[r] EXCEPT !.items = new]]
    BY <2>1
  <2>3. [h[r] EXCEPT !.items = new].items = new /\ [h[r] EXCEPT !.items = new].kind = h[r].kind
    BY <1>8 DEF Nodes
  <2> QED BY <1>2, <2>2, <2>3
<1>10. /\ new = With(nodes[r].items, NULL, e)
       /\ Len(new) >= 2
       /\ \A i \in DOMAIN new : new[i].item # r /\ new[i].item \in DOMAIN nodes
  <2>1. new = With(nodes[r].items, NULL, e)
    BY <1>7, Unnamed
  <2>2. \E s \in Seq(Slots) : \E x : s = nodes[r].items /\ x = Slot(NULL, e)
    BY <1>8
  <2>2a. PICK s \in Seq(Slots) : \E x : s = nodes[r].items /\ x = Slot(NULL, e)
    BY <2>2
  <2>2b. PICK x : s = nodes[r].items /\ x = Slot(NULL, e)
    BY <2>2a
  <2>3. /\ DOMAIN new = 1 .. Len(s) + 1 /\ Len(new) = Len(s) + 1 /\ Len(s) \in Nat
        /\ DOMAIN s = 1 .. Len(s)
        /\ new[Len(s) + 1] = x /\ \A i \in DOMAIN s : new[i] = s[i]
    BY <1>7, <2>2b, Appended
  <2>4. Len(s) # 0
    BY <1>8, <2>2b
  <2>5. x.item = e
    BY <2>2b DEF Slot
  <2>6. \A i \in DOMAIN s : s[i].item # r /\ s[i].item \in DOMAIN nodes
    BY <1>0, <1>6, <2>2b, Parts DEF Held
  <2>7. Len(new) >= 2
    BY <2>3, <2>4
  <2>8. ASSUME NEW i \in DOMAIN new PROVE new[i].item # r /\ new[i].item \in DOMAIN nodes
    <3>1. CASE i = Len(s) + 1
      BY <1>2, <1>6, <2>3, <2>5, <3>1
    <3>2. CASE i # Len(s) + 1
      <4>1. i \in DOMAIN s
        BY <2>3, <3>2
      <4> QED BY <2>3, <2>6, <4>1
    <3> QED BY <3>1, <3>2
  <2> QED BY <2>1, <2>7, <2>8
<1>11. PICK w2 : w2 = [w1 EXCEPT ![r] = [kind |-> h[r].kind, items |-> Shaped(new, w1)]]
  OBVIOUS
<1>12. OnlyShape(nodes', w2)
  <2>1. PICK h2 : h2 = nodes'
    OBVIOUS
  <2>2. DOMAIN h2 = DOMAIN h /\ r \in DOMAIN h /\ h2[r].items = new
    BY <1>2, <1>9, <2>1
  <2>3. /\ \A n \in DOMAIN h : h2[n].kind = h[n].kind
        /\ \A n \in DOMAIN h : n # r => h2[n].items = h[n].items
    BY <1>2, <1>9, <2>1
  <2>4. ASSUME NEW n \in DOMAIN h, NEW i \in DOMAIN h[n].items
        PROVE  h[n].items[i].item # r /\ h[n].items[i].item \in DOMAIN h
    <3>1. CASE n = e
      BY <1>0, <1>2, <1>5, <1>6, <2>4, <3>1, Parts DEF Held
    <3>2. CASE n # e
      BY <1>0, <1>2, <1>6, <2>4, <3>2, Parts DEF Held
    <3> QED BY <3>1, <3>2
  <2>5. \A i \in DOMAIN h2[r].items : h2[r].items[i].item # r /\ h2[r].items[i].item \in DOMAIN h
    BY <1>2, <1>10, <2>2
  <2>6. OnlyShape(h2, [w1 EXCEPT ![r] = [kind |-> h[r].kind, items |-> Shaped(h2[r].items, w1)]])
    BY <1>3, <2>2, <2>3, <2>4, <2>5, ShapeFilled
  <2> QED BY <1>11, <2>1, <2>2, <2>6
<1>13. w2[r] = [kind |-> h[r].kind, items |-> Shaped(new, w1)]
       /\ \A n \in DOMAIN nodes : n # r => w2[n] = w1[n]
  <2>1. DOMAIN w1 = DOMAIN h
    BY <1>3, ShapeThere
  <2> QED BY <1>2, <1>11, <2>1
<1>14. Shaped(new, w2) = Shaped(new, w1)
  BY <1>10, <1>13, SameShaped
<1>15. Shaped(new, w1) = T!Put(Shaped(nodes[r].items, w1), T!Item(NULL, w1[e]))
  BY <1>8, <1>10, ShapedWith
<1>16. p.list.items = Shaped(nodes[r].items, w1)
  BY <1>3, <1>4 DEF Trees, TopItems
<1>17. v2.tree = w1[e]
  BY <1>0, <1>1, <1>3, TopTree
<1>18. p2.list.items = T!Put(p.list.items, T!Item(NULL, v2.tree))
  <2>1. T!Longer(p.list, NULL, v2, <<>>).items = T!Put(p.list.items, T!Item(NULL, v2.tree))
    BY DEF T!Longer
  <2> QED BY <2>1
<1>19. TopItems(nodes', root', multi', w2) = p2.list.items
  BY <1>4, <1>9, <1>14, <1>15, <1>16, <1>17, <1>18 DEF TopItems
<1>20. DOMAIN frames' = {}
  OBVIOUS
<1>21. Trees(w2, g, v2, p2)'
  BY <1>12, <1>19, <1>20 DEF Trees
<1> QED BY <1>4, <1>9, <1>10, <1>21

(* The value of the statement is no container.                             *)
LEMMA ValueTrees ==
  ASSUME Good, frames = <<>>, frames' = <<>>, root = NULL, ~ multi, NEW t \in Scalar,
         nodes' = Append(nodes, Leaf(t)), root' = New, multi' = multi,
         NEW w, NEW g, NEW v, NEW p, Trees(w, g, v, p),
         NEW v2, v2 = ScalarReading(t), NEW p2, p2.list = T!Longer(p.list, NULL, v2, <<>>)
  PROVE  \E w2 : Trees(w2, g, v2, p2)'
<1>0. Typed /\ Empty(Leaf(t)) /\ Leaf(t).kind = t /\ NULL \notin Nat
  BY NodeEmpty, ParserAssumption DEF Good, Typed, Leaf, Node
<1>1. PICK w2 : OnlyShape(nodes', w2) /\ w2[New] = [kind |-> t, items |-> <<>>]
  <2>1. OnlyShape(nodes, w)
    BY DEF Trees
  <2>2. \E w2 : /\ OnlyShape(nodes', w2) /\ SameShapes(w, w2)
                /\ w2[New] = [kind |-> Leaf(t).kind, items |-> <<>>]
    BY <1>0, <2>1, GrownShapes
  <2> QED BY <1>0, <2>2
<1>2. New \in Nat
  BY <1>0, Grown
<1>3. p.list.items = <<>>
  BY DEF Trees, TopItems
<1>4. p2.list.items = T!Put(p.list.items, T!Item(NULL, v2.tree))
  <2>1. T!Longer(p.list, NULL, v2, <<>>).items = T!Put(p.list.items, T!Item(NULL, v2.tree))
    BY DEF T!Longer
  <2> QED BY <2>1
<1>5. v2.tree = w2[New]
  BY <1>1 DEF ScalarReading
<1>6. p2.list.items = <<T!Item(NULL, w2[New])>>
  BY <1>3, <1>4, <1>5, Unnamed
<1>7. TopItems(nodes', root', multi', w2) = <<T!Item(NULL, w2[New])>>
  BY <1>0, <1>2 DEF TopItems
<1>8. DOMAIN frames' = {}
  OBVIOUS
<1> QED BY <1>1, <1>6, <1>7, <1>8 DEF Trees

(* Nothing is in the tree.                                                 *)
LEMMA NoTrees ==
  ASSUME nodes' = <<>>, frames' = <<>>, root' = NULL, NEW g, NEW v, NEW p, p.list = T!Nothing
  PROVE  Trees(<<>>, g, v, p)'
<1>1. OnlyShape(<<>>, <<>>)
  <2>1. \A x : [n \in DOMAIN <<>> |-> ShapeIn(<<>>, n, x)] = <<>>
    OBVIOUS
  <2> QED BY <2>1 DEF OnlyShape
<1>2. DOMAIN frames' = {}
  OBVIOUS
<1>3. p.list.items = TopItems(nodes', root', multi', <<>>)
  BY DEF T!Nothing, TopItems
<1> QED BY <1>1, <1>2, <1>3 DEF Trees
-----------------------------------------------------------------------------
(* What has been read, what has been heard and the tree so far agree.      *)
Reads(w, g, v, p) ==
  /\ Reading(g, v, p) /\ (root = NULL <=> p.to = 0)
  /\ Sounds(frames, g, v, p, signals) /\ Trees(w, g, v, p)
Known == \E w, g, v, p : Reads(w, g, v, p)

(* What is known of the text after a step.                                 *)
LEMMA NowKnown ==
  ASSUME NEW w, NEW g, NEW v, NEW p, Reading(g, v, p)', (root' = NULL <=> p.to = 0),
         Sounds(frames', g, v, p, signals'), Trees(w, g, v, p)'
  PROVE  Known'
<1>1. Reads(w, g, v, p)'
  BY DEF Reads
<1> QED BY <1>1 DEF Known

(* Only the innermost frame changes.                                       *)
LEMMA TopOther ==
  ASSUME Typed, frames # <<>>, NEW f, f.kind = Top.kind, frames' = Append(Front(frames), f),
         NEW m, m = Len(frames)
  PROVE  /\ OtherTop(frames, frames', m) /\ Top = frames[m] /\ frames'[m] = f
         /\ m \in DOMAIN frames
BY TopReplaced DEF OtherTop

(* A frame begins in what has been consumed, a part behind that.           *)
LEMMA PlaceThere ==
  ASSUME NEW g, NEW v, NEW p, Reading(g, v, p), NEW k \in DOMAIN frames, Consumed \in Nat
  PROVE  g[k].from \in 1 .. Consumed /\ g[k].part \in g[k].from + 1 .. Consumed + 1
BY DEF Reading, Placed

(* The innermost frame consumes a token.                                   *)
LEMMA TurnReads ==
  ASSUME Good, Heard, Peeked, frames # <<>>, NEW t \in Token, See(t), Eat(t), t # "EOF",
         NEW f, ReadsOn(f), f.kind = Top.kind, Turn(f), strict' = strict,
         NEW w, NEW g, NEW v, NEW p, Reads(w, g, v, p), NEW m, m = Len(frames),
         \A u : ReadsTop(u, Top, g[m], v, Consumed, look) /\ u[Consumed + 1] = t
                  => ReadsTop(u, f, g[m], v, Consumed + 1, NULL)
  PROVE  Known'
<1>0. /\ Typed /\ frames' = Append(Front(frames), f) /\ UNCHANGED <<root, multi, nodes>>
      /\ signals' = signals
      /\ f.node = Top.node /\ f.items = Top.items /\ f.elem = Top.elem
  BY DEF Good, Turn, Replace, Quiet, ReadsOn
<1>1. /\ OtherTop(frames, frames', m) /\ Top = frames[m] /\ frames'[m] = f /\ m \in DOMAIN frames
  BY <1>0, TopOther
<1>2. /\ look' = NULL /\ Consumed' = Consumed + 1 /\ Consumed \in Nat
      /\ \A u : Goes(u)' => Goes(u) /\ u[Consumed + 1] = t
  BY Consumes
<1>3. Reading(g, v, p) /\ (root = NULL <=> p.to = 0) /\ Sounds(frames, g, v, p, signals)
      /\ Trees(w, g, v, p)
  BY DEF Reads
<1>4. g[m].part \in g[m].from + 1 .. Consumed' + 1
  <2>1. g[m].from \in 1 .. Consumed /\ g[m].part \in g[m].from + 1 .. Consumed + 1
    BY <1>1, <1>2, <1>3, PlaceThere
  <2> QED BY <1>2, <2>1
<1>5. Reading(g, v, p)'
  <2>1. NewPart(frames, g, g, m)
    BY DEF NewPart, SameBelow
  <2>2. \A u : Goes(u)' => /\ Goes(u)
                           /\ ReadsTop(u, Top, g[m], v, Consumed, look)
                                => ReadsTop(u, f, g[m], v, Consumed', look')
    BY <1>2
  <2>3. Consumed' \in {Consumed, Consumed + 1}
    BY <1>2
  <2> QED BY <1>0, <1>2, <1>3, <1>4, <2>1, <2>2, <2>3, TopReading
<1>6. Sounds(frames', g, v, p, signals')
  <2>1. IF frames[m].elem = frames'[m].elem THEN v = v ELSE frames[m].elem = NULL /\ v.said = <<>>
    BY <1>0, <1>1
  <2>2. Sounds(frames', g, v, p, signals)
    BY <1>1, <1>3, <2>1, TopSounds
  <2> QED BY <1>0, <2>2
<1>7. Trees(w, g, v, p)'
  BY <1>0, <1>3, TurnTrees
<1> QED BY <1>0, <1>3, <1>5, <1>6, <1>7, NowKnown

(* An element is added.                                                    *)
LEMMA AddReads ==
  ASSUME Good, Heard, Peeked, frames # <<>>, NEW t \in Token, See(t), Keep(t), Top.elem # NULL,
         NEW s, Add(s), T!Past(Top.kind) = <<s>>, strict' = strict,
         NEW w, NEW g, NEW v, NEW p, Reads(w, g, v, p),
         \/ Top.at = "sep" /\ ~ Leads(Top.kind, t)
         \/ Top.at = "comma" /\ t # T!Closing(Top.kind)
  PROVE  Known'
<1>a. PICK m : m = Len(frames)
  OBVIOUS
<1>b. PICK f : f = Holding(Top)
  OBVIOUS
<1>c. Typed /\ Top \in Frames
  BY TopThere DEF Good
<1>d. /\ f.node = Top.node /\ f.kind = Top.kind /\ f.elem = NULL /\ f.at = "next" /\ f.name = NULL
      /\ Top.kind \in T!Opening
  BY <1>b, <1>c DEF Holding, Frames, Opening, T!Opening
<1>0. /\ frames' = Append(Front(frames), f) /\ UNCHANGED <<root, multi>>
      /\ signals' = Append(signals, s)
      /\ nodes' = [SetParent(nodes, Top.elem, Top.node) EXCEPT ![Top.elem].sealed = @ \/ immutable]
  BY <1>b DEF Add, Replace, Emit
<1>1. /\ OtherTop(frames, frames', m) /\ Top = frames[m] /\ frames'[m] = f /\ m \in DOMAIN frames
  BY <1>0, <1>a, <1>c, <1>d, TopOther
<1>2. /\ look' = t /\ Consumed' = Consumed /\ Consumed \in Nat /\ t # NULL
      /\ \A u : Goes(u)' => Goes(u) /\ Len(u) \in Nat /\ Consumed <= Len(u)
  BY Peeks, TokenThere
<1>3. Reading(g, v, p) /\ (root = NULL <=> p.to = 0) /\ Sounds(frames, g, v, p, signals)
      /\ Trees(w, g, v, p)
  BY DEF Reads
<1>4. g[m].from \in 1 .. Consumed /\ g[m].part \in g[m].from + 1 .. Consumed + 1
  BY <1>1, <1>2, <1>3, PlaceThere
<1>5. PICK h : h = [from |-> g[m].from, heard |-> g[m].heard, part |-> Consumed + 1,
                    list |-> T!Longer(g[m].list, Top.name, v, T!Past(Top.kind))]
  OBVIOUS
<1>6. PICK g2 : g2 = [k \in DOMAIN frames |-> IF k = m THEN h ELSE g[k]]
  OBVIOUS
<1>7. /\ h.from = g[m].from /\ h.heard = g[m].heard /\ h.part = Consumed + 1
      /\ h.list = T!Longer(g[m].list, Top.name, v, T!Past(Top.kind))
      /\ g2[m] = h /\ SameBelow(frames, g, g2, m)
  BY <1>1, <1>5, <1>6 DEF SameBelow
<1>8. Reading(g2, v, p)'
  <2>1. NewPart(frames, g, g2, m)
    BY <1>7 DEF NewPart
  <2>2. g2[m].part \in g2[m].from + 1 .. Consumed' + 1
    BY <1>2, <1>4, <1>7
  <2>3. ASSUME NEW u, Goes(u)', ReadsTop(u, Top, g[m], v, Consumed, look)
        PROVE  ReadsTop(u, f, h, v, Consumed, t)
    <3>1. PICK n \in Nat : n = Len(u) /\ Consumed <= n
      BY <1>2, <2>3
    <3>2. Consumed \in 0 .. n /\ Consumed \in 1 .. n /\ g[m].from \in 1 .. n
          /\ g[m].part \in g[m].from + 1 .. n + 1
      BY <1>2, <1>4, <3>1
    <3>3. CASE Top.at = "sep" /\ ~ Leads(Top.kind, t)
      BY <1>2, <1>d, <1>7, <2>3, <3>1, <3>2, <3>3, EndTurn
    <3>4. CASE Top.at = "comma" /\ t # T!Closing(Top.kind)
      BY <1>2, <1>d, <1>7, <2>3, <3>1, <3>2, <3>4, MoreTurn
    <3> QED BY <3>3, <3>4
  <2>4. \A u : Goes(u)' => /\ Goes(u)
                           /\ ReadsTop(u, Top, g[m], v, Consumed, look)
                                => ReadsTop(u, f, g2[m], v, Consumed', look')
    BY <1>2, <1>7, <2>3
  <2>5. Consumed' \in {Consumed, Consumed + 1}
    BY <1>2
  <2> QED BY <1>0, <1>a, <1>c, <1>d, <1>2, <1>3, <2>1, <2>2, <2>4, <2>5, TopReading
<1>9. Sounds(frames', g2, v, p, signals')
  <2>1. frames[m].elem # NULL /\ frames'[m].elem = NULL /\ g2[m].heard = g[m].heard
    BY <1>1, <1>d, <1>7
  <2>2. /\ g2[m].list = T!Longer(g[m].list, Top.name, v, T!Past(frames[m].kind))
        /\ T!Past(frames[m].kind) = <<s>>
    BY <1>1, <1>7
  <2>3. Sounds(frames', g2, v, p, Append(signals, s))
    BY <1>1, <1>3, <1>7, <2>1, <2>2, AddSounds
  <2> QED BY <1>0, <2>3
<1>10. Trees(w, g2, v, p)'
  <2>1. g2[m].list = T!Longer(g[m].list, Top.name, v, T!Past(Top.kind))
    BY <1>7
  <2> QED BY <1>0, <1>a, <1>b, <1>3, <1>7, <2>1, AddTrees
<1> QED BY <1>0, <1>3, <1>8, <1>9, <1>10, NowKnown

(* An element may begin with t.                                            *)
IsList(k) == k = "["
Expects(f, t) ==
  \/ f.at = "value"
  \/ f.at = "next" /\ IsList(f.kind) /\ t # T!Closing(f.kind)

(* ... which is where its value is awaited.                                *)
LEMMA ExpectsAwaits ==
  ASSUME NEW u, NEW f, NEW h, NEW v, NEW c, NEW l, NEW t, Expects(f, t),
         ReadsTop(u, f, h, v, c, l),
         l = NULL \/ l = t
  PROVE  Awaits(u, f, h, c + 1)
<1>1. CASE f.at = "value"
  BY <1>1 DEF ReadsTop
<1>2. CASE f.at = "next" /\ IsList(f.kind) /\ t # T!Closing(f.kind)
  <2>1. Fresh(u, f, h, c, l) \/ Ended(u, f, h, c, l)
    BY <1>2, Zenon DEF ReadsTop
  <2>2. ~ Ended(u, f, h, c, l)
    BY <1>2, Zenon DEF Ended, Leads, IsList
  <2> QED BY <1>2, <2>1, <2>2, FreshAwaits, Zenon DEF IsList
<1> QED BY <1>1, <1>2 DEF Expects

(* An element that is a value.                                             *)
LEMMA ScalarReads ==
  ASSUME Good, Heard, Peeked, frames # <<>>, NEW t \in Scalar, t \in Token, t # "EOF", See(t),
         Eat(t),
         Top.elem = NULL, Expects(Top, t), Quiet, nodes' = Append(nodes, Leaf(t)),
         frames' = Append(Front(frames), [Top EXCEPT !.elem = New, !.at = "sep"]),
         UNCHANGED <<root, multi>>,
         strict' = strict, NEW w, NEW g, NEW v, NEW p, Reads(w, g, v, p)
  PROVE  Known'
<1>a. PICK m : m = Len(frames)
  OBVIOUS
<1>b. PICK f : f = [Top EXCEPT !.elem = New, !.at = "sep"]
  OBVIOUS
<1>c. Typed /\ Top \in Frames /\ NULL \notin Nat
  BY TopThere, ParserAssumption DEF Good
<1>d. f.kind = Top.kind /\ f.elem = New /\ f.at = "sep" /\ f.name = Top.name
  BY <1>b, <1>c DEF Frames
<1>0. frames' = Append(Front(frames), f) /\ signals' = signals /\ New # NULL
  <2>1. New \in Nat
    BY <1>c, Parts DEF New
  <2> QED BY <1>b, <1>c, <2>1 DEF Quiet
<1>1. /\ OtherTop(frames, frames', m) /\ Top = frames[m] /\ frames'[m] = f /\ m \in DOMAIN frames
  BY <1>0, <1>a, <1>c, <1>d, TopOther
<1>2. /\ look' = NULL /\ Consumed' = Consumed + 1 /\ Consumed \in Nat
      /\ \A u : Goes(u)' => Goes(u) /\ u[Consumed + 1] = t
  BY Consumes
<1>3. Reading(g, v, p) /\ (root = NULL <=> p.to = 0) /\ Sounds(frames, g, v, p, signals)
      /\ Trees(w, g, v, p)
  BY DEF Reads
<1>4. g[m].from \in 1 .. Consumed /\ g[m].part \in g[m].from + 1 .. Consumed + 1
  BY <1>1, <1>2, <1>3, PlaceThere
<1>5. PICK v2 : v2 = ScalarReading(t)
  OBVIOUS
<1>8. Reading(g, v2, p)'
  <2>1. NewPart(frames, g, g, m)
    BY DEF NewPart, SameBelow
  <2>2. g[m].part \in g[m].from + 1 .. Consumed' + 1
    BY <1>2, <1>4
  <2>3. ASSUME NEW u, Goes(u)', ReadsTop(u, Top, g[m], v, Consumed, look)
        PROVE  ReadsTop(u, f, g[m], v2, Consumed + 1, NULL)
    <3>1. look = NULL \/ look = t
      BY Seen
    <3>2. Awaits(u, Top, g[m], Consumed + 1)
      BY <2>3, <3>1, ExpectsAwaits
    <3>3. PICK b \in Nat : b = Consumed + 1
      BY <1>2
    <3>4. v2 \in T!Readings(u, b, b)
      <4>1. u[b] = t
        BY <1>2, <2>3, <3>3
      <4> QED BY <1>5, <4>1, ScalarRead
    <3>5. g[m].part \in Nat /\ b <= b
      BY <1>4, <3>3
    <3>6. Awaits(u, Top, g[m], b)
      BY <3>2, <3>3
    <3>7. ReadsTop(u, f, g[m], v2, b, NULL)
      BY <1>d, <3>4, <3>5, <3>6, ValueTurn
    <3> QED BY <3>3, <3>7
  <2>4. \A u : Goes(u)' => /\ Goes(u)
                           /\ ReadsTop(u, Top, g[m], v, Consumed, look)
                                => ReadsTop(u, f, g[m], v2, Consumed', look')
    BY <1>2, <2>3
  <2>5. Consumed' \in {Consumed, Consumed + 1}
    BY <1>2
  <2> QED BY <1>0, <1>a, <1>c, <1>d, <1>2, <1>3, <2>1, <2>2, <2>4, <2>5, TopReading
<1>9. Sounds(frames', g, v2, p, signals')
  <2>1. frames[m].elem # frames'[m].elem /\ frames[m].elem = NULL /\ v2.said = <<>>
    BY <1>0, <1>1, <1>d, <1>5 DEF ScalarReading
  <2>2. Sounds(frames', g, v2, p, signals)
    BY <1>1, <1>3, <2>1, TopSounds
  <2> QED BY <1>0, <2>2
<1>10. PICK w2 : Trees(w2, g, v2, p)'
  BY <1>3, <1>5, ScalarTrees
<1> QED BY <1>3, <1>8, <1>9, <1>10, NowKnown

(* The frames when a container begins.                                     *)
LEMMA OneOpened ==
  ASSUME Typed, NEW n, NEW t, frames' = Append(frames, Opened(t, n)), NEW m, m = Len(frames)
  PROVE  /\ OneMore(frames, frames', m) /\ frames'[m + 1].kind = t /\ m \in Nat
         /\ m # 0 => frames # <<>> /\ Top = frames[m]
<1>1. PICK s \in Seq(Frames) : s = frames
  BY DEF Typed
<1>2. PICK x : x = Opened(t, n)
  OBVIOUS
<1>3. /\ Len(Append(s, x)) = Len(s) + 1 /\ DOMAIN Append(s, x) = 1 .. (Len(s) + 1)
      /\ DOMAIN s = 1 .. Len(s) /\ Len(s) \in Nat
      /\ Append(s, x)[Len(s) + 1] = x
      /\ \A i \in DOMAIN s : Append(s, x)[i] = s[i]
  BY Appended
<1>4. x.at = "next" /\ x.name = NULL /\ x.elem = NULL /\ x.kind = t
  BY <1>2 DEF Opened
<1>5. OneMore(frames, frames', m) /\ frames'[m + 1].kind = t
  BY <1>1, <1>2, <1>3, <1>4 DEF OneMore
<1>6. m \in Nat /\ (m # 0 => frames # <<>>)
  BY <1>1, <1>3
<1> QED BY <1>5, <1>6, TopThere

(* A container begins.                                                     *)
LEMMA BeginReads ==
  ASSUME Typed, Heard, Peeked, NEW t \in Opening, t \in Token, t # "EOF", See(t), Eat(t), Emit(t),
         NEW n, frames' = Append(frames, Opened(t, n)), (root' = NULL <=> root = NULL),
         strict' = strict,
         frames # <<>> => Top.elem = NULL /\ Expects(Top, t),
         NEW w, NEW g, NEW v, NEW p, Reads(w, g, v, p),
         \A g2 : NewFrame(frames, g, g2, Len(frames), Consumed) => \E w2 : Trees(w2, g2, v, p)'
  PROVE  Known'
<1>a. PICK m : m = Len(frames)
  OBVIOUS
<1>1. /\ OneMore(frames, frames', m) /\ frames'[m + 1].kind = t /\ m \in Nat
      /\ m # 0 => frames # <<>> /\ Top = frames[m]
  BY <1>a, OneOpened
<1>2. /\ look' = NULL /\ Consumed' = Consumed + 1 /\ Consumed \in Nat
      /\ \A u : Goes(u)' => Goes(u) /\ u[Consumed + 1] = t
  BY Consumes
<1>3. Reading(g, v, p) /\ (root = NULL <=> p.to = 0) /\ Sounds(frames, g, v, p, signals)
  BY DEF Reads
<1>4. PICK h : h = [from |-> Consumed + 1, heard |-> signals, list |-> T!Nothing, part |-> Consumed + 2]
  OBVIOUS
<1>5. PICK g2 : g2 = [k \in 1 .. m + 1 |-> IF k = m + 1 THEN h ELSE g[k]]
  OBVIOUS
<1>6. NewFrame(frames, g, g2, m, Consumed) /\ g2[m + 1].heard = signals
  <2>1. g2[m + 1] = h
    BY <1>1, <1>5
  <2>2. \A k \in DOMAIN frames : g2[k] = g[k]
    BY <1>1, <1>5 DEF OneMore
  <2> QED BY <1>4, <2>1, <2>2 DEF NewFrame
<1>7. Reading(g2, v, p)'
  <2>1. ASSUME NEW u, Goes(u)', frames # <<>>, ReadsTop(u, Top, g[m], v, Consumed, look)
        PROVE  Awaits(u, Top, g[m], Consumed + 1)
    <3>1. look = NULL \/ look = t
      BY Seen
    <3> QED BY <2>1, <3>1, ExpectsAwaits
  <2>2. \A u : Goes(u)' => /\ Goes(u) /\ u[Consumed + 1] = t
                           /\ frames # <<>> /\ ReadsTop(u, Top, g[m], v, Consumed, look)
                                => Awaits(u, Top, g[m], Consumed + 1)
    BY <1>2, <2>1
  <2> QED BY <1>a, <1>2, <1>3, <1>6, <2>2, PushReading
<1>8. Sounds(frames', g2, v, p, signals')
  <2>1. m # 0 => frames[m].elem = NULL
    BY <1>1
  <2>2. frames'[m + 1].kind \in T!Opening
    BY <1>1 DEF Opening, T!Opening
  <2>3. Sounds(frames', g2, v, p, Append(signals, frames'[m + 1].kind))
    BY <1>1, <1>3, <1>6, <2>1, <2>2, PushSounds
  <2> QED BY <1>1, <2>3 DEF Emit
<1>9. PICK w2 : Trees(w2, g2, v, p)'
  BY <1>a, <1>6
<1> QED BY <1>3, <1>7, <1>8, <1>9, NowKnown

(* ... among the nodes there are,                                          *)
LEMMA OpenReads ==
  ASSUME Good, Heard, Peeked, NEW t \in Opening, t \in Token, t # "EOF", See(t), Begin(t, nodes),
         UNCHANGED <<root, multi>>, strict' = strict,
         frames # <<>> => Top.elem = NULL /\ Expects(Top, t),
         NEW w, NEW g, NEW v, NEW p, Reads(w, g, v, p)
  PROVE  Known'
<1>1. /\ Eat(t) /\ Emit(t) /\ nodes' = Append(nodes, Node(t))
      /\ frames' = Append(frames, Opened(t, New))
      /\ Typed /\ Trees(w, g, v, p)
  BY DEF Begin, New, Good, Reads
<1>2. PICK n, m, c : n = New /\ m = Len(frames) /\ c = Consumed
  OBVIOUS
<1>3. ASSUME NEW g2, NewFrame(frames, g, g2, m, c)
      PROVE  \E w2 : Trees(w2, g2, v, p)'
  BY <1>1, <1>2, <1>3, PushTrees
<1>4. \A g2 : NewFrame(frames, g, g2, Len(frames), Consumed) => \E w2 : Trees(w2, g2, v, p)'
  BY <1>2, <1>3
<1> QED BY <1>1, <1>2, <1>4, BeginReads

(* A second value begins at the top level.                                 *)
LEMMA OpenMoreReads ==
  ASSUME Good, Heard, Peeked, NEW t \in Opening, t \in Token, t # "EOF", See(t),
         Begin(t, MultiRoot),
         root # NULL, ~ multi, frames = <<>>, root' = New, multi' = TRUE, strict' = strict,
         NEW w, NEW g, NEW v, NEW p, Reads(w, g, v, p)
  PROVE  Known'
<1>1. /\ Eat(t) /\ Emit(t) /\ nodes' = Append(MultiRoot, Node(t))
      /\ frames' = Append(frames, Opened(t, Len(MultiRoot) + 1))
      /\ Typed /\ Trees(w, g, v, p)
  BY DEF Begin, Good, Reads
<1>2. PICK n, c : n = Len(MultiRoot) + 1 /\ c = Consumed
  OBVIOUS
<1>3. ASSUME NEW g2, NewFrame(frames, g, g2, 0, c)
      PROVE  \E w2 : Trees(w2, g2, v, p)'
  BY <1>1, <1>3, PushMoreTrees
<1>4. Len(frames) = 0
  OBVIOUS
<1>5. \A g2 : NewFrame(frames, g, g2, Len(frames), Consumed) => \E w2 : Trees(w2, g2, v, p)'
  BY <1>2, <1>3, <1>4
<1>6. root' # NULL
  <2>1. New \in Nat
    BY <1>1, Parts DEF New
  <2> QED BY <2>1, ParserAssumption
<1> QED BY <1>1, <1>2, <1>5, <1>6, BeginReads

(* A container ends: an element of the one around it,                      *)
LEMMA CloseInnerReads ==
  ASSUME Good, Heard, Peeked, frames # <<>>, Front(frames) # <<>>, Top.at = "next",
         Top.elem = NULL,
         NEW t \in Token, t # "EOF", t = T!Closing(Top.kind), See(t), Eat(t), Emit(t),
         nodes' = Closed(nodes, Top, Last(Front(frames)).node),
         frames' = Append(Front(Front(frames)),
                          [Last(Front(frames)) EXCEPT !.elem = Top.node, !.at = "sep"]),
         UNCHANGED <<root, multi>>, strict' = strict,
         NEW w, NEW g, NEW v, NEW p, Reads(w, g, v, p)
  PROVE  Known'
<1>a. PICK m : m = Len(frames)
  OBVIOUS
<1>b. Typed
  BY DEF Good
<1>1. OneLess(frames, frames', m) /\ Top = frames[m]
  BY <1>a, <1>b, Popped
<1>2. /\ look' = NULL /\ Consumed' = Consumed + 1 /\ Consumed \in Nat
      /\ \A u : Goes(u)' => Goes(u) /\ u[Consumed + 1] = t
  BY Consumes
<1>3. Reading(g, v, p) /\ (root = NULL <=> p.to = 0) /\ Sounds(frames, g, v, p, signals)
      /\ Trees(w, g, v, p)
  BY DEF Reads
<1>4. look = NULL \/ look = t
  BY Seen
<1>5. PICK v2 : v2 = ContainerReading(Top.kind, g[m].list)
  OBVIOUS
<1>6. Reading(g, v2, p)'
  BY <1>a, <1>b, <1>2, <1>3, <1>4, <1>5, PopReading
<1>7. Sounds(frames', g, v2, p, signals')
  <2>1. Sounds(frames', g, v2, p, Append(signals, T!Closing(frames[m].kind)))
    BY <1>1, <1>3, <1>5, PopSounds
  <2> QED BY <1>1, <2>1 DEF Emit
<1>8. PICK w2 : Trees(w2, g, v2, p)'
  BY <1>a, <1>3, <1>5, PopTrees
<1> QED BY <1>3, <1>6, <1>7, <1>8, NowKnown

(* ... or the value of the statement.                                      *)
LEMMA CloseLastReads ==
  ASSUME Good, Heard, Peeked, OneRoot, state # "idle", multi => root # NULL,
         frames # <<>>, Front(frames) = <<>>, Top.at = "next", Top.elem = NULL,
         NEW t \in Token, t # "EOF", t = T!Closing(Top.kind), See(t), Eat(t), Emit(t),
         IF multi
         THEN /\ nodes' = [Closed(nodes, Top, NULL)
                              EXCEPT ![root].items = Append(@, Slot(NULL, Top.node))]
              /\ UNCHANGED root
         ELSE nodes' = Closed(nodes, Top, NULL) /\ root' = Top.node,
         frames' = <<>>, multi' = multi, strict' = strict,
         NEW w, NEW g, NEW v, NEW p, Reads(w, g, v, p)
  PROVE  Known' /\ (multi' => Len(nodes'[root'].items) >= 2)
<1>a. PICK m : m = Len(frames)
  OBVIOUS
<1>b. Typed /\ multi \in BOOLEAN
  BY DEF Good, Typed
<1>2. /\ look' = NULL /\ Consumed' = Consumed + 1 /\ Consumed \in Nat
      /\ \A u : Goes(u)' => Goes(u) /\ u[Consumed + 1] = t /\ Consumed + 1 <= Len(u) /\ Len(u) \in Nat
  BY Consumes
<1>3. Reading(g, v, p) /\ (root = NULL <=> p.to = 0) /\ Sounds(frames, g, v, p, signals)
      /\ Trees(w, g, v, p)
  BY DEF Reads
<1>4. look = NULL \/ look = t
  BY Seen
<1>5. PICK v2, p2 : /\ v2 = ContainerReading(Top.kind, g[m].list)
                    /\ p2 = [list |-> T!Longer(p.list, NULL, v2, <<>>), to |-> Consumed + 1]
  OBVIOUS
<1>5a. p2.list = T!Longer(p.list, NULL, v2, <<>>) /\ p2.to = Consumed + 1 /\ p2.to # 0
  BY <1>2, <1>5
<1>5b. p.to = 0 \/ ~ strict
  BY <1>3 DEF OneRoot
<1>6. Reading(g, v2, p2)' /\ m = 1
  BY <1>a, <1>b, <1>2, <1>3, <1>4, <1>5, <1>5a, <1>5b, LastReading
<1>7. Sounds(frames', g, v2, p2, signals')
  <2>1. m \in DOMAIN frames /\ Top = frames[m] /\ DOMAIN frames = 1 .. 1
    <3>1. frames \in Seq(Frames)
      BY <1>b DEF Typed
    <3>2. DOMAIN frames = 1 .. 1
      <4>1. PICK s \in Seq(Frames) : s = frames
        BY <3>1
      <4>2. DOMAIN s = 1 .. Len(s)
        OBVIOUS
      <4> QED BY <1>a, <1>6, <4>1, <4>2
    <3> QED BY <1>a, <1>b, <3>2, TopThere
  <2>2. Sounds(<<>>, g, v2, p2, Append(signals, T!Closing(frames[1].kind)))
    BY <1>a, <1>3, <1>5, <1>5a, <1>6, <2>1, LastSounds
  <2> QED BY <1>6, <2>1, <2>2 DEF Emit
<1>8. /\ \E w2 : Trees(w2, g, v2, p2)'
      /\ root' # NULL /\ (multi' => Len(nodes'[root'].items) >= 2)
  <2>1. CASE multi
    BY <1>a, <1>3, <1>5, <1>5a, <2>1, MoreTrees
  <2>2. CASE ~ multi
    <3>1. root = NULL
      BY <2>2 DEF OneRoot
    <3>2. nodes' = Closed(nodes, Top, NULL) /\ root' = Top.node
      BY <2>2
    <3>3. \E w2 : Trees(w2, g, v2, p2)'
      BY <1>a, <1>3, <1>5, <1>5a, <2>2, <3>1, <3>2, RootTrees
    <3>4. Top.node # NULL
      <4>1. Top \in Frames /\ DOMAIN nodes \subseteq Nat
        BY <1>b, TopThere, Parts
      <4> QED BY <4>1, ParserAssumption DEF Frames
    <3> QED BY <2>2, <3>2, <3>3, <3>4
  <2> QED BY <1>b, <2>1, <2>2
<1>9. PICK w2 : Trees(w2, g, v2, p2)'
  BY <1>8
<1>10. Known'
  BY <1>5a, <1>6, <1>7, <1>8, <1>9, NowKnown
<1> QED BY <1>8, <1>10

(* A statement that is a value.                                            *)
LEMMA ValueReads ==
  ASSUME Good, Heard, Peeked, frames = <<>>, root = NULL, ~ multi,
         NEW t \in Scalar, t \in Token, t # "EOF", See(t), Eat(t), Quiet,
         nodes' = Append(nodes, Leaf(t)), root' = New, frames' = <<>>, multi' = multi,
         strict' = strict,
         NEW w, NEW g, NEW v, NEW p, Reads(w, g, v, p)
  PROVE  Known'
<1>b. Typed
  BY DEF Good
<1>2. /\ look' = NULL /\ Consumed' = Consumed + 1 /\ Consumed \in Nat
      /\ \A u : Goes(u)' => Goes(u) /\ u[Consumed + 1] = t /\ Consumed + 1 <= Len(u) /\ Len(u) \in Nat
  BY Consumes
<1>3. Reading(g, v, p) /\ p.to = 0 /\ Sounds(<<>>, g, v, p, signals) /\ Trees(w, g, v, p)
  BY DEF Reads
<1>5. PICK v2, p2 : /\ v2 = ScalarReading(t)
                    /\ p2 = [list |-> T!Longer(p.list, NULL, v2, <<>>), to |-> Consumed + 1]
  OBVIOUS
<1>5a. p2.list = T!Longer(p.list, NULL, v2, <<>>) /\ p2.to = Consumed + 1 /\ p2.to # 0
  BY <1>2, <1>5
<1>6. Reading(g, v2, p2)'
  BY <1>2, <1>3, <1>5, <1>5a, ScalarStatement
<1>7. Sounds(frames', g, v2, p2, signals')
  <2>1. signals = Start \o p.list.said /\ p.list.said \in Seq(Sound)
    BY <1>3 DEF Sounds
  <2>2. v2.said = <<>>
    BY <1>5 DEF ScalarReading
  <2>3. p2.list.said = (p.list.said \o v2.said) \o <<>>
    <3>1. T!Longer(p.list, NULL, v2, <<>>).said = (p.list.said \o v2.said) \o <<>>
      BY DEF T!Longer
    <3> QED BY <1>5a, <3>1, Zenon
  <2>4. p2.list.said = p.list.said
    BY <2>1, <2>2, <2>3, Joined
  <2>5. v2.said \in Seq(Sound) /\ DOMAIN <<>> = {}
    BY <2>2
  <2> QED BY <2>1, <2>4, <2>5 DEF Sounds, Quiet
<1>8. PICK w2 : Trees(w2, g, v2, p2)'
  BY <1>3, <1>5, <1>5a, ValueTrees
<1>9. root' # NULL
  <2>1. New \in Nat
    BY <1>b, Parts DEF New
  <2> QED BY <2>1, ParserAssumption
<1> QED BY <1>5a, <1>6, <1>7, <1>8, <1>9, NowKnown

(* Nothing has been read.                                                  *)
LEMMA FirstReads ==
  ASSUME text' = <<>>, look' = NULL, nodes' = <<>>, frames' = <<>>, root' = NULL, signals' = Start
  PROVE  Known'
<1>1. PICK g, v, p : g = <<>> /\ v = T!Nothing /\ p = [list |-> T!Nothing, to |-> 0]
  OBVIOUS
<1>2. p.list = T!Nothing /\ p.to = 0 /\ v.said = <<>> /\ p.list.said = <<>>
  BY <1>1 DEF T!Nothing
<1>3. Reading(g, v, p)'
  BY <1>2, FirstReading
<1>4. Sounds(frames', g, v, p, signals')
  <2>1. Start \o <<>> = Start /\ <<>> \in Seq(Sound) /\ DOMAIN <<>> = {}
    BY Joined
  <2> QED BY <1>2, <2>1 DEF Sounds
<1>5. Trees(<<>>, g, v, p)'
  BY <1>2, NoTrees
<1> QED BY <1>2, <1>3, <1>4, <1>5, NowKnown

(* Nothing is read.                                                        *)
LEMMA SameReads ==
  ASSUME Known, UNCHANGED <<nodes, frames, root, multi, look, text, signals, strict>>
  PROVE  Known'
<1>1. PICK w, g, v, p : Reads(w, g, v, p)
  BY DEF Known
<1>2. Consumed' = Consumed
  BY DEF Consumed
<1>3. Reading(g, v, p)'
  BY <1>1, <1>2 DEF Reads, Reading, Goes
<1>4. Sounds(frames', g, v, p, signals')
  BY <1>1 DEF Reads
<1>5. Trees(w, g, v, p)'
  BY <1>1 DEF Reads, Trees, Top
<1> QED BY <1>1, <1>3, <1>4, <1>5, NowKnown DEF Reads
-----------------------------------------------------------------------------
(* What a step inside a container comes to.                                *)
Stays == UNCHANGED <<state, vars, outcome, root, multi>> /\ (Known => Known')
Ends ==
  /\ state' = "after" /\ outcome' = "ok" /\ look' = NULL
  /\ frames' = <<>> /\ UNCHANGED <<vars, multi>>
  /\ Known => Known' /\ (multi' => Len(nodes'[root'].items) >= 2)
Fails == \E c \in Codes : Fail(c)
Carries == Stays \/ Ends \/ Fails

(* A token is consumed.                                                    *)
LEMMA TurnCarries ==
  ASSUME Good, Settled, Heard, Peeked, state = "inside", NEW t \in Token, See(t), Eat(t),
         t # "EOF",
         NEW f, ReadsOn(f), f.kind = Top.kind, Turn(f), strict' = strict,
         \A u, h, v : ReadsTop(u, Top, h, v, Consumed, look) /\ u[Consumed + 1] = t
                        => ReadsTop(u, f, h, v, Consumed + 1, NULL)
  PROVE  Carries
<1>1. frames # <<>> /\ UNCHANGED <<state, vars, outcome, root, multi>>
  BY DEF Settled, Turn, Replace
<1>2. ASSUME Known PROVE Known'
  <2>1. PICK w, g, v, p : Reads(w, g, v, p)
    BY <1>2 DEF Known
  <2>2. PICK m : m = Len(frames)
    OBVIOUS
  <2>3. \A u : ReadsTop(u, Top, g[m], v, Consumed, look) /\ u[Consumed + 1] = t
                 => ReadsTop(u, f, g[m], v, Consumed + 1, NULL)
    OBVIOUS
  <2> QED BY <1>1, <2>1, <2>2, <2>3, TurnReads
<1> QED BY <1>1, <1>2 DEF Carries, Stays

(* An element is added.                                                    *)
LEMMA AddCarries ==
  ASSUME Good, Settled, Heard, Peeked, state = "inside", NEW t \in Token, See(t), Keep(t),
         Top.elem # NULL,
         NEW s, Add(s), T!Past(Top.kind) = <<s>>, strict' = strict,
         \/ Top.at = "sep" /\ ~ Leads(Top.kind, t)
         \/ Top.at = "comma" /\ t # T!Closing(Top.kind)
  PROVE  Carries
<1>1. frames # <<>> /\ UNCHANGED <<state, vars, outcome, root, multi>>
  BY DEF Settled, Add, Replace
<1>2. ASSUME Known PROVE Known'
  <2>1. PICK w, g, v, p : Reads(w, g, v, p)
    BY <1>2 DEF Known
  <2> QED BY <1>1, <2>1, AddReads
<1> QED BY <1>1, <1>2 DEF Carries, Stays

(* A container begins, or is too deep.                                     *)
LEMMA OpenCarries ==
  ASSUME Good, Settled, Heard, Peeked, state = "inside", NEW t \in Opening, t \in Token,
         t # "EOF", See(t), Open(t),
         Top.elem = NULL, Expects(Top, t), strict' = strict
  PROVE  Carries
<1>0. frames # <<>> /\ "NESTING" \in Codes
  BY DEF Settled, Codes
<1>1. CASE Len(frames) >= MaxDepth
  BY <1>0, <1>1 DEF Open, Carries, Fails
<1>2. CASE ~ (Len(frames) >= MaxDepth)
  <2>1. Begin(t, nodes) /\ UNCHANGED <<state, vars, outcome, root, multi>>
    BY <1>2 DEF Open
  <2>2. ASSUME Known PROVE Known'
    <3>1. PICK w, g, v, p : Reads(w, g, v, p)
      BY <2>2 DEF Known
    <3> QED BY <1>0, <2>1, <3>1, OpenReads
  <2> QED BY <2>1, <2>2 DEF Carries, Stays
<1> QED BY <1>1, <1>2

(* A value that is an element, or is none.                                 *)
LEMMA ValueCarries ==
  ASSUME Good, Settled, Heard, Peeked, state = "inside", NEW t \in Token, See(t), Value(t),
         Top.elem = NULL, t \in Scalar => Expects(Top, t), strict' = strict
  PROVE  Carries
<1>0. frames # <<>> /\ "INVALID_BAREWORD" \in Codes /\ "PARSE" \in Codes
  BY DEF Settled, Codes
<1>1. CASE t \in Scalar
  <2>1. t # "IDENT" /\ t # "EOF"
    BY <1>1 DEF Scalar, String
  <2>2. /\ nodes' = Append(nodes, Leaf(t)) /\ Eat(t) /\ Quiet
        /\ Replace([Top EXCEPT !.elem = Len(nodes) + 1, !.at = "sep"])
    BY <1>1, <2>1 DEF Value
  <2>3. /\ frames' = Append(Front(frames), [Top EXCEPT !.elem = New, !.at = "sep"])
        /\ UNCHANGED <<state, vars, outcome, root, multi>>
    BY <2>2 DEF Replace, New
  <2>4. ASSUME Known PROVE Known'
    <3>1. PICK w, g, v, p : Reads(w, g, v, p)
      BY <2>4 DEF Known
    <3> QED BY <1>0, <1>1, <2>1, <2>2, <2>3, <3>1, ScalarReads
  <2> QED BY <2>3, <2>4 DEF Carries, Stays
<1>2. CASE t \notin Scalar
  <2>1. Fail("INVALID_BAREWORD") \/ Fail("PARSE")
    BY <1>2 DEF Value, Scalar, String
  <2> QED BY <1>0, <2>1 DEF Carries, Fails
<1> QED BY <1>1, <1>2

(* A container is complete.                                                *)
LEMMA CloseCarries ==
  ASSUME Good, Settled, Heard, Peeked, OneRoot, state = "inside", NEW t \in Token, See(t),
         Close(t), t # "EOF",
         Top.at = "next", Top.elem = NULL, t = T!Closing(Top.kind), strict' = strict
  PROVE  Carries
<1>0. frames # <<>> /\ state # "idle" /\ (multi => root # NULL)
  BY DEF Settled
<1>1. CASE Front(frames) # <<>>
  <2>1. /\ nodes' = Closed(nodes, Top, Last(Front(frames)).node)
        /\ frames' = Append(Front(Front(frames)),
                            [Last(Front(frames)) EXCEPT !.elem = Top.node, !.at = "sep"])
        /\ UNCHANGED <<state, vars, outcome, root, multi>> /\ Eat(t) /\ Emit(t)
    BY <1>1 DEF Close
  <2>2. ASSUME Known PROVE Known'
    <3>1. PICK w, g, v, p : Reads(w, g, v, p)
      BY <2>2 DEF Known
    <3> QED BY <1>0, <1>1, <2>1, <3>1, CloseInnerReads
  <2> QED BY <2>1, <2>2 DEF Carries, Stays
<1>2. CASE Front(frames) = <<>>
  <2>1. /\ outcome' = "ok" /\ state' = "after" /\ frames' = <<>> /\ UNCHANGED <<vars, multi>>
        /\ IF multi
           THEN /\ nodes' = [Closed(nodes, Top, NULL)
                               EXCEPT ![root].items = Append(@, Slot(NULL, Top.node))]
                /\ UNCHANGED root
           ELSE nodes' = Closed(nodes, Top, NULL) /\ root' = Top.node
        /\ Eat(t) /\ Emit(t)
    BY <1>2 DEF Close, Finish
  <2>2. ASSUME Known PROVE Known' /\ (multi' => Len(nodes'[root'].items) >= 2)
    <3>1. PICK w, g, v, p : Reads(w, g, v, p)
      BY <2>2 DEF Known
    <3>2. multi' = multi
      BY <2>1
    <3> QED BY <1>0, <1>2, <2>1, <3>1, <3>2, CloseLastReads
  <2>3. look' = NULL
    BY <2>1 DEF Eat
  <2> QED BY <2>1, <2>2, <2>3 DEF Carries, Ends
<1> QED BY <1>1, <1>2

-----------------------------------------------------------------------------
(* The turns of json_parse_array, json_parse_object                        *)

(* Whatever has been read, behind a value a comma is.                      *)
LEMMA CommaTurns ==
  ASSUME NEW f, NEW f2, f.at = "sep", f2.kind = f.kind, f2.at = "comma", f2.name = f.name,
         NEW c \in Nat, NEW l, NEW t, IsComma(t)
  PROVE  \A u, h, v : ReadsTop(u, f, h, v, c, l) /\ u[c + 1] = t => ReadsTop(u, f2, h, v, c + 1, NULL)
BY CommaTurn

(* Whatever has been read, behind a name a colon is.                       *)
LEMMA ColonTurns ==
  ASSUME NEW f, NEW f2, f.at = "colon", f2.kind = f.kind, f2.at = "value", f2.name = f.name,
         NEW c \in Nat, NEW l
  PROVE  \A u, h, v : ReadsTop(u, f, h, v, c, l) /\ u[c + 1] = ":" => ReadsTop(u, f2, h, v, c + 1, NULL)
BY ColonTurn

(* Whatever has been read, a name begins a member.                         *)
LEMMA NameTurns ==
  ASSUME NEW f, NEW f2, f.at = "next", ~ IsList(f.kind), NEW t \in String,
         f2.kind = f.kind, f2.at = "colon", f2.name = t,
         NEW c \in Nat, NEW l, l = NULL \/ l = t
  PROVE  \A u, h, v : ReadsTop(u, f, h, v, c, l) /\ u[c + 1] = t => ReadsTop(u, f2, h, v, c + 1, NULL)
<1>1. ASSUME NEW u, NEW h, NEW v, ReadsTop(u, f, h, v, c, l), u[c + 1] = t
      PROVE  ReadsTop(u, f2, h, v, c + 1, NULL)
  <2>1. Fresh(u, f, h, c, l) \/ Ended(u, f, h, c, l)
    BY <1>1 DEF ReadsTop
  <2>2. Leads(f.kind, t)
    BY Zenon DEF Leads, IsList
  <2>3. ~ Ended(u, f, h, c, l)
    BY <2>2, Zenon DEF Ended
  <2>4. f.kind # "["
    BY Zenon DEF IsList
  <2>5. f2.name = u[c + 1] /\ u[c + 1] \in String
    BY <1>1
  <2> QED BY <2>1, <2>3, <2>4, <2>5, NameTurn, Zenon
<1> QED BY <1>1

(* Which bracket, and which sound, belongs to which.                       *)
LEMMA Brackets ==
  /\ T!Closing("[") = "]" /\ IsList("[") /\ ~ Leads("[", "]") /\ T!Past("[") = <<"array-element">>
  /\ T!Closing("{") = "}" /\ ~ IsList("{") /\ T!Past("{") = <<"object-member">>
  /\ \A t : t \notin String => ~ Leads("{", t)
  /\ "]" # "EOF" /\ "}" # "EOF" /\ "," # "EOF" /\ ":" # "EOF" /\ IsComma(",")
<1>1. "{" # "["
  BY Zenon
<1>2. T!Closing("[") = "]" /\ T!Past("[") = <<"array-element">> /\ IsList("[") /\ IsComma(",")
  BY Zenon DEF T!Closing, T!Past, IsList, IsComma
<1>3. T!Closing("{") = "}" /\ T!Past("{") = <<"object-member">> /\ ~ IsList("{")
  BY <1>1, Zenon DEF T!Closing, T!Past, IsList
<1>4. ~ Leads("[", "]")
  BY <1>2, Zenon DEF Leads
<1>5. \A t : t \notin String => ~ Leads("{", t)
  BY <1>1, Zenon DEF Leads
<1>6. "]" # "EOF" /\ "}" # "EOF" /\ "," # "EOF" /\ ":" # "EOF"
  BY Zenon
<1> QED BY <1>2, <1>3, <1>4, <1>5, <1>6, Zenon

(* What begins a value does not end the text or the array.                 *)
LEMMA Ordinary ==
  /\ \A t \in Opening : t # "EOF" /\ t \in Token /\ t # T!Closing("[")
  /\ \A t \in Scalar : t # "EOF" /\ t # T!Closing("[")
  /\ \A t \in String : t # "EOF" /\ t \in Scalar
<1>1. T!Closing("[") = "]"
  BY Brackets, Zenon
<1>2. \A t \in Opening : t # "EOF" /\ t \in Token /\ t # "]"
  BY Zenon DEF Opening, Token
<1>3. \A t \in Scalar : t # "EOF" /\ t # "]"
  BY Zenon DEF Scalar, String
<1>4. \A t \in String : t # "EOF" /\ t \in Scalar
  BY Zenon DEF Scalar, String
<1> QED BY <1>1, <1>2, <1>3, <1>4, Zenon

(* json_parse_array.                                                       *)
LEMMA ArrayCarries ==
  ASSUME Good, Settled, Heard, Peeked, OneRoot, state = "inside", NEW t \in Token, See(t),
         strict' = strict,
         ArrayNext(t) \/ ArraySep(t) \/ ArrayComma(t)
  PROVE  Carries
<1>1. /\ Top \in Frames
      /\ Top.at \in {"sep", "comma"} <=> Top.elem # NULL
      /\ Top.name # NULL => Top.kind = "{"
  BY TopTyped
<1>2. CASE ArrayNext(t)
  <2>0. Top.kind = "[" /\ Top.at = "next"
    BY <1>2, Zenon DEF ArrayNext
  <2>1. Top.elem = NULL
    BY <1>1, <1>2 DEF ArrayNext
  <2>2. IsList(Top.kind) /\ T!Closing(Top.kind) = T!Closing("[")
    BY <2>0, Brackets, Zenon
  <2>3. (t \in Opening \/ t \in Scalar) => Expects(Top, t)
    BY <2>0, <2>2, Ordinary, Zenon DEF Expects
  <2>4. \/ Close(t) /\ t = "]"
        \/ t \in Opening /\ Open(t)
        \/ Value(t)
    BY <1>2 DEF ArrayNext, Opening
  <2>5. t = "]" => t = T!Closing(Top.kind) /\ t # "EOF"
    BY <2>2, Brackets, Zenon
  <2>6. t \in Opening => t # "EOF"
    BY Ordinary, Zenon
  <2>7. CASE Close(t) /\ t = "]"
    BY <2>0, <2>1, <2>5, <2>7, CloseCarries, Zenon
  <2>8. CASE t \in Opening /\ Open(t)
    BY <2>1, <2>3, <2>6, <2>8, OpenCarries, Zenon
  <2>9. CASE Value(t)
    BY <2>1, <2>3, <2>9, ValueCarries, Zenon
  <2> QED BY <2>4, <2>7, <2>8, <2>9, Zenon
<1>3. CASE ArraySep(t)
  <2>0. Top.kind = "[" /\ Top.at = "sep"
    BY <1>3, Zenon DEF ArraySep
  <2>1. Top.at = "sep" /\ Top.elem # NULL
    BY <1>1, <1>3 DEF ArraySep
  <2>2. \/ t = "," /\ Eat(t) /\ Turn([Top EXCEPT !.at = "comma"])
        \/ t = "]" /\ Keep(t) /\ Add("array-element")
        \/ Fail("MISSING_COMMA")
    BY <1>3 DEF ArraySep
  <2>3. CASE t = "," /\ Eat(t) /\ Turn([Top EXCEPT !.at = "comma"])
    <3>1. PICK f : f = [Top EXCEPT !.at = "comma"]
      OBVIOUS
    <3>2. ReadsOn(f) /\ f.kind = Top.kind /\ f.at = "comma" /\ f.name = Top.name
      BY <1>1, <2>1, <3>1 DEF ReadsOn, Frames
    <3>3. IsComma(t) /\ t # "EOF" /\ Eat(t) /\ Turn(f)
      BY <2>3, <3>1, Brackets, Zenon
    <3>4. Consumed \in Nat
      BY LastIs
    <3>5. \A u, h, v : ReadsTop(u, Top, h, v, Consumed, look) /\ u[Consumed + 1] = t
                         => ReadsTop(u, f, h, v, Consumed + 1, NULL)
      BY <2>1, <3>2, <3>3, <3>4, CommaTurns
    <3> QED BY <3>2, <3>3, <3>5, TurnCarries
  <2>4. CASE t = "]" /\ Keep(t) /\ Add("array-element")
    <3>1. T!Past(Top.kind) = <<"array-element">> /\ ~ Leads(Top.kind, t)
      BY <2>0, <2>4, Brackets, Zenon
    <3> QED BY <2>1, <2>4, <3>1, AddCarries, Zenon
  <2>5. CASE Fail("MISSING_COMMA")
    BY <2>5 DEF Carries, Fails, Codes
  <2> QED BY <2>2, <2>3, <2>4, <2>5, Zenon
<1>4. CASE ArrayComma(t)
  <2>0. Top.kind = "[" /\ Top.at = "comma" /\ Keep(t)
    BY <1>4, Zenon DEF ArrayComma
  <2>1. Top.at = "comma" /\ Top.elem # NULL
    BY <1>1, <1>4 DEF ArrayComma
  <2>2. (t # "]" /\ Add("array-element")) \/ Fail("TRAILING_COMMA")
    BY <1>4 DEF ArrayComma
  <2>3. CASE t # "]" /\ Add("array-element")
    <3>1. T!Past(Top.kind) = <<"array-element">> /\ t # T!Closing(Top.kind)
      BY <2>0, <2>3, Brackets, Zenon
    <3> QED BY <2>0, <2>1, <2>3, <3>1, AddCarries, Zenon
  <2>4. CASE Fail("TRAILING_COMMA")
    BY <2>4 DEF Carries, Fails, Codes
  <2> QED BY <2>2, <2>3, <2>4, Zenon
<1> QED BY <1>2, <1>3, <1>4

(* json_parse_object.                                                      *)
LEMMA ObjectCarries ==
  ASSUME Good, Settled, Heard, Peeked, OneRoot, state = "inside", NEW t \in Token, See(t),
         strict' = strict,
         \/ ObjectNext(t) \/ ObjectColon(t) \/ ObjectValue(t)
         \/ ObjectSep(t) \/ ObjectComma(t)
  PROVE  Carries
<1>1. /\ Top \in Frames
      /\ Top.at \in {"sep", "comma"} <=> Top.elem # NULL
      /\ Top.name # NULL => Top.kind = "{"
  BY TopTyped
<1>2. \A c \in {"MISSING_COMMA", "TRAILING_COMMA", "INVALID_BAREWORD", "MISSING_COLON"} : Fail(c) => Carries
  BY DEF Carries, Fails, Codes
<1>2a. Consumed \in Nat /\ (look = NULL \/ look = t)
  BY LastIs, Seen
<1>3. CASE ObjectNext(t)
  <2>0. Top.kind = "{" /\ Top.at = "next"
    BY <1>3, Zenon DEF ObjectNext
  <2>1. Top.elem = NULL
    BY <1>1, <1>3 DEF ObjectNext
  <2>2. \/ t = "}" /\ Close(t)
        \/ t \in String /\ Eat(t) /\ Turn([Top EXCEPT !.name = t, !.at = "colon"])
        \/ Fail("INVALID_BAREWORD")
    BY <1>3 DEF ObjectNext
  <2>3. CASE t = "}" /\ Close(t)
    <3>1. t = T!Closing(Top.kind) /\ t # "EOF"
      BY <2>0, <2>3, Brackets, Zenon
    <3> QED BY <2>0, <2>1, <2>3, <3>1, CloseCarries, Zenon
  <2>4. CASE t \in String /\ Eat(t) /\ Turn([Top EXCEPT !.name = t, !.at = "colon"])
    <3>1. PICK f : f = [Top EXCEPT !.name = t, !.at = "colon"]
      OBVIOUS
    <3>2. /\ f \in Frames /\ f.kind = Top.kind /\ f.at = "colon" /\ f.name = t
          /\ f.node = Top.node /\ f.items = Top.items /\ f.elem = Top.elem
      BY <1>1, <2>4, <3>1 DEF Frames
    <3>2a. f.at \in {"sep", "comma"} <=> f.elem # NULL
      BY <2>1, <3>2
    <3>2b. f.kind = "{"
      BY <2>0, <3>2, Zenon
    <3>2c. ReadsOn(f)
      BY <3>2, <3>2a, <3>2b, Zenon DEF ReadsOn
    <3>3. ~ IsList(Top.kind) /\ t # "EOF" /\ Eat(t) /\ Turn(f)
      BY <2>0, <2>4, <3>1, Brackets, Ordinary, Zenon
    <3>5. \A u, h, v : ReadsTop(u, Top, h, v, Consumed, look) /\ u[Consumed + 1] = t
                         => ReadsTop(u, f, h, v, Consumed + 1, NULL)
      BY <1>2a, <2>0, <2>4, <3>2, <3>3, NameTurns, Zenon
    <3> QED BY <3>2, <3>2c, <3>3, <3>5, TurnCarries
  <2> QED BY <1>2, <2>2, <2>3, <2>4
<1>4. CASE ObjectColon(t)
  <2>0. Top.kind = "{" /\ Top.at = "colon"
    BY <1>4, Zenon DEF ObjectColon
  <2>1. Top.elem = NULL
    BY <1>1, <1>4 DEF ObjectColon
  <2>2. \/ t = ":" /\ Eat(t) /\ Turn([Top EXCEPT !.at = "value"])
        \/ Fail("MISSING_COLON")
    BY <1>4 DEF ObjectColon
  <2>4. CASE t = ":" /\ Eat(t) /\ Turn([Top EXCEPT !.at = "value"])
    <3>1. PICK f : f = [Top EXCEPT !.at = "value"]
      OBVIOUS
    <3>2. /\ f \in Frames /\ f.kind = Top.kind /\ f.at = "value" /\ f.name = Top.name
          /\ f.node = Top.node /\ f.items = Top.items /\ f.elem = Top.elem
      BY <1>1, <3>1 DEF Frames
    <3>2a. f.at \in {"sep", "comma"} <=> f.elem # NULL
      BY <2>1, <3>2
    <3>2b. f.kind = "{"
      BY <2>0, <3>2, Zenon
    <3>2c. ReadsOn(f)
      BY <3>2, <3>2a, <3>2b, Zenon DEF ReadsOn
    <3>3. t = ":" /\ t # "EOF" /\ Eat(t) /\ Turn(f)
      BY <2>4, <3>1, Brackets, Zenon
    <3>5. \A u, h, v : ReadsTop(u, Top, h, v, Consumed, look) /\ u[Consumed + 1] = t
                         => ReadsTop(u, f, h, v, Consumed + 1, NULL)
      BY <1>2a, <2>0, <3>2, <3>3, ColonTurns, Zenon
    <3> QED BY <3>2, <3>2c, <3>3, <3>5, TurnCarries
  <2> QED BY <1>2, <2>2, <2>4
<1>5. CASE ObjectValue(t)
  <2>0. Top.at = "value" /\ Expects(Top, t)
    BY <1>5, Zenon DEF ObjectValue, Expects
  <2>1. Top.elem = NULL
    BY <1>1, <1>5 DEF ObjectValue
  <2>2. (t \in Opening /\ Open(t)) \/ Value(t)
    BY <1>5 DEF ObjectValue
  <2>3. t \in Opening => t # "EOF"
    BY Ordinary, Zenon
  <2> QED BY <2>0, <2>1, <2>2, <2>3, OpenCarries, ValueCarries, Zenon
<1>6. CASE ObjectSep(t)
  <2>0. Top.kind = "{" /\ Top.at = "sep"
    BY <1>6, Zenon DEF ObjectSep
  <2>1. Top.at = "sep" /\ Top.elem # NULL
    BY <1>1, <1>6 DEF ObjectSep
  <2>2. \/ t = "," /\ Eat(t) /\ Turn([Top EXCEPT !.at = "comma"])
        \/ t \notin String /\ Keep(t) /\ Add("object-member")
        \/ Fail("MISSING_COMMA")
    BY <1>6 DEF ObjectSep
  <2>3. CASE t = "," /\ Eat(t) /\ Turn([Top EXCEPT !.at = "comma"])
    <3>1. PICK f : f = [Top EXCEPT !.at = "comma"]
      OBVIOUS
    <3>2. ReadsOn(f) /\ f.kind = Top.kind /\ f.at = "comma" /\ f.name = Top.name
      BY <1>1, <2>1, <3>1 DEF ReadsOn, Frames
    <3>3. IsComma(t) /\ t # "EOF" /\ Eat(t) /\ Turn(f)
      BY <2>3, <3>1, Brackets, Zenon
    <3>5. \A u, h, v : ReadsTop(u, Top, h, v, Consumed, look) /\ u[Consumed + 1] = t
                         => ReadsTop(u, f, h, v, Consumed + 1, NULL)
      BY <1>2a, <2>1, <3>2, <3>3, CommaTurns
    <3> QED BY <3>2, <3>3, <3>5, TurnCarries
  <2>4. CASE t \notin String /\ Keep(t) /\ Add("object-member")
    <3>1. T!Past(Top.kind) = <<"object-member">> /\ ~ Leads(Top.kind, t)
      BY <2>0, <2>4, Brackets, Zenon
    <3> QED BY <2>1, <2>4, <3>1, AddCarries, Zenon
  <2> QED BY <1>2, <2>2, <2>3, <2>4
<1>7. CASE ObjectComma(t)
  <2>0. Top.kind = "{" /\ Top.at = "comma" /\ Keep(t)
    BY <1>7, Zenon DEF ObjectComma
  <2>1. Top.elem # NULL
    BY <1>1, <1>7 DEF ObjectComma
  <2>2. (t # "}" /\ Add("object-member")) \/ Fail("TRAILING_COMMA")
    BY <1>7 DEF ObjectComma
  <2>3. CASE t # "}" /\ Add("object-member")
    <3>1. T!Past(Top.kind) = <<"object-member">> /\ t # T!Closing(Top.kind)
      BY <2>0, <2>3, Brackets, Zenon
    <3> QED BY <2>0, <2>1, <2>3, <3>1, AddCarries, Zenon
  <2> QED BY <1>2, <2>2, <2>3
<1> QED BY <1>3, <1>4, <1>5, <1>6, <1>7
-----------------------------------------------------------------------------
(* A load without an error or an assignment has read what it has consumed. *)
Understands ==
  Clean =>
    /\ state \in {"statement", "after"} => look = NULL
    /\ multi /\ frames = <<>> => Len(nodes[root].items) >= 2
    /\ Known

More == Peeked /\ Going /\ OneRoot /\ Understands /\ Understood
UInv == IInv /\ More

(* Of a load that runs, or has failed, nothing is said.                    *)
LEMMA NotDone ==
  ASSUME state' # "idle" \/ text' = <<>> \/ result' # TRUE
  PROVE  Understood'
BY DEF Understood, Plain

(* The statement is refused.                                               *)
LEMMA FailMore ==
  ASSUME IInv, More, Fails, state # "idle", Peeked', Spoken => Spoken', strict' = strict
  PROVE  More'
<1>1. PICK c \in Codes : Fail(c)
  BY DEF Fails
<1>2. c # "ok"
  BY DEF Codes
<1>3. /\ state' = "after" /\ frames' = <<>> /\ outcome' = c /\ UNCHANGED <<root, multi, vars>>
  BY <1>1 DEF Fail, Finish, Tree
<1>4. Going'
  BY <1>3 DEF More, Going
<1>5. OneRoot'
  BY <1>3 DEF More, OneRoot
<1>6. Understands'
  BY <1>2, <1>3 DEF Understands, Clean
<1> QED BY <1>3, <1>4, <1>5, <1>6, NotDone DEF More

(* A step inside a container.                                              *)
LEMMA CarriesMore ==
  ASSUME IInv, More, IInv', Carries, state = "inside", Peeked', Spoken => Spoken',
         strict' = strict
  PROVE  More'
<1>1. CASE Fails
  BY <1>1, FailMore
<1>2. frames # <<>> /\ (state' = "inside" => frames' # <<>>)
      /\ (state = "inside" => outcome = "ok")
  BY DEF IInv, Settled, More, Going
<1>3. CASE Stays
  <2>1. UNCHANGED <<state, vars, outcome, root, multi>> /\ (Known => Known')
    BY <1>3 DEF Stays
  <2>2. Going'
    BY <2>1 DEF More, Going
  <2>3. OneRoot'
    BY <1>2, <2>1 DEF More, OneRoot
  <2>4. Understands'
    BY <1>2, <2>1 DEF More, Understands, Clean
  <2> QED BY <2>1, <2>2, <2>3, <2>4, NotDone DEF More
<1>4. CASE Ends
  <2>1. /\ state' = "after" /\ outcome' = "ok" /\ look' = NULL
        /\ frames' = <<>> /\ UNCHANGED <<vars, multi>>
        /\ Known => Known' /\ (multi' => Len(nodes'[root'].items) >= 2)
    BY <1>4 DEF Ends
  <2>2. Going'
    BY <2>1 DEF More, Going
  <2>3. OneRoot'
    BY <1>2, <2>1 DEF More, OneRoot
  <2>4. Understands'
    BY <1>2, <2>1 DEF More, Understands, Clean
  <2> QED BY <2>1, <2>2, <2>3, <2>4, NotDone DEF More
<1> QED BY <1>1, <1>3, <1>4 DEF Carries

(* json_parse_array, json_parse_object.                                    *)
LEMMA InsideMore ==
  ASSUME IInv, More, IInv', Inside
  PROVE  More'
<1>1. state = "inside" /\ Same /\ strict' = strict
  BY DEF Inside, Same
<1>2. PICK t \in Token :
        /\ See(t)
        /\ \/ ArrayNext(t) \/ ArraySep(t) \/ ArrayComma(t)
           \/ ObjectNext(t) \/ ObjectColon(t) \/ ObjectValue(t)
           \/ ObjectSep(t) \/ ObjectComma(t)
  BY DEF Inside
<1>3. Carries
  BY <1>1, <1>2, ArrayCarries, ObjectCarries DEF IInv, More
<1>4. Keep(t) \/ Eat(t)
  BY <1>2 DEF ArrayNext, ArraySep, ArrayComma, ObjectNext, ObjectColon, ObjectValue, ObjectSep,
              ObjectComma, Open, Begin, Close, Value
<1>5. Peeked' /\ (Spoken => Spoken')
  BY <1>2, <1>4, StillPeeked, StillSpoken DEF IInv, More
<1> QED BY <1>1, <1>3, <1>5, CarriesMore

(* json_parse_statement, at its first token                                *)
LEMMA OpenStatementMore ==
  ASSUME IInv, More, IInv', state = "statement", NEW t \in Token, See(t), OpenStatement(t),
         Peeked', Spoken => Spoken', strict' = strict
  PROVE  More'
<1>0. /\ frames = <<>> /\ Good /\ Heard /\ Peeked /\ t \in Opening /\ t # "EOF"
      /\ multi \in BOOLEAN /\ outcome = "ok" /\ (multi => root # NULL) /\ (strict => ~ multi)
  BY Ordinary DEF IInv, Good, Settled, Typed, OpenStatement, More, Going, OneRoot
<1>1. CASE Fail("INVALID_STRUCTURE") \/ Fail("NESTING")
  <2>1. Fails
    BY <1>1 DEF Fails, Codes
  <2> QED BY <2>1, FailMore
<1>2. CASE ~ (Fail("INVALID_STRUCTURE") \/ Fail("NESTING"))
  <2>1. /\ IF Extra /\ ~ multi
           THEN root' = Len(nodes) + 1 /\ Begin(t, MultiRoot)
           ELSE Begin(t, nodes) /\ UNCHANGED root
        /\ multi' = (multi \/ Extra) /\ state' = "inside" /\ UNCHANGED <<vars, outcome>>
        /\ ~ (strict /\ Extra)
    BY <1>2 DEF OpenStatement
  <2>2. ASSUME Known PROVE Known'
    <3>1. PICK w, g, v, p : Reads(w, g, v, p)
      BY <2>2 DEF Known
    <3>2. CASE Extra /\ ~ multi
      <4>1. root # NULL /\ root' = New /\ multi' = TRUE /\ Begin(t, MultiRoot)
        BY <2>1, <3>2 DEF Extra, New
      <4> QED BY <1>0, <3>1, <3>2, <4>1, OpenMoreReads
    <3>3. CASE ~ (Extra /\ ~ multi)
      <4>1. Begin(t, nodes) /\ root' = root /\ multi' = multi
        BY <1>0, <2>1, <3>3 DEF Extra
      <4> QED BY <1>0, <3>1, <4>1, OpenReads
    <3> QED BY <3>2, <3>3
  <2>3. Going'
    BY <1>0, <2>1 DEF More, Going
  <2>4. OneRoot'
    <3>1. ~ multi' => root' = NULL
      BY <1>0, <2>1 DEF Extra
    <3>2. strict' => ~ multi'
      BY <1>0, <2>1
    <3> QED BY <3>1, <3>2 DEF OneRoot
  <2>5. Understands'
    <3>1. frames' # <<>>
      BY <2>1 DEF IInv, Settled
    <3>2. Clean' => Clean
      BY <1>0 DEF Clean
    <3> QED BY <2>1, <2>2, <3>1, <3>2 DEF More, Understands
  <2> QED BY <2>1, <2>3, <2>4, <2>5, NotDone DEF More
<1> QED BY <1>1, <1>2

(* ... which is a value without brackets.                                  *)
LEMMA ValueStatementMore ==
  ASSUME IInv, More, IInv', state = "statement", NEW t \in Token, See(t), ValueStatement(t),
         Peeked', Spoken => Spoken', strict' = strict
  PROVE  More'
<1>0. frames = <<>> /\ Good /\ Heard /\ Peeked /\ (multi => root # NULL) /\ outcome = "ok"
      /\ multi \in BOOLEAN
  BY DEF IInv, Settled, More, Going, Good, Typed
<1>1. CASE Fail("INVALID_BAREWORD")
  <2>1. Fails
    BY <1>1 DEF Fails, Codes
  <2> QED BY <2>1, FailMore
<1>2. CASE ~ Fail("INVALID_BAREWORD")
  <2>1. /\ root = NULL /\ t \in Scalar /\ nodes' = Append(nodes, Leaf(t)) /\ root' = New
        /\ outcome' = "ok" /\ state' = "after" /\ frames' = <<>> /\ UNCHANGED <<vars, multi>>
        /\ Eat(t) /\ Quiet
    BY <1>2 DEF ValueStatement, Extra, Finish, New
  <2>2. ~ multi /\ t # "EOF"
    BY <1>0, <2>1, Ordinary
  <2>3. look' = NULL
    BY <2>1, <2>2 DEF Eat
  <2>4. ASSUME Known PROVE Known'
    <3>1. PICK w, g, v, p : Reads(w, g, v, p)
      BY <2>4 DEF Known
    <3>2. multi' = multi
      BY <2>1
    <3> QED BY <1>0, <2>1, <2>2, <3>1, <3>2, ValueReads
  <2>5. Going'
    BY <2>1 DEF More, Going
  <2>6. OneRoot'
    BY <2>1, <2>2 DEF OneRoot
  <2>7. Understands'
    <3>1. Clean' => Clean
      BY <1>0 DEF Clean
    <3> QED BY <2>1, <2>2, <2>3, <2>4, <3>1 DEF More, Understands
  <2> QED BY <2>1, <2>5, <2>6, <2>7, NotDone DEF More
<1> QED BY <1>1, <1>2

(* json_parse_statement, with "var"                                        *)
LEMMA AssignmentMore ==
  ASSUME IInv, More, state \in {"statement", "name", "equals"}, Peeked', Spoken',
         strict' = strict,
         \/ Fails
         \/ /\ state' \in {"name", "equals", "statement"}
            /\ UNCHANGED <<frames, outcome, root, multi>>
  PROVE  More'
<1>1. CASE Fails
  BY <1>1, FailMore
<1>2. CASE /\ state' \in {"name", "equals", "statement"}
           /\ UNCHANGED <<frames, outcome, root, multi>>
  <2>1. Going'
    BY <1>2 DEF More, Going
  <2>2. OneRoot'
    BY <1>2 DEF More, OneRoot
  <2>3. Understands'
    BY DEF Understands, Clean
  <2> QED BY <1>2, <2>1, <2>2, <2>3, NotDone DEF More
<1> QED BY <1>1, <1>2

(* What the text denotes is the tree there is.                             *)
LEMMA DocumentIs ==
  ASSUME Typed, multi => Len(nodes[root].items) >= 2,
         NEW w, OnlyShape(nodes, w), NEW l, l.items = TopItems(nodes, root, multi, w)
  PROVE  (IF root = NULL THEN NULL ELSE Shape[root]) = T!Document(l)
<1>1. Shape = w
  BY ShapeIs
<1>2. CASE root = NULL
  <2>1. l.items = <<>>
    BY <1>2 DEF TopItems
  <2> QED BY <1>2, <2>1, Zenon DEF T!Document
<1>3. CASE root # NULL /\ ~ multi
  <2>1. l.items = <<T!Item(NULL, w[root])>>
    BY <1>3 DEF TopItems
  <2>2. l.items # <<>> /\ Len(l.items) = 1 /\ l.items[1] = T!Item(NULL, w[root])
    BY <2>1
  <2>3. l.items[1].item = w[root]
    BY <2>2 DEF T!Item
  <2> QED BY <1>1, <1>3, <2>2, <2>3, Zenon DEF T!Document
<1>4. CASE root # NULL /\ multi
  <2>1. l.items = Shaped(nodes[root].items, w)
    BY <1>4 DEF TopItems
  <2>2. root \in DOMAIN nodes /\ nodes[root].kind = "["
    BY <1>4 DEF Typed
  <2>3. PICK s \in Seq(Slots) : s = nodes[root].items
    BY <2>2, Parts DEF Nodes
  <2>4. Len(l.items) = Len(s) /\ l.items # <<>>
    <3>1. PICK z : z = l.items
      OBVIOUS
    <3>2. z = [i \in 1 .. Len(s) |-> Slot(s[i].name, w[s[i].item])] /\ Len(s) \in Nat
      BY <2>1, <2>3, <3>1 DEF Shaped
    <3>3. Len(z) = Len(s)
      BY <3>2
    <3>4. z # <<>>
      <4>1. Len(s) >= 2
        BY <1>4, <2>3
      <4> QED BY <3>2, <3>3, <4>1
    <3> QED BY <3>1, <3>3, <3>4
  <2>5. Len(l.items) # 1
    <3>1. PICK k : k = Len(s)
      OBVIOUS
    <3>2. k \in Nat /\ k >= 2
      BY <1>4, <2>3, <3>1
    <3> QED BY <2>4, <3>1, <3>2
  <2>6. w[root] = [kind |-> nodes[root].kind, items |-> l.items]
    BY <2>1, <2>2, ShapeThere DEF ShapeIn
  <2> QED BY <1>1, <1>4, <2>2, <2>4, <2>5, <2>6, Zenon DEF T!Document
<1> QED BY <1>2, <1>3, <1>4

(* The load ends.                                                          *)
LEMMA EndUnderstood ==
  ASSUME IInv, More, Clean, state = "statement", See("EOF"),
         UNCHANGED <<root, multi, nodes, strict>>, signals' = Append(signals, "parse-end")
  PROVE  Understood'
<1>1. /\ Typed /\ frames = <<>> /\ look = NULL /\ text \in Seq(Token) /\ Known
      /\ (multi => root # NULL /\ Len(nodes[root].items) >= 2)
  BY DEF IInv, Good, Settled, Heard, More, Understands
<1>2. PICK w, g, v, p : Reads(w, g, v, p)
  BY <1>1 DEF Known
<1>3. text' = Append(text, "EOF") /\ ~ (strict /\ text = <<>>)
  BY <1>1 DEF See
<1>4. Whole' /\ Body' = text
  <2>1. PICK s \in Seq(Token) : s = text
    BY <1>1
  <2>2. PICK e \in Token : e = "EOF"
    BY DEF Token
  <2>3. Len(Append(s, e)) = Len(s) + 1 /\ Append(s, e)[Len(s) + 1] = e /\ Len(s) \in Nat
    BY Appended
  <2>4. Last(Append(s, e)) = e
    BY <2>3 DEF Last
  <2>5. Front(Append(s, e)) = s
    BY Shortened, <2>3 DEF Front
  <2> QED BY <1>3, <2>1, <2>2, <2>4, <2>5 DEF Whole, Body
<1>5. PICK l : l = p.list
  OBVIOUS
<1>6. l \in T!Texts(text, strict)
  <2>1. PICK n \in Nat : n = Len(text)
    BY <1>1
  <2>2. Consumed = n
    BY <1>1, <2>1 DEF Consumed
  <2>3. Goes(text)
    BY <1>1, <2>1, <2>2 DEF Goes, Extends
  <2>4. ReadsText(text, frames, g, v, p, Consumed, look, strict)
    BY <1>2, <2>3 DEF Reads, Reading
  <2>5. l \in T!Prefixes(text, strict)[n]
    BY <1>1, <1>5, <2>2, <2>4 DEF ReadsText
  <2> QED BY <1>3, <2>1, <2>5 DEF T!Texts
<1>7. (IF root = NULL THEN NULL ELSE Shape[root]) = T!Document(l)
  BY <1>1, <1>2, <1>5, DocumentIs DEF Reads, Trees
<1>8. signals' = Start \o l.said \o <<"parse-end">>
  <2>1. signals = Start \o l.said /\ l.said \in Seq(Sound)
    BY <1>1, <1>2, <1>5 DEF Reads, Sounds
  <2>2. PICK e \in Sound : e = "parse-end"
    BY DEF Sound
  <2>3. Start \o l.said \in Seq(Sound)
    BY <2>1, Joined
  <2>4. Append(Start \o l.said, e) = (Start \o l.said) \o <<e>>
    BY <2>3, OneSound
  <2> QED BY <2>1, <2>2, <2>4
<1>9. Shape' = Shape
  BY DEF Shape, ShapeOf
<1>10. (IF root' = NULL THEN NULL ELSE Shape'[root']) = T!Document(l)
  BY <1>7, <1>9
<1>11. l \in T!Texts(Body', strict')
  BY <1>4, <1>6
<1> QED BY <1>4, <1>8, <1>10, <1>11 DEF Understood, Start

(* ... with the text.                                                      *)
LEMMA EndMore ==
  ASSUME IInv, More, state = "statement", See("EOF"), EndOfText("EOF"), Peeked', Spoken => Spoken'
  PROVE  More'
<1>1. /\ vars' = vars /\ vars = 0 /\ state' = "idle" /\ signals' = Append(signals, "parse-end")
      /\ UNCHANGED <<root, multi, nodes, strict, frames, outcome>>
  BY DEF EndOfText, Emit, Tree
<1>2. frames = <<>> /\ outcome = "ok"
  BY DEF IInv, Settled, More, Going
<1>3. Going' /\ OneRoot' /\ Understands'
  BY <1>1, <1>2 DEF Going, OneRoot, Understands, Clean
<1>4. Understood'
  <2>1. CASE Spoken
    BY <2>1 DEF Understood, Plain, Spoken
  <2>2. CASE ~ Spoken
    <3>1. Clean
      BY <1>2, <2>2 DEF Clean
    <3> QED BY <1>1, <3>1, EndUnderstood
  <2> QED BY <2>1, <2>2
<1> QED BY <1>3, <1>4 DEF More

(* json_parse_statement, at its first token.                               *)
LEMMA StatementMore ==
  ASSUME IInv, More, IInv', Statement
  PROVE  More'
<1>1. PICK t \in Token :
        /\ See(t)
        /\ \/ EndOfText(t)
           \/ Same /\ (\/ OpenStatement(t) \/ VarStatement(t)
                       \/ ValueStatement(t) \/ UnknownStatement(t))
  BY DEF Statement
<1>2. state = "statement"
  BY DEF Statement
<1>3. Keep(t) \/ Eat(t)
  BY <1>1 DEF EndOfText, OpenStatement, VarStatement, ValueStatement, UnknownStatement, Begin
<1>4. Peeked' /\ (Spoken => Spoken') /\ (t = "VAR" => Spoken')
  BY <1>1, <1>3, StillPeeked, StillSpoken DEF IInv, More
<1>5. CASE EndOfText(t)
  <2>1. t = "EOF"
    BY <1>5 DEF EndOfText
  <2> QED BY <1>1, <1>2, <1>4, <1>5, <2>1, EndMore
<1>6. CASE Same /\ OpenStatement(t)
  BY <1>1, <1>2, <1>4, <1>6, OpenStatementMore DEF Same
<1>7. CASE Same /\ VarStatement(t)
  <2>1. t = "VAR" /\ strict' = strict
    BY <1>7 DEF VarStatement, Same
  <2>2. Fails \/ (state' = "name" /\ UNCHANGED <<frames, outcome, root, multi>>)
    BY <1>7 DEF VarStatement, Fails, Codes, Tree
  <2> QED BY <1>2, <1>4, <2>1, <2>2, AssignmentMore
<1>8. CASE Same /\ ValueStatement(t)
  BY <1>1, <1>2, <1>4, <1>8, ValueStatementMore DEF Same
<1>9. CASE Same /\ UnknownStatement(t)
  <2>1. Fails /\ strict' = strict
    BY <1>9 DEF UnknownStatement, Fails, Codes, Same
  <2> QED BY <1>2, <1>4, <2>1, FailMore
<1> QED BY <1>1, <1>5, <1>6, <1>7, <1>8, <1>9

(* ... which has a name and a sign.                                        *)
LEMMA NamedMore ==
  ASSUME IInv, More, VariableName \/ EqualsSign
  PROVE  More'
<1>1. PICK t \in Token :
        /\ See(t) /\ Eat(t)
        /\ \/ Fail("INVALID_BAREWORD")
           \/ state' \in {"equals", "statement"} /\ UNCHANGED <<frames, outcome, root, multi>>
  BY DEF VariableName, EqualsSign, Tree
<1>2. state \in {"name", "equals"} /\ strict' = strict
  BY DEF VariableName, EqualsSign, Same
<1>3. Peeked' /\ Spoken'
  BY <1>1, <1>2, StillPeeked, StillSpoken DEF IInv, More, Going
<1>4. Fail("INVALID_BAREWORD") => Fails
  BY DEF Fails, Codes
<1> QED BY <1>1, <1>2, <1>3, <1>4, AssignmentMore

(* ... and after a statement                                               *)
LEMMA AfterMore ==
  ASSUME IInv, More, IInv', Semicolon \/ NextStatement \/ Stop
  PROVE  More'
<1>0. /\ state = "after" /\ frames = <<>> /\ vars \in Nat
      /\ UNCHANGED <<strict, nodes, root, multi, frames>>
  BY DEF Semicolon, NextStatement, Stop, IInv, Settled, Same, Tree
<1>1. OneRoot'
  BY <1>0 DEF More, OneRoot
<1>2. CASE Semicolon
  <2>1. PICK t \in Token : See(t) /\ (Keep(t) \/ Eat(t))
    BY <1>2 DEF Semicolon
  <2>2. state' = "after" /\ vars # 0
    <3>1. state' = state /\ vars > 0
      BY <1>2 DEF Semicolon
    <3> QED BY <1>0, <3>1
  <2>3. Peeked' /\ Spoken'
    BY <2>1, <2>2, StillPeeked, StillSpoken DEF IInv, More, Going
  <2>4. Going' /\ Understands'
    BY <2>2, <2>3 DEF Going, Understands, Clean
  <2> QED BY <1>1, <2>2, <2>3, <2>4, NotDone DEF More
<1>3. CASE NextStatement
  <2>1. /\ vars = 0 /\ outcome = "ok" /\ state' = "statement"
        /\ UNCHANGED <<vars, outcome, look, text, signals>>
    BY <1>3 DEF NextStatement
  <2>2. Peeked' /\ Going'
    BY <2>1 DEF More, Peeked, Going
  <2>3. Understands'
    <3>1. Clean' => Clean
      BY <1>0, <2>1 DEF Clean, Spoken
    <3>2. Known => Known'
      BY <1>0, <2>1, SameReads
    <3> QED BY <1>0, <2>1, <3>1, <3>2 DEF More, Understands
  <2> QED BY <1>1, <2>1, <2>2, <2>3, NotDone DEF More
<1>4. CASE Stop
  <2>1. /\ vars = 0 /\ state' = "idle" /\ result' = FALSE
        /\ UNCHANGED <<vars, outcome, look, text>>
    BY <1>4 DEF Stop
  <2>2. Peeked' /\ Going' /\ Understands'
    BY <2>1 DEF More, Peeked, Going, Understands, Clean
  <2> QED BY <1>1, <2>1, <2>2, NotDone DEF More
<1> QED BY <1>2, <1>3, <1>4

(* Between loads                                                           *)
LEMMA IdleMore ==
  ASSUME IInv, More, Load \/ LoadRefused \/ SetStrict \/ StealRoot
  PROVE  More'
<1>0. state = "idle" /\ frames = <<>> /\ vars = 0
  BY DEF Load, LoadRefused, SetStrict, StealRoot, IInv, Settled, More, Going
<1>1. frames' = <<>> /\ text' = <<>> /\ look' = NULL /\ outcome' = "ok" /\ vars' = 0
  BY <1>0 DEF Load, LoadRefused, SetStrict, StealRoot, Forget
<1>2. Peeked' /\ Understood'
  BY <1>1, NotDone DEF Peeked
<1>3. CASE Load
  <2>1. state' = "statement" /\ root' = NULL /\ multi' = FALSE /\ nodes' = <<>>
        /\ signals' = Start
    BY <1>3 DEF Load, Clear, Start
  <2>2. Going' /\ OneRoot'
    BY <1>1, <2>1 DEF Going, OneRoot
  <2>3. Known'
    BY <1>1, <2>1, FirstReads
  <2>4. Understands'
    BY <1>1, <2>1, <2>3 DEF Understands
  <2> QED BY <1>2, <2>2, <2>4 DEF More
<1>4. CASE LoadRefused \/ SetStrict \/ StealRoot
  <2>1. state' = "idle"
    BY <1>0, <1>4 DEF LoadRefused, SetStrict, StealRoot, Forget
  <2>2. Going' /\ OneRoot' /\ Understands'
    BY <1>1, <2>1 DEF Going, OneRoot, Understands, Clean
  <2> QED BY <1>2, <2>2 DEF More
<1> QED BY <1>3, <1>4

(* Nothing has been loaded.                                                *)
LEMMA InitMore ==
  ASSUME Init
  PROVE  More
<1>1. /\ state = "idle" /\ vars = 0 /\ frames = <<>> /\ look = NULL /\ text = <<>>
      /\ outcome = "ok"
  BY DEF Init
<1> QED BY <1>1 DEF More, Peeked, Going, OneRoot, Understands, Clean, Understood, Plain

(* Every step leaves the parser with what it has understood.               *)
LEMMA MoreStep ==
  ASSUME UInv, [Next]_all
  PROVE  UInv'
<1>0. IInv /\ More /\ IInv'
  BY NextStep DEF UInv
<1>1. CASE Load \/ LoadRefused \/ SetStrict \/ StealRoot
  BY <1>0, <1>1, IdleMore DEF UInv
<1>2. CASE Statement
  BY <1>0, <1>2, StatementMore DEF UInv
<1>3. CASE VariableName \/ EqualsSign
  BY <1>0, <1>3, NamedMore DEF UInv
<1>4. CASE Semicolon \/ NextStatement \/ Stop
  BY <1>0, <1>4, AfterMore DEF UInv
<1>5. CASE Inside
  BY <1>0, <1>5, InsideMore DEF UInv
<1>6. CASE UNCHANGED all
  <2>1. UNCHANGED <<strict, nodes, frames, root, multi, state, vars, outcome, look, text, signals, result>>
    BY <1>6 DEF all, parse
  <2>2. Peeked' /\ Going' /\ OneRoot'
    BY <1>0, <2>1 DEF More, Peeked, Going, OneRoot, Spoken
  <2>3. Understands'
    <3>1. (Clean' => Clean) /\ (Known => Known')
      BY <2>1, SameReads DEF Clean, Spoken
    <3> QED BY <1>0, <2>1, <3>1 DEF More, Understands
  <2>4. Understood'
    <3>1. Shape' = Shape
      BY <2>1 DEF Shape, ShapeOf
    <3> QED BY <1>0, <2>1, <3>1 DEF More, Understood, Plain, Whole, Body
  <2> QED BY <1>0, <2>2, <2>3, <2>4 DEF More, UInv
<1> QED BY <1>1, <1>2, <1>3, <1>4, <1>5, <1>6 DEF Next, Parsing

(* A load that succeeds, with no assignment in its text, has read the      *)
(* whole text, and a text of the language: what json_parser_get_root then  *)
(* gives is the tree it denotes, to the order of the members and the last  *)
(* of several with one name, and each signal came when the text had come   *)
(* to what it announces.                                                   *)
THEOREM ReadRight == Spec => []Understood
<1>1. Init => UInv
  BY InitStep, InitMore DEF UInv
<1>2. UInv /\ [Next]_all => UInv'
  BY MoreStep
<1>3. UInv => Understood
  BY DEF UInv, More
<1> QED BY <1>1, <1>2, <1>3, PTL DEF Spec

-----------------------------------------------------------------------------
(* A part is there whatever is before it.                                  *)
LEMMA PartIs ==
  ASSUME NEW t, NEW c, NEW i, NEW j, NEW before
  PROVE  /\ T!PartIn(t, c, i, j)
              <=> T!Begun(t, c, i, j) /\ T!Readings(t, T!ValueAt(c, i), j) # {}
         /\ T!Parts(t, c, i, j, before, T!Lists(t)) # {} <=> T!PartIn(t, c, i, j)
<1>1. ASSUME NEW b
      PROVE  T!Parts(t, c, i, j, b, T!Lists(t)) # {}
               <=> T!Begun(t, c, i, j) /\ T!Readings(t, T!ValueAt(c, i), j) # {}
  <2>1. CASE ~ T!Begun(t, c, i, j)
    BY <2>1 DEF T!Parts
  <2>2. CASE T!Begun(t, c, i, j)
    <3>1. T!Parts(t, c, i, j, b, T!Lists(t))
            = {T!Longer(b, T!NameAt(t, c, i), v, T!Past(c)) : v \in T!Readings(t, T!ValueAt(c, i), j)}
      BY <2>2 DEF T!Parts, T!Readings
    <3> QED BY <2>2, <3>1
  <2> QED BY <2>1, <2>2
<1> QED BY <1>1 DEF T!PartIn

(* There is a list: a part, or a list, a comma and a part.                 *)
LEMMA ListIs ==
  ASSUME NEW t, NEW n \in Nat, Len(t) = n, NEW c \in T!Opening, NEW i \in 1 .. n,
         NEW j \in 1 .. n, i <= j
  PROVE  T!Lists(t)[<<c, i, j>>] # {}
           <=> \/ T!PartIn(t, c, i, j)
               \/ \E k \in T!Commas(t, i + 1, j - 1) :
                    T!Lists(t)[<<c, i, k - 1>>] # {} /\ T!PartIn(t, c, k + 1, j)
<1> DEFINE Ps(k, l) == T!Parts(t, c, k + 1, j, l, T!Lists(t))
           After(k) == UNION {Ps(k, l) : l \in T!Lists(t)[<<c, i, k - 1>>]}
<1>1. <<c, i, j>> \in T!Spans(t)
  BY SpanIs
<1>2. PICK s \in T!Spans(t) : s = <<c, i, j>>
  BY <1>1
<1>3. T!Lists(t)[s] = T!ListsIn(t, s[1], s[2], s[3], T!Lists(t))
  BY ListsAre
<1>4. T!Lists(t)[<<c, i, j>>] = T!ListsIn(t, c, i, j, T!Lists(t))
  BY <1>2, <1>3
<1>5. T!ListsIn(t, c, i, j, T!Lists(t))
        = T!Parts(t, c, i, j, T!Nothing, T!Lists(t))
          \cup UNION {After(k) : k \in T!Commas(t, i + 1, j - 1)}
  BY DEF T!ListsIn
<1>6. \A k, l : Ps(k, l) # {} <=> T!PartIn(t, c, k + 1, j)
  BY PartIs
<1>7. T!Parts(t, c, i, j, T!Nothing, T!Lists(t)) # {} <=> T!PartIn(t, c, i, j)
  BY PartIs
<1> HIDE DEF Ps
<1>8. \A k : After(k) # {} <=> T!Lists(t)[<<c, i, k - 1>>] # {} /\ T!PartIn(t, c, k + 1, j)
  <2> SUFFICES ASSUME NEW k
               PROVE  After(k) # {} <=> T!Lists(t)[<<c, i, k - 1>>] # {} /\ T!PartIn(t, c, k + 1, j)
    OBVIOUS
  <2>1. PICK L : L = T!Lists(t)[<<c, i, k - 1>>]
    OBVIOUS
  <2>2. After(k) = UNION {Ps(k, l) : l \in L}
    BY <2>1
  <2>3. After(k) # {} <=> \E l \in L : Ps(k, l) # {}
    BY <2>2
  <2> QED BY <1>6, <2>1, <2>3
<1> HIDE DEF After
<1>9. PICK A, K : A = T!Parts(t, c, i, j, T!Nothing, T!Lists(t)) /\ K = T!Commas(t, i + 1, j - 1)
  OBVIOUS
<1>10. T!Lists(t)[<<c, i, j>>] # {} <=> A # {} \/ \E k \in K : After(k) # {}
  <2>1. PICK U : U = {After(k) : k \in K}
    OBVIOUS
  <2>2. T!Lists(t)[<<c, i, j>>] = A \cup UNION U
    BY <1>4, <1>5, <1>9, <2>1
  <2>3. UNION U # {} <=> \E k \in K : After(k) # {}
    BY <2>1
  <2> QED BY <2>2, <2>3
<1> QED BY <1>7, <1>8, <1>9, <1>10

(* A list also is a part, or a part, a comma and a list.                   *)
Beheaded(t, c, i, j) ==
  \/ T!PartIn(t, c, i, j)
  \/ \E k \in T!Commas(t, i + 1, j - 1) :
       T!PartIn(t, c, i, k - 1) /\ T!Lists(t)[<<c, k + 1, j>>] # {}

(* Every list can be taken apart that way.                                 *)
LEMMA ListBeheaded ==
  ASSUME NEW t, NEW n \in Nat, Len(t) = n, NEW c \in T!Opening, NEW i \in 1 .. n,
         NEW j \in 1 .. n, i <= j, T!Lists(t)[<<c, i, j>>] # {}
  PROVE  Beheaded(t, c, i, j)
<1> DEFINE L(a, b) == T!Lists(t)[<<c, a, b>>] # {}
           Headed(a, b) == \/ T!PartIn(t, c, a, b)
                           \/ \E k \in T!Commas(t, a + 1, b - 1) : T!PartIn(t, c, a, k - 1) /\ L(k + 1, b)
           Bad == {d \in Nat : \E b \in i .. n : b - i = d /\ L(i, b) /\ ~ Headed(i, b)}
<1>1. ASSUME NEW a \in 1 .. n, NEW b \in 1 .. n, a <= b
      PROVE  L(a, b) <=> \/ T!PartIn(t, c, a, b)
                         \/ \E k \in T!Commas(t, a + 1, b - 1) : L(a, k - 1) /\ T!PartIn(t, c, k + 1, b)
  BY <1>1, ListIs
<1> SUFFICES ASSUME ~ Headed(i, j) PROVE FALSE
  BY DEF Beheaded
<1> HIDE DEF L
<1>2. Bad \in SUBSET Nat /\ Bad # {}
  <2>1. j - i \in Nat /\ j \in i .. n /\ L(i, j)
    BY DEF L
  <2> QED BY <2>1
<1>3. PICK d \in Bad : \A e \in Bad : d <= e
  <2> HIDE DEF Bad
  <2> QED BY <1>2, Least
<1>4. PICK b \in i .. n : b - i = d /\ L(i, b) /\ ~ Headed(i, b)
  BY <1>3
<1>0. \A e \in i .. n : L(i, e) /\ ~ Headed(i, e) => e - i \in Bad
  OBVIOUS
<1> HIDE DEF Bad
<1>5. ~ T!PartIn(t, c, i, b)
  BY <1>4
<1>6. PICK k \in T!Commas(t, i + 1, b - 1) : L(i, k - 1) /\ T!PartIn(t, c, k + 1, b)
  <2>1. b \in 1 .. n /\ i <= b
    OBVIOUS
  <2> QED BY <1>1, <1>4, <1>5, <2>1
<1>7. k \in i + 1 .. b - 1
  BY CommaIs
<1>8. L(k + 1, b)
  <2>1. k + 1 \in 1 .. n /\ b \in 1 .. n /\ k + 1 <= b
    BY <1>7
  <2> QED BY <1>1, <1>6, <2>1
<1>9. Headed(i, k - 1)
  <2>1. k - 1 \in i .. n /\ ~ (d <= (k - 1) - i)
    BY <1>4, <1>7
  <2>2. (k - 1) - i \notin Bad
    BY <1>3, <2>1
  <2> HIDE DEF Headed
  <2> QED BY <1>0, <1>6, <2>1, <2>2
<1>10. CASE T!PartIn(t, c, i, k - 1)
  BY <1>4, <1>6, <1>8, <1>10
<1>11. ASSUME NEW h \in T!Commas(t, i + 1, (k - 1) - 1), T!PartIn(t, c, i, h - 1), L(h + 1, k - 1)
       PROVE  FALSE
  <2>1. h \in i + 1 .. (k - 1) - 1
    BY CommaIs
  <2>2. h + 1 \in 1 .. n /\ b \in 1 .. n /\ h + 1 <= b
    BY <1>7, <2>1
  <2>3. k \in T!Commas(t, (h + 1) + 1, b - 1)
    <3>1. k \in (h + 1) + 1 .. b - 1
      BY <1>7, <2>1
    <3>2. t[k] = ","
      BY <1>6 DEF T!Commas
    <3> QED BY <3>1, <3>2 DEF T!Commas
  <2>4. L(h + 1, b)
    BY <1>1, <1>6, <1>11, <2>2, <2>3
  <2>5. h \in T!Commas(t, i + 1, b - 1)
    <3>1. h \in i + 1 .. b - 1
      BY <1>7, <2>1
    <3>2. t[h] = ","
      BY <1>11 DEF T!Commas
    <3> QED BY <3>1, <3>2 DEF T!Commas
  <2> QED BY <1>4, <1>11, <2>4, <2>5
<1> QED BY <1>9, <1>10, <1>11

-----------------------------------------------------------------------------
(* What begins at a place looks behind it only.                            *)
LEMMA BeginsLook ==
  ASSUME NEW t, NEW n \in Nat, Len(t) = n, NEW f, NEW g, NEW i \in 1 .. n + 1,
         \A k \in i + 1 .. n + 1 : g[k] = f[k]
  PROVE  T!Begins(t, i, g) <=> T!Begins(t, i, f)
<1>1. CASE i = n + 1
  BY <1>1 DEF T!Begins
<1>2. CASE i # n + 1
  <2>1. i + 1 \in i + 1 .. n + 1
    BY <1>2
  <2>2. g[i + 1] = f[i + 1]
    BY <2>1
  <2> QED BY <2>2 DEF T!Begins
<1> QED BY <1>1, <1>2

(* ... and a part that begins there too                                    *)
LEMMA BeginsPartLook ==
  ASSUME NEW t, NEW n \in Nat, Len(t) = n, NEW f, NEW g, NEW c, NEW i \in 1 .. n + 1,
         \A k \in i + 1 .. n + 1 : g[k] = f[k]
  PROVE  T!BeginsPart(t, c, i, g) <=> T!BeginsPart(t, c, i, f)
<1>1. T!Begins(t, i, g) <=> T!Begins(t, i, f)
  BY BeginsLook
<1>2. ASSUME i < n PROVE T!Begins(t, i + 2, g) <=> T!Begins(t, i + 2, f)
  <2>1. i + 2 \in 1 .. n + 1 /\ \A k \in (i + 2) + 1 .. n + 1 : k \in i + 1 .. n + 1
    BY <1>2
  <2> QED BY <2>1, BeginsLook
<1> QED BY <1>1, <1>2 DEF T!BeginsPart

(* ... and so each entry of the table of unclosed lists.                   *)
LEMMA UnclosedLook ==
  ASSUME NEW t, NEW n \in Nat, Len(t) = n, NEW f, NEW g, NEW i \in 1 .. n + 1,
         \A k \in i + 1 .. n + 1 : g[k] = f[k]
  PROVE  T!UnclosedAt(t, i, g) = T!UnclosedAt(t, i, f)
<1>1. ASSUME NEW c PROVE T!BeginsPart(t, c, i, g) <=> T!BeginsPart(t, c, i, f)
  BY BeginsPartLook
<1>2. ASSUME NEW k \in T!Commas(t, i + 1, n) PROVE g[k + 1] = f[k + 1]
  <2>1. k \in i + 1 .. n
    BY CommaIs
  <2>2. k + 1 \in i + 1 .. n + 1
    BY <2>1
  <2> QED BY <2>2
<1> QED BY <1>1, <1>2 DEF T!UnclosedAt

(* The table of unclosed lists solves its equation.                        *)
LEMMA UnclosedAre ==
  ASSUME NEW t, NEW n \in Nat, Len(t) = n
  PROVE  T!Unclosed(t) = [i \in 1 .. n + 1 |-> T!UnclosedAt(t, i, T!Unclosed(t))]
<1> DEFINE Solves(d, f) ==
             /\ f = [i \in 1 .. n + 1 |-> f[i]]
             /\ \A i \in 1 .. n + 1 : (n + 1) - i < d => f[i] = T!UnclosedAt(t, i, f)
           Solved == {d \in Nat : \E f : Solves(d, f)}
<1>1. 0 \in Solved
  <2>1. Solves(0, [i \in 1 .. n + 1 |-> {}])
    OBVIOUS
  <2> HIDE DEF Solves
  <2> QED BY <2>1
<1>2. ASSUME NEW d \in Solved PROVE d + 1 \in Solved
  <2>1. PICK f : Solves(d, f)
    BY <1>2
  <2>2. d \in Nat
    BY <1>2
  <2> DEFINE g == [i \in 1 .. n + 1 |-> IF (n + 1) - i = d THEN T!UnclosedAt(t, i, f) ELSE f[i]]
  <2>3. ASSUME NEW i \in 1 .. n + 1, (n + 1) - i < d + 1 PROVE g[i] = T!UnclosedAt(t, i, g)
    <3>1. g[i] = T!UnclosedAt(t, i, f)
      <4>1. (n + 1) - i = d \/ (n + 1) - i < d
        BY <2>2, <2>3
      <4> QED BY <2>1, <4>1
    <3>2. \A k \in i + 1 .. n + 1 : g[k] = f[k]
      BY <2>2, <2>3
    <3> HIDE DEF g
    <3> QED BY <3>1, <3>2, UnclosedLook
  <2>4. g = [i \in 1 .. n + 1 |-> g[i]]
    OBVIOUS
  <2> HIDE DEF g
  <2>5. Solves(d + 1, g)
    BY <2>3, <2>4
  <2> QED BY <2>2, <2>5
<1>3. Solved = Nat
  <2> HIDE DEF Solved
  <2>1. Solved \in SUBSET Nat
    BY DEF Solved
  <2> QED BY <1>1, <1>2, <2>1, Upwards
<1>4. \E f : f = [i \in 1 .. n + 1 |-> T!UnclosedAt(t, i, f)]
  <2>0. n + 1 \in Solved
    <3> HIDE DEF Solved
    <3> QED BY <1>3
  <2>1. PICK f : Solves(n + 1, f)
    <3> HIDE DEF Solves
    <3> QED BY <2>0
  <2>2. \A i \in 1 .. n + 1 : (n + 1) - i < n + 1
    OBVIOUS
  <2>3. \A i \in 1 .. n + 1 : f[i] = T!UnclosedAt(t, i, f)
    BY <2>1, <2>2
  <2>4. f = [i \in 1 .. n + 1 |-> T!UnclosedAt(t, i, f)]
    BY <2>1, <2>3
  <2> QED BY <2>4
<1> QED BY <1>4 DEF T!Unclosed

(* A list begins: a part does, or a part and a comma come before one.      *)
LEMMA UnclosedIs ==
  ASSUME NEW t, NEW n \in Nat, Len(t) = n, NEW i \in 1 .. n + 1, NEW c
  PROVE  c \in T!Unclosed(t)[i]
           <=> /\ c \in T!Opening
               /\ \/ T!BeginsPart(t, c, i, T!Unclosed(t))
                  \/ \E k \in T!Commas(t, i + 1, n) :
                       T!PartIn(t, c, i, k - 1) /\ c \in T!Unclosed(t)[k + 1]
<1>1. T!Unclosed(t)[i] = T!UnclosedAt(t, i, T!Unclosed(t))
  BY UnclosedAre
<1> QED BY <1>1 DEF T!UnclosedAt

(* A list with a comma behind it begins if what is behind the comma does.  *)
LEMMA ListGoesOn ==
  ASSUME NEW t, NEW n \in Nat, Len(t) = n, NEW c \in T!Opening, NEW i \in 1 .. n,
         NEW q \in i .. n - 1, T!Lists(t)[<<c, i, q>>] # {}, IsComma(t[q + 1]),
         c \in T!Unclosed(t)[q + 2]
  PROVE  c \in T!Unclosed(t)[i]
<1> DEFINE L(a) == T!Lists(t)[<<c, a, q>>] # {}
           On(a) == c \in T!Unclosed(t)[a]
           Bad == {d \in Nat : \E a \in i .. q : q - a = d /\ L(a) /\ ~ On(a)}
<1> SUFFICES ASSUME ~ On(i) PROVE FALSE
  OBVIOUS
<1>0. i \in i .. q /\ q \in Nat /\ q < n
  OBVIOUS
<1>1. Bad \in SUBSET Nat /\ Bad # {}
  <2>1. q - i \in Nat /\ L(i)
    OBVIOUS
  <2> HIDE DEF L, On
  <2> QED BY <1>0, <2>1
<1>2. PICK d \in Bad : \A e \in Bad : d <= e
  <2> HIDE DEF Bad
  <2> QED BY <1>1, Least
<1>3. PICK a \in i .. q : q - a = d /\ L(a) /\ ~ On(a)
  BY <1>2
<1>10. \A e \in i .. q : L(e) /\ ~ On(e) => q - e \in Bad
  <2> HIDE DEF L, On
  <2> QED OBVIOUS
<1> HIDE DEF Bad
<1>4. a \in 1 .. n /\ a \in 1 .. n + 1 /\ q \in 1 .. n /\ a <= q
  BY <1>0
<1>5. ASSUME NEW k \in T!Commas(t, a + 1, n), T!PartIn(t, c, a, k - 1), On(k + 1)
      PROVE  FALSE
  BY <1>3, <1>4, <1>5, UnclosedIs
<1>6. q + 1 \in T!Commas(t, a + 1, n)
  <2>1. q + 1 \in a + 1 .. n
    BY <1>0, <1>4
  <2> QED BY <2>1 DEF T!Commas, IsComma
<1>7. CASE T!PartIn(t, c, a, q)
  <2>1. (q + 1) - 1 = q /\ (q + 1) + 1 = q + 2
    BY <1>0
  <2>2. T!PartIn(t, c, a, (q + 1) - 1) /\ On((q + 1) + 1)
    BY <1>7, <2>1
  <2> QED BY <1>5, <1>6, <2>2
<1>8. ASSUME NEW k \in T!Commas(t, a + 1, q - 1), T!PartIn(t, c, a, k - 1), L(k + 1)
      PROVE  FALSE
  <2>1. k \in a + 1 .. q - 1
    BY <1>4, CommaIs
  <2>2. k \in T!Commas(t, a + 1, n)
    <3>1. k \in a + 1 .. n
      BY <1>0, <2>1
    <3>2. t[k] = ","
      BY <1>8 DEF T!Commas
    <3> QED BY <3>1, <3>2 DEF T!Commas
  <2>3. ~ (d <= q - (k + 1)) /\ k + 1 \in i .. q
    BY <1>0, <1>3, <2>1
  <2>4. q - (k + 1) \notin Bad
    BY <1>2, <2>3
  <2>5. On(k + 1)
    <3> HIDE DEF L, On
    <3> QED BY <1>8, <1>10, <2>3, <2>4
  <2> QED BY <1>5, <1>8, <2>2, <2>5
<1>9. Beheaded(t, c, a, q)
  BY <1>3, <1>4, ListBeheaded
<1> QED BY <1>7, <1>8, <1>9 DEF Beheaded

(* A part that is at the end of a text begins there.                       *)
LEMMA PartGoesOut ==
  ASSUME NEW t, NEW n \in Nat, Len(t) = n, NEW c, NEW i \in 1 .. n, T!PartIn(t, c, i, n)
  PROVE  T!BeginsPart(t, c, i, T!Unclosed(t))
<1>1. T!Begun(t, c, i, n) /\ T!Readings(t, T!ValueAt(c, i), n) # {}
  BY PartIs
<1>2. CASE c = "["
  <2>1. T!Readings(t, i, n) # {}
    BY <1>1, <1>2 DEF T!ValueAt
  <2> QED BY <1>2, <2>1 DEF T!BeginsPart, T!Begins
<1>3. CASE c # "["
  <2>1. T!Readings(t, i + 2, n) # {} /\ i + 2 <= n /\ T!Named(t, i)
    BY <1>1, <1>3 DEF T!ValueAt, T!Begun
  <2>2. T!Begins(t, i + 2, T!Unclosed(t))
    BY <2>1 DEF T!Begins
  <2>3. i < n
    BY <2>1
  <2> QED BY <1>3, <2>1, <2>2, <2>3 DEF T!BeginsPart
<1> QED BY <1>2, <1>3

(* A list that is at the end of a text begins there.                       *)
LEMMA ListGoesOut ==
  ASSUME NEW t, NEW n \in Nat, Len(t) = n, NEW c \in T!Opening, NEW i \in 1 .. n,
         T!Lists(t)[<<c, i, n>>] # {}
  PROVE  c \in T!Unclosed(t)[i]
<1>1. CASE T!PartIn(t, c, i, n)
  <2>1. T!BeginsPart(t, c, i, T!Unclosed(t)) /\ i \in 1 .. n + 1
    BY <1>1, PartGoesOut
  <2> QED BY <2>1, UnclosedIs
<1>2. ASSUME NEW k \in T!Commas(t, i + 1, n - 1), T!Lists(t)[<<c, i, k - 1>>] # {},
             T!PartIn(t, c, k + 1, n)
      PROVE  c \in T!Unclosed(t)[i]
  <2>1. k \in i + 1 .. n - 1
    BY CommaIs
  <2>2. k + 1 \in 1 .. n /\ k + 1 \in 1 .. n + 1
    BY <2>1
  <2>3. c \in T!Unclosed(t)[k + 1]
    BY <1>2, <2>2, PartGoesOut, UnclosedIs
  <2>4. PICK q \in i .. n - 1 : q = k - 1 /\ q + 1 = k /\ q + 2 = k + 1
    BY <2>1
  <2>5. IsComma(t[k])
    BY <1>2 DEF T!Commas, IsComma
  <2>6. T!Lists(t)[<<c, i, q>>] # {} /\ IsComma(t[q + 1]) /\ c \in T!Unclosed(t)[q + 2]
    BY <1>2, <2>3, <2>4, <2>5
  <2> QED BY <2>6, ListGoesOn
<1>3. i <= n /\ n \in 1 .. n
  OBVIOUS
<1> QED BY <1>1, <1>2, <1>3, ListIs

-----------------------------------------------------------------------------
(* u begins with the n tokens of t.                                        *)
BeginsWith(u, t, n) ==
  /\ Len(t) = n /\ Len(u) \in Nat /\ n <= Len(u)
  /\ \A i \in 1 .. n : u[i] = t[i]

(* What is between two places is read from the tokens between them.        *)
LEMMA ListsWithin ==
  ASSUME NEW n \in Nat, NEW t, NEW u, BeginsWith(u, t, n), NEW c \in T!Opening, NEW f,
         NEW i \in 1 .. n, NEW j \in 1 .. n, i <= j
  PROVE  T!ListsIn(u, c, i, j, f) = T!ListsIn(t, c, i, j, f)
<1>1. \A k \in 1 .. n : u[k] = t[k]
  BY DEF BeginsWith
<1>2. ASSUME NEW a \in 1 .. n, NEW b \in 1 .. n
      PROVE  T!Values(u, a, b, f) = T!Values(t, a, b, f)
  <2>1. u[a] = t[a] /\ u[b] = t[b]
    BY <1>1
  <2> QED BY <2>1, Zenon DEF T!Values
<1>3. ASSUME NEW a \in i .. j, NEW l
      PROVE  T!Parts(u, c, a, j, l, f) = T!Parts(t, c, a, j, l, f)
  <2>1. u[a] = t[a] /\ a \in 1 .. n
    BY <1>1
  <2>2. a + 2 <= j => u[a + 1] = t[a + 1]
    BY <1>1
  <2>3. T!Begun(u, c, a, j) <=> T!Begun(t, c, a, j)
    BY <2>1, <2>2, Zenon DEF T!Begun, T!Named
  <2>4. T!NameAt(u, c, a) = T!NameAt(t, c, a)
    BY <2>1 DEF T!NameAt
  <2>5. T!Begun(t, c, a, j) => T!Values(u, T!ValueAt(c, a), j, f) = T!Values(t, T!ValueAt(c, a), j, f)
    <3>1. T!Begun(t, c, a, j) => T!ValueAt(c, a) \in 1 .. n
      <4>1. a <= j
        OBVIOUS
      <4>2. T!Begun(t, c, a, j) => T!ValueAt(c, a) \in a .. j
        BY <2>1, <4>1, WhereValue
      <4>3. a .. j \in SUBSET (1 .. n)
        BY <2>1
      <4> QED BY <4>2, <4>3
    <3> QED BY <1>2, <3>1
  <2> QED BY <2>3, <2>4, <2>5, Zenon DEF T!Parts
<1>4. T!Commas(u, i + 1, j - 1) = T!Commas(t, i + 1, j - 1)
  <2>1. \A k \in i + 1 .. j - 1 : u[k] = t[k]
    BY <1>1
  <2> QED BY <2>1 DEF T!Commas
<1>5. \A k \in T!Commas(t, i + 1, j - 1) : \A l : T!Parts(u, c, k + 1, j, l, f) = T!Parts(t, c, k + 1, j, l, f)
  <2>1. \A k \in T!Commas(t, i + 1, j - 1) : k + 1 \in i .. j
    <3> SUFFICES ASSUME NEW k \in T!Commas(t, i + 1, j - 1) PROVE k + 1 \in i .. j
      OBVIOUS
    <3>1. k \in i + 1 .. j - 1
      BY CommaIs
    <3> QED BY <3>1
  <2> QED BY <1>3, <2>1
<1>6. T!Parts(u, c, i, j, T!Nothing, f) = T!Parts(t, c, i, j, T!Nothing, f)
  BY <1>3
<1>7. PICK K : K = T!Commas(t, i + 1, j - 1)
  OBVIOUS
<1>8. {UNION {T!Parts(u, c, k + 1, j, l, f) : l \in f[<<c, i, k - 1>>]} : k \in K}
        = {UNION {T!Parts(t, c, k + 1, j, l, f) : l \in f[<<c, i, k - 1>>]} : k \in K}
  BY <1>5, <1>7
<1> QED BY <1>4, <1>6, <1>7, <1>8 DEF T!ListsIn

(* Hence a list reads the same in a longer text ...                        *)
LEMMA ListsSame ==
  ASSUME NEW n \in Nat, NEW t, NEW u, BeginsWith(u, t, n), NEW c \in T!Opening,
         NEW i \in 1 .. n, NEW j \in 1 .. n, i <= j
  PROVE  T!Lists(u)[<<c, i, j>>] = T!Lists(t)[<<c, i, j>>]
<1> DEFINE Eq(k, a, b) == T!Lists(u)[<<k, a, b>>] = T!Lists(t)[<<k, a, b>>]
           Bad == {d \in Nat : \E k \in T!Opening, a, b \in 1 .. n : a <= b /\ b - a = d /\ ~ Eq(k, a, b)}
<1> HIDE DEF Eq
<1> SUFFICES ASSUME ~ Eq(c, i, j) PROVE FALSE
  BY DEF Eq
<1>1. Bad \in SUBSET Nat /\ Bad # {}
  <2>1. j - i \in Nat
    OBVIOUS
  <2> QED BY <2>1
<1>2. PICK d \in Bad : \A e \in Bad : d <= e
  <2> HIDE DEF Bad
  <2> QED BY <1>1, Least
<1>3. PICK k \in T!Opening, a \in 1 .. n, b \in 1 .. n : a <= b /\ b - a = d /\ ~ Eq(k, a, b)
  BY <1>2
<1>4. \A g \in T!Opening, x, y \in 1 .. n : x <= y /\ ~ Eq(g, x, y) => y - x \in Bad
  OBVIOUS
<1> HIDE DEF Bad
<1>5. Alike(n, b - a, T!Lists(t), T!Lists(u))
  <2> SUFFICES ASSUME NEW g \in T!Opening, NEW x \in 1 .. n, NEW y \in 1 .. n, x <= y, y - x < b - a
               PROVE  Eq(g, x, y)
    BY DEF Alike, Eq
  <2>1. ~ (d <= y - x)
    BY <1>3
  <2> QED BY <1>2, <1>4, <2>1
<1>6. Len(t) = n /\ Len(u) \in Nat /\ n <= Len(u)
  BY DEF BeginsWith
<1>7. <<k, a, b>> \in T!Spans(t) /\ <<k, a, b>> \in T!Spans(u)
  <2>1. a <= b /\ a \in 1 .. Len(u) /\ b \in 1 .. Len(u)
    BY <1>3, <1>6
  <2> QED BY <1>6, <2>1, SpanIs
<1>8. /\ T!Lists(t)[<<k, a, b>>] = T!ListsIn(t, k, a, b, T!Lists(t))
      /\ T!Lists(u)[<<k, a, b>>] = T!ListsIn(u, k, a, b, T!Lists(u))
  <2>1. PICK r : r = <<k, a, b>>
    OBVIOUS
  <2>2. T!Lists(t)[r] = T!ListsIn(t, r[1], r[2], r[3], T!Lists(t))
    BY <1>6, <1>7, <2>1, ListsAre
  <2>3. T!Lists(u)[r] = T!ListsIn(u, r[1], r[2], r[3], T!Lists(u))
    BY <1>6, <1>7, <2>1, ListsAre
  <2> QED BY <2>1, <2>2, <2>3
<1>9. T!ListsIn(u, k, a, b, T!Lists(u)) = T!ListsIn(t, k, a, b, T!Lists(u))
  BY <1>3, ListsWithin
<1>10. T!ListsIn(t, k, a, b, T!Lists(u)) = T!ListsIn(t, k, a, b, T!Lists(t))
  BY <1>3, <1>5, ListsLook
<1> QED BY <1>3, <1>8, <1>9, <1>10 DEF Eq

(* ... and so does a value.                                                *)
LEMMA ReadingsSame ==
  ASSUME NEW n \in Nat, NEW t, NEW u, BeginsWith(u, t, n), NEW i \in 1 .. n, NEW j \in 1 .. n, i <= j
  PROVE  T!Readings(u, i, j) = T!Readings(t, i, j)
<1>1. u[i] = t[i] /\ u[j] = t[j]
  BY DEF BeginsWith
<1>2. i # j /\ j # i + 1 /\ t[i] \in T!Opening
        => T!Lists(u)[<<t[i], i + 1, j - 1>>] = T!Lists(t)[<<t[i], i + 1, j - 1>>]
  <2> SUFFICES ASSUME i # j, j # i + 1, t[i] \in T!Opening
               PROVE  T!Lists(u)[<<t[i], i + 1, j - 1>>] = T!Lists(t)[<<t[i], i + 1, j - 1>>]
    OBVIOUS
  <2>1. i + 1 \in 1 .. n /\ j - 1 \in 1 .. n /\ i + 1 <= j - 1
    OBVIOUS
  <2> QED BY <2>1, ListsSame
<1>3. CASE i = j
  BY <1>1, <1>3 DEF T!Readings, T!Values
<1>4. CASE i # j
  <2>1. (IF t[i] \notin T!Opening \/ t[j] # T!Closing(t[i]) THEN {}
         ELSE IF j = i + 1 THEN {T!Nothing} ELSE T!Lists(u)[<<t[i], i + 1, j - 1>>])
          = (IF t[i] \notin T!Opening \/ t[j] # T!Closing(t[i]) THEN {}
             ELSE IF j = i + 1 THEN {T!Nothing} ELSE T!Lists(t)[<<t[i], i + 1, j - 1>>])
    BY <1>2, <1>4
  <2> QED BY <1>1, <1>4, <2>1, Zenon DEF T!Readings, T!Values
<1> QED BY <1>3, <1>4

-----------------------------------------------------------------------------
(* There is a text: a value, if need be behind a text.                     *)
Another(t, i, s) == i = 0 \/ (~ s /\ t[i + 1] \in T!Opening)

(* Each of its prefixes is one more value behind a shorter text.           *)
LEMMA TextIs ==
  ASSUME NEW t, NEW n \in Nat, Len(t) = n, NEW s, NEW j \in 1 .. n
  PROVE  T!Prefixes(t, s)[j] # {}
           <=> \E i \in 0 .. j - 1 : /\ Another(t, i, s)
                                     /\ T!Prefixes(t, s)[i] # {} /\ T!Readings(t, i + 1, j) # {}
<1> DEFINE After(i) == UNION {{T!Longer(b, NULL, v, <<>>) : v \in T!Readings(t, i + 1, j)} : b \in T!Prefixes(t, s)[i]}
           K == {k \in 0 .. j - 1 : k = 0 \/ (~ s /\ t[k + 1] \in T!Opening)}
<1>1. T!Prefixes(t, s)[j] = T!TextsTo(t, j, s, T!Prefixes(t, s))
  BY PrefixesAre
<1>2. T!TextsTo(t, j, s, T!Prefixes(t, s)) = UNION {After(i) : i \in K}
  BY DEF T!TextsTo
<1>3. ASSUME NEW i
      PROVE  After(i) # {} <=> T!Prefixes(t, s)[i] # {} /\ T!Readings(t, i + 1, j) # {}
  <2>1. PICK P, V : P = T!Prefixes(t, s)[i] /\ V = T!Readings(t, i + 1, j)
    OBVIOUS
  <2>2. After(i) = UNION {{T!Longer(b, NULL, v, <<>>) : v \in V} : b \in P}
    BY <2>1
  <2>3. \A b : {T!Longer(b, NULL, v, <<>>) : v \in V} # {} <=> V # {}
    OBVIOUS
  <2> DEFINE W(b) == {T!Longer(b, NULL, v, <<>>) : v \in V}
  <2>5. After(i) = UNION {W(b) : b \in P} /\ \A b : W(b) # {} <=> V # {}
    BY <2>2, <2>3
  <2> HIDE DEF W, After
  <2>6. UNION {W(b) : b \in P} # {} <=> \E b \in P : W(b) # {}
    OBVIOUS
  <2>4. After(i) # {} <=> P # {} /\ V # {}
    BY <2>5, <2>6
  <2> QED BY <2>1, <2>4
<1> HIDE DEF After
<1>4. UNION {After(i) : i \in K} # {} <=> \E i \in K : After(i) # {}
  OBVIOUS
<1>5. \A i : i \in K <=> i \in 0 .. j - 1 /\ Another(t, i, s)
  BY DEF Another
<1> HIDE DEF K
<1> QED BY <1>1, <1>2, <1>3, <1>4, <1>5

(* A text is a text of a longer one.                                       *)
LEMMA TextsSame ==
  ASSUME NEW n \in Nat, NEW t, NEW u, BeginsWith(u, t, n), NEW s, NEW j \in 0 .. n
  PROVE  T!Prefixes(u, s)[j] # {} <=> T!Prefixes(t, s)[j] # {}
<1> DEFINE Eq(k) == T!Prefixes(u, s)[k] # {} <=> T!Prefixes(t, s)[k] # {}
           Bad == {d \in 0 .. n : ~ Eq(d)}
<1> HIDE DEF Eq
<1> SUFFICES ASSUME ~ Eq(j) PROVE FALSE
  BY DEF Eq
<1>1. Bad \in SUBSET Nat /\ Bad # {}
  OBVIOUS
<1>2. PICK d \in Bad : \A e \in Bad : d <= e
  <2> HIDE DEF Bad
  <2> QED BY <1>1, Least
<1>3. d \in 0 .. n /\ ~ Eq(d) /\ \A e \in 0 .. n : e < d => Eq(e)
  BY <1>2
<1> HIDE DEF Bad
<1>4. Len(t) = n /\ Len(u) \in Nat /\ n <= Len(u) /\ \A i \in 1 .. n : u[i] = t[i]
  BY DEF BeginsWith
<1>5. d # 0
  BY <1>3, <1>4, NothingRead DEF Eq
<1>6. d \in 1 .. n /\ d \in 1 .. Len(u)
  BY <1>3, <1>4, <1>5
<1>7. ASSUME NEW i \in 0 .. d - 1
      PROVE  /\ Another(u, i, s) <=> Another(t, i, s)
             /\ T!Prefixes(u, s)[i] # {} <=> T!Prefixes(t, s)[i] # {}
             /\ T!Readings(u, i + 1, d) = T!Readings(t, i + 1, d)
  <2>1. i + 1 \in 1 .. n /\ i + 1 <= d /\ i \in 0 .. n /\ i < d
    BY <1>6
  <2>2. u[i + 1] = t[i + 1]
    BY <1>4, <2>1
  <2>3. T!Readings(u, i + 1, d) = T!Readings(t, i + 1, d)
    BY <1>6, <2>1, ReadingsSame
  <2> QED BY <1>3, <2>1, <2>2, <2>3 DEF Another, Eq
<1>8. T!Prefixes(t, s)[d] # {}
        <=> \E i \in 0 .. d - 1 : Another(t, i, s) /\ T!Prefixes(t, s)[i] # {} /\ T!Readings(t, i + 1, d) # {}
  BY <1>4, <1>6, TextIs
<1>9. T!Prefixes(u, s)[d] # {}
        <=> \E i \in 0 .. d - 1 : Another(u, i, s) /\ T!Prefixes(u, s)[i] # {} /\ T!Readings(u, i + 1, d) # {}
  <2>1. PICK m \in Nat : m = Len(u)
    BY <1>4
  <2> QED BY <1>6, <2>1, TextIs
<1> QED BY <1>3, <1>7, <1>8, <1>9 DEF Eq

(* The places between the values of a text.                                *)
Joints(t, s, e, R) ==
  /\ R \in SUBSET (0 .. e - 1) /\ (e = 0 \/ 0 \in R)
  /\ \A i \in R : /\ Another(t, i, s)
                  /\ \E j \in i + 1 .. e : T!Readings(t, i + 1, j) # {} /\ (j = e \/ j \in R)

(* A text has such places.                                                 *)
LEMMA TextJoints ==
  ASSUME NEW t, NEW n \in Nat, Len(t) = n, NEW s, NEW e \in 0 .. n, T!Prefixes(t, s)[e] # {}
  PROVE  \E R : Joints(t, s, e, R)
<1> DEFINE Ok(k) == T!Prefixes(t, s)[k] # {} => \E R : Joints(t, s, k, R)
           Bad == {d \in 0 .. n : ~ Ok(d)}
<1> HIDE DEF Ok
<1> SUFFICES ASSUME ~ Ok(e) PROVE FALSE
  BY DEF Ok
<1>1. Bad \in SUBSET Nat /\ Bad # {}
  OBVIOUS
<1>2. PICK d \in Bad : \A k \in Bad : d <= k
  <2> HIDE DEF Bad
  <2> QED BY <1>1, Least
<1>3. d \in 0 .. n /\ ~ Ok(d) /\ \A k \in 0 .. n : k < d => Ok(k)
  BY <1>2
<1> HIDE DEF Bad
<1>4. d # 0
  <2>1. Joints(t, s, 0, {})
    BY DEF Joints
  <2> QED BY <1>3, <2>1 DEF Ok
<1>5. PICK i \in 0 .. d - 1 : Another(t, i, s) /\ T!Prefixes(t, s)[i] # {} /\ T!Readings(t, i + 1, d) # {}
  <2>1. d \in 1 .. n
    BY <1>3, <1>4
  <2> QED BY <1>3, <2>1, TextIs DEF Ok
<1>6. PICK Q : Joints(t, s, i, Q)
  <2>1. i \in 0 .. n /\ i < d
    BY <1>3
  <2> QED BY <1>3, <1>5, <2>1 DEF Ok
<1>7. PICK R : R = Q \cup {i}
  OBVIOUS
<1>8. R \in SUBSET (0 .. d - 1) /\ 0 \in R
  <2>1. Q \in SUBSET (0 .. i - 1) /\ (i = 0 \/ 0 \in Q)
    BY <1>6 DEF Joints
  <2>2. 0 .. i - 1 \in SUBSET (0 .. d - 1)
    BY <1>3
  <2> QED BY <1>7, <2>1, <2>2
<1>9. ASSUME NEW k \in R
      PROVE  /\ Another(t, k, s)
             /\ \E j \in k + 1 .. d : T!Readings(t, k + 1, j) # {} /\ (j = d \/ j \in R)
  <2>1. CASE k = i
    <3>1. d \in i + 1 .. d
      BY <1>3, <1>4
    <3> QED BY <1>5, <2>1, <3>1
  <2>2. CASE k \in Q
    <3>1. PICK j \in k + 1 .. i : T!Readings(t, k + 1, j) # {} /\ (j = i \/ j \in Q)
      BY <1>6, <2>2 DEF Joints
    <3>2. j \in k + 1 .. d
      BY <3>1, <1>8, <1>3
    <3>3. Another(t, k, s)
      BY <1>6, <2>2 DEF Joints
    <3> QED BY <1>7, <3>1, <3>2, <3>3
  <2> QED BY <1>7, <2>1, <2>2
<1>10. Joints(t, s, d, R)
  BY <1>8, <1>9 DEF Joints
<1> QED BY <1>3, <1>10 DEF Ok

-----------------------------------------------------------------------------
(* How the text u can go on.  ends has, for each frame and for the text    *)
(* around them (0), where an element of it ends; one always may where u    *)
(* does.                                                                   *)
MayEnd(u, ends, k, j) == j = Len(u) \/ j \in ends[k]

(* A value of the frame k begins at b, the colon before it, a part.        *)
MayValue(u, ends, k, b) ==
  \/ T!Begins(u, b, T!Unclosed(u))
  \/ \E j \in b .. Len(u) : T!Readings(u, b, j) # {} /\ MayEnd(u, ends, k, j)
MayColon(u, ends, k, b) == b = Len(u) + 1 \/ (u[b] = ":" /\ MayValue(u, ends, k, b + 1))
MayPart(u, ends, k, c, b) ==
  IF c = "[" THEN MayValue(u, ends, k, b)
  ELSE b = Len(u) + 1 \/ (u[b] \in String /\ MayColon(u, ends, k, b + 1))

(* What comes behind an element.                                           *)
AfterText(u, ends, j, s) ==
  \/ u[j + 1] = "EOF"
  \/ Another(u, j, s) /\ MayValue(u, ends, 0, j + 1)
AfterPart(u, ends, k, c, j) ==
  \/ u[j + 1] = "," /\ MayPart(u, ends, k, c, j + 2)
  \/ u[j + 1] = T!Closing(c) /\ MayEnd(u, ends, k - 1, j + 1)
Onward(u, fs, ends, s) ==
  \A k \in 0 .. Len(fs) : \A j \in ends[k] :
    /\ j \in 0 .. Len(u) - 1
    /\ k = 0 => AfterText(u, ends, j, s)
    /\ k # 0 => AfterPart(u, ends, k, fs[k].kind, j)

(* What comes next in the innermost frame f, with c tokens consumed.       *)
Awaited(u, f, ends, m, c) ==
  /\ f.at = "next" => \/ MayPart(u, ends, m, f.kind, c + 1)
                      \/ u[c + 1] = T!Closing(f.kind) /\ MayEnd(u, ends, m - 1, c + 1)
  /\ f.at = "colon" => f.kind # "[" /\ MayColon(u, ends, m, c + 1)
  /\ f.at = "value" => f.kind # "[" /\ MayValue(u, ends, m, c + 1)
  /\ f.at = "sep" => MayEnd(u, ends, m, c)
  /\ f.at = "comma" => MayPart(u, ends, m, f.kind, c + 1)

Way(u, fs, c, s) ==
  \E ends : /\ Onward(u, fs, ends, s)
            /\ fs = <<>> => MayEnd(u, ends, 0, c)
            /\ fs # <<>> => Awaited(u, fs[Len(fs)], ends, Len(fs), c)

(* u is a text, or goes on to one.                                         *)
Viable(u, s) ==
  IF u # <<>> /\ Last(u) = "EOF" THEN T!Texts(Front(u), s) # {} ELSE T!BeginsText(u, s)

-----------------------------------------------------------------------------
(* A token is one thing only.                                              *)
LEMMA KindsApart ==
  /\ T!Opening = Opening /\ \A t \in Scalar : t \notin Opening
  /\ \A c \in Opening : T!Closing(c) \notin Scalar \cup Opening \cup {",", ":", "EOF"}
  /\ \A t \in Scalar \cup Opening : t \notin {",", ":", "EOF"}
  /\ \A t \in String : t \in Scalar
<1>1. T!Opening = Opening
  BY DEF T!Opening, Opening
<1>2. \A t \in Scalar : t \notin Opening
  BY DEF Scalar, String, Opening
<1>3. \A c \in Opening : T!Closing(c) \in {"]", "}"}
  BY DEF T!Closing
<1>4. \A t \in {"]", "}"} : t \notin Scalar \cup Opening \cup {",", ":", "EOF"}
  BY DEF Scalar, String, Opening
<1>5. \A t \in Scalar \cup Opening : t \notin {",", ":", "EOF"}
  BY DEF Scalar, String, Opening
<1>6. \A t \in String : t \in Scalar
  BY DEF Scalar
<1> QED BY <1>1, <1>2, <1>3, <1>4, <1>5, <1>6

(* What a value begins with.                                               *)
LEMMA FirstOfValue ==
  ASSUME NEW u, NEW n \in Nat, Len(u) = n, NEW ends, NEW k, NEW b \in 1 .. n,
         MayValue(u, ends, k, b)
  PROVE  /\ u[b] \in Scalar \cup Opening
         /\ u[b] \in Scalar => MayEnd(u, ends, k, b)
         /\ u[b] \in Opening => \/ u[b] \in T!Unclosed(u)[b + 1]
                                \/ \E j \in b + 1 .. n : /\ T!Readings(u, b, j) # {}
                                                         /\ MayEnd(u, ends, k, j)
<1>1. ASSUME NEW j \in b .. n, T!Readings(u, b, j) # {}
      PROVE  /\ u[b] \in Scalar \cup Opening /\ (u[b] \in Scalar => j = b)
             /\ u[b] \in Opening => j \in b + 1 .. n
  <2>1. CASE j = b
    <3>1. {u[b]} \cap ({"INT"} \cup String) # {}
      BY <1>1, <2>1 DEF T!Readings, T!Values
    <3>2. u[b] \in Scalar
      BY <3>1 DEF Scalar
    <3> QED BY <2>1, <3>2, KindsApart
  <2>2. CASE j # b
    <3>1. u[b] \in T!Opening
      BY <1>1, <2>2 DEF T!Readings, T!Values
    <3>2. u[b] \in Opening
      BY <3>1 DEF T!Opening, Opening
    <3>3. j \in b + 1 .. n
      BY <2>2
    <3> QED BY <3>2, <3>3, KindsApart
  <2> QED BY <2>1, <2>2
<1>2. CASE T!Begins(u, b, T!Unclosed(u))
  <2>1. b # n + 1 /\ n \in b .. n /\ MayEnd(u, ends, k, n)
    BY DEF MayEnd
  <2>2. CASE T!Readings(u, b, n) # {}
    BY <1>1, <2>1, <2>2
  <2>3. CASE u[b] \in T!Unclosed(u)[b + 1]
    <3>1. b + 1 \in 1 .. n + 1
      OBVIOUS
    <3>2. u[b] \in T!Opening
      BY <2>3, <3>1, UnclosedIs
    <3>3. u[b] \in Opening
      BY <3>2 DEF T!Opening, Opening
    <3> QED BY <2>3, <3>3, KindsApart
  <2> QED BY <1>2, <2>1, <2>2, <2>3 DEF T!Begins
<1>3. CASE \E j \in b .. n : T!Readings(u, b, j) # {} /\ MayEnd(u, ends, k, j)
  BY <1>1, <1>3
<1> QED BY <1>2, <1>3 DEF MayValue

(* A part from b to j, behind which the list may go on.                    *)
LEMMA PartMay ==
  ASSUME NEW u, NEW n \in Nat, Len(u) = n, NEW ends, NEW k, NEW c \in T!Opening, NEW b \in 1 .. n,
         NEW j \in b .. n, T!PartIn(u, c, b, j), MayEnd(u, ends, k, j)
  PROVE  MayPart(u, ends, k, c, b)
<1>1. T!Begun(u, c, b, j) /\ T!Readings(u, T!ValueAt(c, b), j) # {}
  BY PartIs
<1>2. CASE c = "["
  <2>1. T!Readings(u, b, j) # {}
    BY <1>1, <1>2 DEF T!ValueAt
  <2>2. MayValue(u, ends, k, b)
    BY <2>1 DEF MayValue
  <2> QED BY <1>2, <2>2 DEF MayPart
<1>3. CASE c # "["
  <2>1. T!Readings(u, b + 2, j) # {} /\ b + 2 <= j /\ T!Named(u, b)
    BY <1>1, <1>3 DEF T!ValueAt, T!Begun
  <2>2. MayValue(u, ends, k, b + 2)
    <3>1. j \in b + 2 .. n
      BY <2>1
    <3> QED BY <2>1, <3>1 DEF MayValue
  <2>3. MayColon(u, ends, k, b + 1)
    <3>1. (b + 1) + 1 = b + 2
      OBVIOUS
    <3>2. u[b + 1] = ":"
      BY <2>1 DEF T!Named
    <3> QED BY <2>2, <3>1, <3>2 DEF MayColon
  <2>4. u[b] \in String
    BY <2>1 DEF T!Named
  <2> QED BY <1>3, <2>3, <2>4 DEF MayPart
<1> QED BY <1>2, <1>3

(* A part that begins and goes on behind u.                                *)
LEMMA BegunMay ==
  ASSUME NEW u, NEW n \in Nat, Len(u) = n, NEW ends, NEW k, NEW c, NEW b \in 1 .. n + 1,
         T!BeginsPart(u, c, b, T!Unclosed(u))
  PROVE  MayPart(u, ends, k, c, b)
<1>1. CASE c = "["
  BY <1>1 DEF T!BeginsPart, MayPart, MayValue
<1>2. CASE c # "[" /\ b = n + 1
  BY <1>2 DEF MayPart
<1>3. CASE c # "[" /\ b = n /\ u[b] \in String
  BY <1>3 DEF MayPart, MayColon
<1>4. CASE c # "[" /\ b < n /\ T!Named(u, b) /\ T!Begins(u, b + 2, T!Unclosed(u))
  <2>1. (b + 1) + 1 = b + 2
    OBVIOUS
  <2>2. MayValue(u, ends, k, b + 2)
    BY <1>4 DEF MayValue
  <2>3. u[b] \in String /\ u[b + 1] = ":"
    BY <1>4 DEF T!Named
  <2> QED BY <1>4, <2>1, <2>2, <2>3 DEF MayPart, MayColon
<1> QED BY <1>1, <1>2, <1>3, <1>4 DEF T!BeginsPart

(* What is known of a frame is what is known of its ends.                  *)
LEMMA SameMay ==
  ASSUME NEW u, NEW ends, NEW ends2, NEW k, ends2[k] = ends[k]
  PROVE  /\ \A j : MayEnd(u, ends2, k, j) <=> MayEnd(u, ends, k, j)
         /\ \A b : MayValue(u, ends2, k, b) <=> MayValue(u, ends, k, b)
         /\ \A c, b : MayPart(u, ends2, k, c, b) <=> MayPart(u, ends, k, c, b)
<1>1. \A j : MayEnd(u, ends2, k, j) <=> MayEnd(u, ends, k, j)
  BY DEF MayEnd
<1>2. \A b : MayValue(u, ends2, k, b) <=> MayValue(u, ends, k, b)
  BY <1>1 DEF MayValue
<1>3. \A c, b : MayPart(u, ends2, k, c, b) <=> MayPart(u, ends, k, c, b)
  BY <1>2 DEF MayPart, MayColon
<1> QED BY <1>1, <1>2, <1>3

(* The frames of which something is known go on if their kinds stay.       *)
LEMMA OnwardStays ==
  ASSUME NEW u, NEW fs, NEW fs2, NEW ends, NEW s, Len(fs) \in Nat, Len(fs2) \in Nat,
         Len(fs2) <= Len(fs), \A k \in 1 .. Len(fs2) : fs2[k].kind = fs[k].kind,
         Onward(u, fs, ends, s)
  PROVE  Onward(u, fs2, ends, s)
<1> SUFFICES ASSUME NEW k \in 0 .. Len(fs2), NEW j \in ends[k]
             PROVE  /\ j \in 0 .. Len(u) - 1
                    /\ k = 0 => AfterText(u, ends, j, s)
                    /\ k # 0 => AfterPart(u, ends, k, fs2[k].kind, j)
  BY DEF Onward
<1>1. k \in 0 .. Len(fs) /\ (k # 0 => fs2[k].kind = fs[k].kind)
  OBVIOUS
<1>2. /\ j \in 0 .. Len(u) - 1
      /\ k = 0 => AfterText(u, ends, j, s)
      /\ k # 0 => AfterPart(u, ends, k, fs[k].kind, j)
  BY <1>1 DEF Onward
<1>3. k # 0 => AfterPart(u, ends, k, fs2[k].kind, j)
  BY <1>1, <1>2
<1> QED BY <1>2, <1>3

-----------------------------------------------------------------------------
(* A frame c more.                                                         *)
Deeper(fs, fs2, m, c) ==
  /\ m \in Nat /\ Len(fs) = m /\ Len(fs2) = m + 1
  /\ \A k \in 1 .. m : fs2[k].kind = fs[k].kind
  /\ fs2[m + 1].kind = c
Further(ends, m, D) == [k \in 0 .. m + 1 |-> IF k = m + 1 THEN D ELSE ends[k]]

(* Another frame begins, of which the elements may end in D: the frames    *)
(* around it go on as before.                                              *)
LEMMA FurtherOnward ==
  ASSUME NEW u, NEW n \in Nat, Len(u) = n, NEW fs, NEW fs2, NEW m, NEW c, Deeper(fs, fs2, m, c),
         NEW ends, NEW s, Onward(u, fs, ends, s), NEW D \in SUBSET (0 .. n - 1),
         NEW ends2, ends2 = Further(ends, m, D),
         \A j \in D : AfterPart(u, ends2, m + 1, c, j)
  PROVE  Onward(u, fs2, ends2, s)
<1>0. m \in Nat /\ Len(fs) = m /\ Len(fs2) = m + 1
  BY DEF Deeper
<1>1. \A k \in 0 .. m : ends2[k] = ends[k]
  BY <1>0 DEF Further
<1>2. ends2[m + 1] = D
  BY <1>0 DEF Further
<1> SUFFICES ASSUME NEW k \in 0 .. m + 1, NEW j \in ends2[k]
             PROVE  /\ j \in 0 .. n - 1
                    /\ k = 0 => AfterText(u, ends2, j, s)
                    /\ k # 0 => AfterPart(u, ends2, k, fs2[k].kind, j)
  BY <1>0 DEF Onward
<1>3. CASE k = m + 1
  <2>1. k # 0 /\ fs2[k].kind = c
    BY <1>0, <1>3 DEF Deeper
  <2> QED BY <1>2, <1>3, <2>1
<1>4. CASE k # m + 1
  <2>1. k \in 0 .. m /\ j \in ends[k]
    BY <1>0, <1>1, <1>4
  <2>2. /\ j \in 0 .. n - 1
        /\ k = 0 => AfterText(u, ends, j, s)
        /\ k # 0 => AfterPart(u, ends, k, fs[k].kind, j)
    BY <1>0, <2>1 DEF Onward
  <2>3. ends2[k] = ends[k] /\ ends2[0] = ends[0]
    BY <1>0, <1>1, <2>1
  <2>4. k = 0 => AfterText(u, ends2, j, s)
    BY <2>2, <2>3, SameMay DEF AfterText
  <2>5. ASSUME k # 0 PROVE AfterPart(u, ends2, k, fs2[k].kind, j)
    <3>1. k \in 1 .. m /\ k - 1 \in 0 .. m
      BY <1>0, <2>1, <2>5
    <3>2. fs2[k].kind = fs[k].kind /\ ends2[k - 1] = ends[k - 1]
      BY <1>1, <3>1 DEF Deeper
    <3>3. \A i : MayEnd(u, ends2, k - 1, i) <=> MayEnd(u, ends, k - 1, i)
      BY <3>2, SameMay
    <3>4. \A a, i : MayPart(u, ends2, k, a, i) <=> MayPart(u, ends, k, a, i)
      BY <2>3, SameMay
    <3> QED BY <2>2, <2>5, <3>2, <3>3, <3>4 DEF AfterPart
  <2> QED BY <2>2, <2>4, <2>5
<1> QED BY <1>3, <1>4

(* What comes first in a new frame, which begins at b.                     *)
First(u, ends, m, c, b) ==
  \/ MayPart(u, ends, m + 1, c, b + 1)
  \/ u[b + 1] = T!Closing(c) /\ MayEnd(u, ends, m, b + 1)

(* A container that u does not close.                                      *)
LEMMA UnclosedFirst ==
  ASSUME NEW u, NEW n \in Nat, Len(u) = n, NEW fs, NEW fs2, NEW m, NEW c, Deeper(fs, fs2, m, c),
         NEW ends, NEW s, Onward(u, fs, ends, s), NEW b \in 1 .. n,
         c \in T!Opening, c \in T!Unclosed(u)[b + 1]
  PROVE  \E ends2 : Onward(u, fs2, ends2, s) /\ First(u, ends2, m, c, b)
<1> DEFINE On(p) == c \in T!Unclosed(u)[p]
           D == {e \in b + 1 .. n - 1 : IsComma(u[e + 1]) /\ On(e + 2)}
<1> HIDE DEF On
<1>0. m \in Nat
  BY DEF Deeper
<1>1. D \in SUBSET (0 .. n - 1)
  OBVIOUS
<1>2. \A e \in b + 1 .. n - 1 : IsComma(u[e + 1]) /\ On(e + 2) => e \in D
  OBVIOUS
<1>3. \A e \in D : e \in b + 1 .. n - 1 /\ IsComma(u[e + 1]) /\ On(e + 2)
  OBVIOUS
<1> HIDE DEF D
<1>4. PICK ends2 : ends2 = Further(ends, m, D)
  OBVIOUS
<1>5. \A j \in D : MayEnd(u, ends2, m + 1, j)
  BY <1>0, <1>4 DEF Further, MayEnd
<1>6. ASSUME NEW p \in b + 1 .. n + 1, On(p) PROVE MayPart(u, ends2, m + 1, c, p)
  <2>1. CASE T!BeginsPart(u, c, p, T!Unclosed(u))
    BY <2>1, BegunMay
  <2>2. ASSUME NEW k \in T!Commas(u, p + 1, n), T!PartIn(u, c, p, k - 1), c \in T!Unclosed(u)[k + 1]
        PROVE  MayPart(u, ends2, m + 1, c, p)
    <3>1. k \in p + 1 .. n
      BY CommaIs
    <3>2. PICK e \in b + 1 .. n - 1 : e = k - 1 /\ e + 1 = k /\ e + 2 = k + 1
      BY <3>1
    <3>3. IsComma(u[k])
      BY DEF T!Commas, IsComma
    <3>4. e \in D
      BY <1>2, <2>2, <3>2, <3>3 DEF On
    <3>5. p \in 1 .. n /\ e \in p .. n
      BY <3>1, <3>2
    <3> QED BY <1>5, <2>2, <3>2, <3>4, <3>5, PartMay
  <2>3. p \in 1 .. n + 1
    OBVIOUS
  <2> QED BY <1>6, <2>1, <2>2, <2>3, UnclosedIs DEF On
<1>7. ASSUME NEW j \in D PROVE AfterPart(u, ends2, m + 1, c, j)
  <2>1. j + 2 \in b + 1 .. n + 1 /\ On(j + 2) /\ IsComma(u[j + 1])
    BY <1>3
  <2>2. MayPart(u, ends2, m + 1, c, j + 2)
    BY <1>6, <2>1
  <2> QED BY <2>1, <2>2 DEF AfterPart, IsComma
<1>8. Onward(u, fs2, ends2, s)
  BY <1>1, <1>4, <1>7, FurtherOnward
<1>9. b + 1 \in b + 1 .. n + 1 /\ On(b + 1)
  BY DEF On
<1> QED BY <1>6, <1>8, <1>9 DEF First

(* A container that ends at z.                                             *)
LEMMA ClosedFirst ==
  ASSUME NEW u, NEW n \in Nat, Len(u) = n, NEW fs, NEW fs2, NEW m, NEW c, Deeper(fs, fs2, m, c),
         NEW ends, NEW s, Onward(u, fs, ends, s), NEW b \in 1 .. n, u[b] = c, c \in T!Opening,
         NEW z \in b + 1 .. n, T!Readings(u, b, z) # {}, MayEnd(u, ends, m, z)
  PROVE  \E ends2 : Onward(u, fs2, ends2, s) /\ First(u, ends2, m, c, b)
<1> DEFINE L(p) == T!Lists(u)[<<c, p, z - 1>>] # {}
           D == {e \in b + 1 .. z - 1 : \/ e = z - 1
                                        \/ IsComma(u[e + 1]) /\ e + 2 <= z - 1 /\ L(e + 2)}
<1>0. m \in Nat
  BY DEF Deeper
<1>1. u[z] = T!Closing(c) /\ (z = b + 1 \/ L(b + 1))
  <2>1. b # z
    OBVIOUS
  <2> QED BY <2>1 DEF T!Readings, T!Values
<1> HIDE DEF L
<1>2. D \in SUBSET (0 .. n - 1)
  OBVIOUS
<1>3. /\ \A e \in b + 1 .. z - 1 : IsComma(u[e + 1]) /\ e + 2 <= z - 1 /\ L(e + 2) => e \in D
      /\ \A e \in b + 1 .. z - 1 : e = z - 1 => e \in D
      /\ \A e \in D : /\ e \in b + 1 .. z - 1
                      /\ e = z - 1 \/ (IsComma(u[e + 1]) /\ e + 2 <= z - 1 /\ L(e + 2))
  OBVIOUS
<1> HIDE DEF D
<1>4. PICK ends2 : ends2 = Further(ends, m, D)
  OBVIOUS
<1>5. \A j \in D : MayEnd(u, ends2, m + 1, j)
  BY <1>0, <1>4 DEF Further, MayEnd
<1>6. MayEnd(u, ends2, m, z)
  <2>1. ends2[m] = ends[m]
    BY <1>0, <1>4 DEF Further
  <2> QED BY <2>1, SameMay
<1>7. ASSUME NEW p \in b + 1 .. z - 1, L(p) PROVE MayPart(u, ends2, m + 1, c, p)
  <2>0. p \in 1 .. n /\ z - 1 \in 1 .. n /\ p <= z - 1
    OBVIOUS
  <2>1. CASE T!PartIn(u, c, p, z - 1)
    <3>1. PICK e \in b + 1 .. z - 1 : e = z - 1 /\ e \in p .. n
      BY <2>0
    <3> QED BY <1>3, <1>5, <2>0, <2>1, <3>1, PartMay
  <2>2. ASSUME NEW k \in T!Commas(u, p + 1, (z - 1) - 1), T!PartIn(u, c, p, k - 1), L(k + 1)
        PROVE  MayPart(u, ends2, m + 1, c, p)
    <3>1. k \in p + 1 .. (z - 1) - 1
      BY <2>0, CommaIs
    <3>2. PICK e \in b + 1 .. z - 1 : /\ e = k - 1 /\ e + 1 = k /\ e + 2 = k + 1
                                      /\ e + 2 <= z - 1 /\ e \in p .. n
      BY <3>1
    <3>3. IsComma(u[k])
      BY DEF T!Commas, IsComma
    <3>4. e \in D
      BY <1>3, <2>2, <3>2, <3>3
    <3> QED BY <1>5, <2>0, <2>2, <3>2, <3>4, PartMay
  <2>3. \/ T!PartIn(u, c, p, z - 1)
        \/ \E k \in T!Commas(u, p + 1, (z - 1) - 1) : T!PartIn(u, c, p, k - 1) /\ L(k + 1)
    <3>1. PICK q \in 1 .. n : q = z - 1
      BY <2>0
    <3>2. T!Lists(u)[<<c, p, q>>] # {} /\ p <= q
      BY <1>7, <2>0, <3>1 DEF L
    <3>3. Beheaded(u, c, p, q)
      BY <2>0, <3>2, ListBeheaded
    <3> QED BY <3>1, <3>3 DEF Beheaded, L
  <2> QED BY <2>1, <2>2, <2>3
<1>8. ASSUME NEW j \in D PROVE AfterPart(u, ends2, m + 1, c, j)
  <2>1. CASE j = z - 1
    <3>1. j + 1 = z /\ (m + 1) - 1 = m
      BY <1>0, <2>1
    <3> QED BY <1>1, <1>6, <3>1 DEF AfterPart
  <2>2. CASE IsComma(u[j + 1]) /\ j + 2 <= z - 1 /\ L(j + 2)
    <3>1. j + 2 \in b + 1 .. z - 1
      BY <1>3, <2>2
    <3>2. MayPart(u, ends2, m + 1, c, j + 2)
      BY <1>7, <2>2, <3>1
    <3> QED BY <2>2, <3>2 DEF AfterPart, IsComma
  <2> QED BY <1>3, <2>1, <2>2
<1>9. Onward(u, fs2, ends2, s)
  BY <1>2, <1>4, <1>8, FurtherOnward
<1>10. CASE z = b + 1
  BY <1>1, <1>6, <1>9, <1>10 DEF First
<1>11. CASE z # b + 1
  <2>1. b + 1 \in b + 1 .. z - 1
    BY <1>11
  <2> QED BY <1>1, <1>7, <1>9, <1>11, <2>1 DEF First
<1> QED BY <1>10, <1>11

(* A container begins at b.                                                *)
LEMMA NewFirst ==
  ASSUME NEW u, NEW n \in Nat, Len(u) = n, NEW fs, NEW fs2, NEW m, NEW c, Deeper(fs, fs2, m, c),
         NEW ends, NEW s, Onward(u, fs, ends, s), NEW b \in 1 .. n, u[b] = c, c \in Opening,
         MayValue(u, ends, m, b)
  PROVE  \E ends2 : Onward(u, fs2, ends2, s) /\ First(u, ends2, m, c, b)
<1>1. c \in T!Opening
  BY KindsApart
<1>2. CASE c \in T!Unclosed(u)[b + 1]
  BY <1>1, <1>2, UnclosedFirst
<1>3. ASSUME NEW z \in b + 1 .. n, T!Readings(u, b, z) # {}, MayEnd(u, ends, m, z)
      PROVE  \E ends2 : Onward(u, fs2, ends2, s) /\ First(u, ends2, m, c, b)
  BY <1>1, <1>3, ClosedFirst
<1>4. \/ u[b] \in T!Unclosed(u)[b + 1]
      \/ \E j \in b + 1 .. n : T!Readings(u, b, j) # {} /\ MayEnd(u, ends, m, j)
  BY FirstOfValue
<1> QED BY <1>2, <1>3, <1>4

-----------------------------------------------------------------------------
(* The text u goes on to a whole one with its token c + 1.                 *)
Ahead(u, n, fs, ends, c, s) ==
  /\ n \in Nat /\ Len(u) = n /\ c \in Nat /\ c + 1 \in 1 .. n
  /\ Onward(u, fs, ends, s)

(* A part begins with a value or a name.                                   *)
PartBegins(k, t) == IF IsList(k) THEN t \in Scalar \cup Opening ELSE t \in String

(* ... and so does one that may come next.                                 *)
LEMMA FirstOfPart ==
  ASSUME NEW u, NEW n \in Nat, Len(u) = n, NEW ends, NEW k, NEW c, NEW b \in 1 .. n,
         MayPart(u, ends, k, c, b)
  PROVE  /\ PartBegins(c, u[b])
         /\ IsList(c) => MayValue(u, ends, k, b)
         /\ ~ IsList(c) => MayColon(u, ends, k, b + 1)
<1>1. CASE c = "["
  <2>1. MayValue(u, ends, k, b)
    BY <1>1 DEF MayPart
  <2>2. u[b] \in Scalar \cup Opening
    BY <2>1, FirstOfValue
  <2> QED BY <1>1, <2>1, <2>2, Zenon DEF PartBegins, IsList
<1>2. CASE c # "["
  <2>1. b # n + 1
    OBVIOUS
  <2>2. u[b] \in String /\ MayColon(u, ends, k, b + 1)
    BY <1>2, <2>1 DEF MayPart
  <2> QED BY <1>2, <2>2, Zenon DEF PartBegins, IsList
<1> QED BY <1>1, <1>2

(* A colon that may come next has a value behind it.                       *)
LEMMA ColonFirst ==
  ASSUME NEW u, NEW n \in Nat, Len(u) = n, NEW ends, NEW k, NEW b \in 1 .. n,
         MayColon(u, ends, k, b)
  PROVE  u[b] = ":" /\ MayValue(u, ends, k, b + 1)
<1>1. b # n + 1
  OBVIOUS
<1> QED BY <1>1 DEF MayColon

(* What follows an element of the frame k, or of the text.                 *)
LEMMA AfterEnd ==
  ASSUME NEW u, NEW n, NEW fs, NEW ends, NEW c, NEW s, Ahead(u, n, fs, ends, c, s),
         NEW k \in 0 .. Len(fs), MayEnd(u, ends, k, c)
  PROVE  /\ k = 0 => AfterText(u, ends, c, s)
         /\ k # 0 => AfterPart(u, ends, k, fs[k].kind, c)
<1>1. c # Len(u)
  BY DEF Ahead
<1>2. c \in ends[k]
  BY <1>1 DEF MayEnd
<1> QED BY <1>2 DEF Ahead, Onward

(* The token fits where the frame f is.                                    *)
Fits(f, t) ==
  /\ f.at = "next" => t = T!Closing(f.kind) \/ PartBegins(f.kind, t)
  /\ f.at = "colon" => t = ":"
  /\ f.at = "value" => t \in Scalar \cup Opening
  /\ f.at = "sep" => IsComma(t) \/ t = T!Closing(f.kind)
  /\ f.at = "comma" => PartBegins(f.kind, t)

(* What may come next fits.                                                *)
LEMMA Fitting ==
  ASSUME NEW u, NEW n, NEW fs, NEW ends, NEW c, NEW s, Ahead(u, n, fs, ends, c, s),
         NEW m \in Nat \ {0}, m = Len(fs), Awaited(u, fs[m], ends, m, c)
  PROVE  Fits(fs[m], u[c + 1])
<1>0. n \in Nat /\ Len(u) = n /\ c + 1 \in 1 .. n
  BY DEF Ahead
<1>1. PICK b \in 1 .. n : b = c + 1
  BY <1>0
<1>2. PICK f : f = fs[m]
  OBVIOUS
<1>3. f.at = "next" => u[b] = T!Closing(f.kind) \/ PartBegins(f.kind, u[b])
  BY <1>0, <1>1, <1>2, FirstOfPart DEF Awaited
<1>4. f.at = "colon" => u[b] = ":"
  BY <1>0, <1>1, <1>2, ColonFirst DEF Awaited
<1>5. f.at = "value" => u[b] \in Scalar \cup Opening
  BY <1>0, <1>1, <1>2, FirstOfValue DEF Awaited
<1>6. ASSUME f.at = "sep" PROVE IsComma(u[b]) \/ u[b] = T!Closing(f.kind)
  <2>1. MayEnd(u, ends, m, c)
    BY <1>2, <1>6 DEF Awaited
  <2>2. m \in 0 .. Len(fs) /\ m # 0
    OBVIOUS
  <2>3. AfterPart(u, ends, m, f.kind, c)
    BY <1>2, <2>1, <2>2, AfterEnd
  <2> QED BY <1>1, <2>3 DEF AfterPart, IsComma
<1>7. f.at = "comma" => PartBegins(f.kind, u[b])
  BY <1>0, <1>1, <1>2, FirstOfPart DEF Awaited
<1> QED BY <1>1, <1>2, <1>3, <1>4, <1>5, <1>6, <1>7 DEF Fits

(* How the innermost frame goes on with the token t, when it consumes it.  *)
Consuming(f, t, f2) ==
  \/ f.at = "sep" /\ IsComma(t) /\ f2.at = "comma"
  \/ f.at = "next" /\ ~ IsList(f.kind) /\ t \in String /\ f2.at = "colon"
  \/ f.at = "colon" /\ t = ":" /\ f2.at = "value"
  \/ Expects(f, t) /\ t \in Scalar /\ f2.at = "sep"

(* The value that is expected.                                             *)
LEMMA ValueFirst ==
  ASSUME NEW u, NEW n, NEW fs, NEW ends, NEW c, NEW s, Ahead(u, n, fs, ends, c, s),
         NEW m, NEW f, Awaited(u, f, ends, m, c), Expects(f, u[c + 1])
  PROVE  MayValue(u, ends, m, c + 1)
<1>1. CASE f.at = "value"
  BY <1>1 DEF Awaited
<1>2. CASE f.at = "next" /\ IsList(f.kind) /\ u[c + 1] # T!Closing(f.kind)
  <2>1. MayPart(u, ends, m, f.kind, c + 1)
    BY <1>2, Zenon DEF Awaited
  <2> QED BY <1>2, <2>1, Zenon DEF MayPart, IsList
<1> QED BY <1>1, <1>2 DEF Expects

(* What is next has another place in the frame.                            *)
LEMMA PlacesApart ==
  /\ \A f : f.at = "comma" => f.at \notin {"next", "colon", "value", "sep"}
  /\ \A f : f.at = "colon" => f.at \notin {"next", "comma", "value", "sep"}
  /\ \A f : f.at = "value" => f.at \notin {"next", "colon", "comma", "sep"}
  /\ \A f : f.at = "sep" => f.at \notin {"next", "colon", "value", "comma"}
  /\ \A f : f.at = "next" => f.at \notin {"comma", "colon", "value", "sep"}
BY Zenon

(* Hence only one thing is to be known of a frame.                         *)
LEMMA AwaitedIf ==
  ASSUME NEW u, NEW ends, NEW m, NEW c, NEW f
  PROVE  /\ f.at = "next" =>
              (Awaited(u, f, ends, m, c)
                 <=> \/ MayPart(u, ends, m, f.kind, c + 1)
                     \/ u[c + 1] = T!Closing(f.kind) /\ MayEnd(u, ends, m - 1, c + 1))
         /\ f.at = "colon" =>
              (Awaited(u, f, ends, m, c) <=> ~ IsList(f.kind) /\ MayColon(u, ends, m, c + 1))
         /\ f.at = "value" =>
              (Awaited(u, f, ends, m, c) <=> ~ IsList(f.kind) /\ MayValue(u, ends, m, c + 1))
         /\ f.at = "sep" => (Awaited(u, f, ends, m, c) <=> MayEnd(u, ends, m, c))
         /\ f.at = "comma" => (Awaited(u, f, ends, m, c) <=> MayPart(u, ends, m, f.kind, c + 1))
BY PlacesApart, Zenon DEF Awaited, IsList

(* A token that is consumed leaves what may come behind it.                *)
LEMMA AwaitedOn ==
  ASSUME NEW u, NEW n, NEW fs, NEW ends, NEW c, NEW s, Ahead(u, n, fs, ends, c, s),
         NEW m \in Nat \ {0}, m = Len(fs), NEW f, f = fs[m], Awaited(u, f, ends, m, c),
         NEW f2, f2.kind = f.kind, f.kind \in Opening, Consuming(f, u[c + 1], f2)
  PROVE  Awaited(u, f2, ends, m, c + 1)
<1>0. n \in Nat /\ Len(u) = n /\ c \in Nat /\ c + 1 \in 1 .. n
  BY DEF Ahead
<1>1. PICK b \in 1 .. n : b = c + 1 /\ b + 1 = (c + 1) + 1 /\ b + 1 = c + 2
  BY <1>0
<1>2. CASE f.at = "sep" /\ IsComma(u[c + 1]) /\ f2.at = "comma"
  <2>1. MayEnd(u, ends, m, c)
    BY <1>2, AwaitedIf
  <2>2. m \in 0 .. Len(fs) /\ m # 0
    OBVIOUS
  <2>3. AfterPart(u, ends, m, f.kind, c)
    BY <2>1, <2>2, AfterEnd
  <2>4. u[c + 1] # T!Closing(f.kind)
    BY <1>2, KindsApart DEF IsComma
  <2>5. MayPart(u, ends, m, f.kind, (c + 1) + 1)
    BY <1>1, <2>3, <2>4 DEF AfterPart
  <2> QED BY <1>2, <2>5, AwaitedIf
<1>3. CASE f.at = "next" /\ ~ IsList(f.kind) /\ u[c + 1] \in String /\ f2.at = "colon"
  <2>1. u[c + 1] # T!Closing(f.kind)
    BY <1>3, KindsApart
  <2>2. MayPart(u, ends, m, f.kind, b)
    BY <1>1, <1>3, <2>1, AwaitedIf
  <2>3. MayColon(u, ends, m, (c + 1) + 1)
    BY <1>0, <1>1, <1>3, <2>2, FirstOfPart
  <2> QED BY <1>3, <2>3, AwaitedIf
<1>4. CASE f.at = "colon" /\ u[c + 1] = ":" /\ f2.at = "value"
  <2>1. ~ IsList(f.kind) /\ MayColon(u, ends, m, b)
    BY <1>1, <1>4, AwaitedIf
  <2>2. MayValue(u, ends, m, (c + 1) + 1)
    BY <1>0, <1>1, <2>1, ColonFirst
  <2> QED BY <1>4, <2>1, <2>2, AwaitedIf
<1>5. CASE Expects(f, u[c + 1]) /\ u[c + 1] \in Scalar /\ f2.at = "sep"
  <2>1. MayValue(u, ends, m, b)
    BY <1>1, <1>5, ValueFirst
  <2>2. MayEnd(u, ends, m, c + 1)
    BY <1>0, <1>1, <1>5, <2>1, FirstOfValue
  <2> QED BY <1>5, <2>2, AwaitedIf
<1> QED BY <1>2, <1>3, <1>4, <1>5 DEF Consuming

(* The way goes on in the innermost frame.                                 *)
LEMMA TopWay ==
  ASSUME NEW u, NEW fs, NEW fs2, NEW m, OtherTop(fs, fs2, m), NEW ends, NEW s,
         Onward(u, fs, ends, s), NEW c, Awaited(u, fs2[m], ends, m, c)
  PROVE  Way(u, fs2, c, s)
<1>1. /\ m \in Nat \ {0} /\ Len(fs) = m /\ Len(fs2) = m
      /\ \A k \in 1 .. m : fs2[k].kind = fs[k].kind
  BY DEF OtherTop
<1>2. Onward(u, fs2, ends, s)
  BY <1>1, OnwardStays
<1>3. fs2 # <<>>
  BY <1>1
<1> QED BY <1>1, <1>2, <1>3 DEF Way

(* A token is consumed there.                                              *)
LEMMA ConsumingWay ==
  ASSUME NEW u, NEW n \in Nat, Len(u) = n, NEW fs, NEW fs2, NEW m, OtherTop(fs, fs2, m),
         fs[m].kind \in Opening, NEW c \in Nat, c + 1 <= n, NEW s, Way(u, fs, c, s),
         Consuming(fs[m], u[c + 1], fs2[m])
  PROVE  Way(u, fs2, c + 1, s)
<1>1. m \in Nat \ {0} /\ Len(fs) = m /\ fs # <<>> /\ fs2[m].kind = fs[m].kind
  BY DEF OtherTop
<1>2. PICK ends : Onward(u, fs, ends, s) /\ Awaited(u, fs[m], ends, m, c)
  BY <1>1 DEF Way
<1>3. Ahead(u, n, fs, ends, c, s)
  BY <1>2 DEF Ahead
<1>4. Awaited(u, fs2[m], ends, m, c + 1)
  BY <1>1, <1>2, <1>3, AwaitedOn
<1> QED BY <1>2, <1>4, TopWay

(* An element is added: what is behind it stays.                           *)
LEMMA AddedWay ==
  ASSUME NEW u, NEW n \in Nat, Len(u) = n, NEW fs, NEW fs2, NEW m, OtherTop(fs, fs2, m),
         fs[m].kind \in Opening, NEW c \in Nat, c + 1 <= n, NEW s, Way(u, fs, c, s),
         fs[m].at = "comma" \/ (fs[m].at = "sep" /\ ~ IsComma(u[c + 1])),
         fs2[m].at = "next"
  PROVE  Way(u, fs2, c, s)
<1>1. m \in Nat \ {0} /\ Len(fs) = m /\ fs # <<>> /\ fs2[m].kind = fs[m].kind
  BY DEF OtherTop
<1>2. PICK ends : Onward(u, fs, ends, s) /\ Awaited(u, fs[m], ends, m, c)
  BY <1>1 DEF Way
<1>3. Ahead(u, n, fs, ends, c, s)
  BY <1>2 DEF Ahead
<1>4. CASE fs[m].at = "comma"
  <2>1. MayPart(u, ends, m, fs2[m].kind, c + 1)
    BY <1>1, <1>2, <1>4, AwaitedIf
  <2>2. Awaited(u, fs2[m], ends, m, c)
    BY <2>1, AwaitedIf
  <2> QED BY <1>2, <2>2, TopWay
<1>5. CASE fs[m].at = "sep" /\ ~ IsComma(u[c + 1])
  <2>1. MayEnd(u, ends, m, c)
    BY <1>2, <1>5, AwaitedIf
  <2>2. m \in 0 .. Len(fs) /\ m # 0
    BY <1>1
  <2>3. AfterPart(u, ends, m, fs[m].kind, c)
    BY <1>3, <2>1, <2>2, AfterEnd
  <2>4. u[c + 1] = T!Closing(fs2[m].kind) /\ MayEnd(u, ends, m - 1, c + 1)
    BY <1>1, <1>5, <2>3 DEF AfterPart, IsComma
  <2>5. Awaited(u, fs2[m], ends, m, c)
    BY <2>4, AwaitedIf
  <2> QED BY <1>2, <2>5, TopWay
<1> QED BY <1>4, <1>5

(* A container begins.                                                     *)
LEMMA OpenedWay ==
  ASSUME NEW u, NEW n \in Nat, Len(u) = n, NEW fs, NEW fs2, NEW m, NEW t \in Opening,
         OneMore(fs, fs2, m), fs2[m + 1].kind = t, NEW c \in Nat, c + 1 <= n, u[c + 1] = t,
         NEW s, NEW ends, Onward(u, fs, ends, s), MayValue(u, ends, m, c + 1)
  PROVE  Way(u, fs2, c + 1, s)
<1>1. Deeper(fs, fs2, m, t) /\ Len(fs2) = m + 1 /\ m \in Nat
  BY DEF Deeper, OneMore
<1>2. PICK b \in 1 .. n : b = c + 1
  OBVIOUS
<1>3. PICK ends2 : Onward(u, fs2, ends2, s) /\ First(u, ends2, m, t, b)
  BY <1>1, <1>2, NewFirst
<1>4. PICK f : f = fs2[m + 1]
  OBVIOUS
<1>5. f.at = "next" /\ f.kind = t
  BY <1>4 DEF OneMore
<1>6. (m + 1) - 1 = m
  BY <1>1
<1>7. Awaited(u, f, ends2, m + 1, b)
  BY <1>3, <1>5, <1>6, AwaitedIf DEF First
<1>8. fs2 # <<>>
  BY <1>1
<1> QED BY <1>1, <1>2, <1>3, <1>4, <1>7, <1>8 DEF Way

(* ... inside another, or at the top level                                 *)
LEMMA OpenedInWay ==
  ASSUME NEW u, NEW n \in Nat, Len(u) = n, NEW fs, NEW fs2, NEW m, NEW t \in Opening,
         OneMore(fs, fs2, m), fs2[m + 1].kind = t, NEW c \in Nat, c + 1 <= n, u[c + 1] = t,
         NEW s, m # 0, Way(u, fs, c, s), Expects(fs[m], t)
  PROVE  Way(u, fs2, c + 1, s)
<1>1. m \in Nat \ {0} /\ Len(fs) = m /\ fs # <<>>
  BY DEF OneMore
<1>2. PICK ends : Onward(u, fs, ends, s) /\ Awaited(u, fs[m], ends, m, c)
  BY <1>1 DEF Way
<1>3. Ahead(u, n, fs, ends, c, s)
  BY <1>2 DEF Ahead
<1>4. MayValue(u, ends, m, c + 1)
  BY <1>2, <1>3, ValueFirst
<1> QED BY <1>2, <1>4, OpenedWay

(* A container ends, inside another.                                       *)
LEMMA ClosedInWay ==
  ASSUME NEW u, NEW n \in Nat, Len(u) = n, NEW fs, NEW fs2, NEW m, OneLess(fs, fs2, m),
         fs[m].kind \in Opening, NEW c \in Nat, c + 1 <= n, NEW s, Way(u, fs, c, s),
         fs[m].at = "next", u[c + 1] = T!Closing(fs[m].kind),
         \A k \in 1 .. m - 1 : fs2[k].kind = fs[k].kind
  PROVE  Way(u, fs2, c + 1, s)
<1>1. /\ m \in Nat /\ m >= 2 /\ Len(fs) = m /\ Len(fs2) = m - 1 /\ fs # <<>> /\ fs2 # <<>>
      /\ fs2[m - 1].at = "sep"
  BY DEF OneLess
<1>2. PICK ends : Onward(u, fs, ends, s) /\ Awaited(u, fs[m], ends, m, c)
  BY <1>1 DEF Way
<1>3. MayEnd(u, ends, m - 1, c + 1)
  <2>1. PICK b \in 1 .. n : b = c + 1
    OBVIOUS
  <2>2. ~ PartBegins(fs[m].kind, u[b])
    BY <2>1, KindsApart DEF PartBegins
  <2>3. ~ MayPart(u, ends, m, fs[m].kind, b)
    BY <2>2, FirstOfPart
  <2> QED BY <1>2, <2>1, <2>3, AwaitedIf
<1>4. Awaited(u, fs2[m - 1], ends, m - 1, c + 1)
  BY <1>1, <1>3, AwaitedIf
<1>5. Onward(u, fs2, ends, s)
  BY <1>1, <1>2, OnwardStays
<1> QED BY <1>1, <1>4, <1>5 DEF Way

(* ... or the statement with it                                            *)
LEMMA ClosedLastWay ==
  ASSUME NEW u, NEW n \in Nat, Len(u) = n, NEW fs, Len(fs) = 1, fs[1].kind \in Opening,
         NEW c \in Nat, c + 1 <= n, NEW s, Way(u, fs, c, s),
         fs[1].at = "next", u[c + 1] = T!Closing(fs[1].kind)
  PROVE  Way(u, <<>>, c + 1, s)
<1>1. fs # <<>> /\ Len(<<>>) = 0 /\ 1 - 1 = 0
  OBVIOUS
<1>2. PICK ends : Onward(u, fs, ends, s) /\ Awaited(u, fs[1], ends, 1, c)
  BY <1>1 DEF Way
<1>3. MayEnd(u, ends, 0, c + 1)
  <2>1. PICK b \in 1 .. n : b = c + 1
    OBVIOUS
  <2>2. ~ PartBegins(fs[1].kind, u[b])
    BY <2>1, KindsApart DEF PartBegins
  <2>3. ~ MayPart(u, ends, 1, fs[1].kind, b)
    BY <2>2, FirstOfPart
  <2> QED BY <1>1, <1>2, <2>1, <2>3, AwaitedIf
<1>4. Onward(u, <<>>, ends, s)
  BY <1>1, <1>2, OnwardStays
<1> QED BY <1>3, <1>4 DEF Way

(* What comes at the top level.                                            *)
LEMMA StatementWay ==
  ASSUME NEW u, NEW n \in Nat, Len(u) = n, NEW c \in Nat, c + 1 <= n, NEW s,
         Way(u, <<>>, c, s)
  PROVE  \/ u[c + 1] = "EOF"
         \/ u[c + 1] \in Scalar /\ c = 0 /\ Way(u, <<>>, 1, s)
         \/ /\ u[c + 1] \in Opening /\ (s => c = 0)
            /\ \A fs2 : OneMore(<<>>, fs2, 0) /\ fs2[1].kind = u[c + 1] => Way(u, fs2, c + 1, s)
<1>1. PICK ends : Onward(u, <<>>, ends, s) /\ MayEnd(u, ends, 0, c)
  BY DEF Way
<1>2. Ahead(u, n, <<>>, ends, c, s) /\ 0 \in 0 .. Len(<<>>)
  BY <1>1 DEF Ahead
<1>3. AfterText(u, ends, c, s)
  BY <1>1, <1>2, AfterEnd
<1>4. PICK b \in 1 .. n : b = c + 1
  OBVIOUS
<1>5. CASE Another(u, c, s) /\ MayValue(u, ends, 0, b)
  <2>1. /\ u[b] \in Scalar \cup Opening
        /\ u[b] \in Scalar => MayEnd(u, ends, 0, b)
    BY <1>5, FirstOfValue
  <2>2. c = 0 \/ (~ s /\ u[b] \in Opening)
    BY <1>4, <1>5, KindsApart DEF Another
  <2>3. CASE u[b] \in Scalar
    <3>1. c = 0 /\ b = 1
      <4>1. u[b] \notin Opening
        BY <2>3, KindsApart
      <4>2. c = 0
        BY <2>2, <4>1
      <4> QED BY <1>4, <4>2
    <3>2. Way(u, <<>>, b, s)
      BY <1>1, <2>1, <2>3 DEF Way
    <3> QED BY <1>4, <2>3, <3>1, <3>2
  <2>4. CASE u[b] \in Opening
    <3>1. ASSUME NEW fs2, OneMore(<<>>, fs2, 0), fs2[1].kind = u[b]
          PROVE  Way(u, fs2, c + 1, s)
      <4>1. 0 + 1 = 1
        OBVIOUS
      <4> QED BY <1>1, <1>4, <1>5, <2>4, <3>1, <4>1, OpenedWay
    <3> QED BY <1>4, <2>2, <2>4, <3>1
  <2> QED BY <2>1, <2>3, <2>4
<1> QED BY <1>3, <1>4, <1>5 DEF AfterText

-----------------------------------------------------------------------------
(* The way begins where there is a text.                                   *)
LEMMA EndsWay ==
  ASSUME NEW u, NEW n \in Nat, Len(u) = n, NEW s, NEW D \in SUBSET (0 .. n - 1), n = 0 \/ 0 \in D,
         \A ends : ends[0] = D => \A j \in D : AfterText(u, ends, j, s)
  PROVE  Way(u, <<>>, 0, s)
<1>1. PICK ends : ends = [k \in {0} |-> D]
  OBVIOUS
<1>2. ends[0] = D /\ Len(<<>>) = 0
  BY <1>1
<1>3. Onward(u, <<>>, ends, s)
  <2>1. \A k \in 0 .. Len(<<>>) : k = 0
    BY <1>2
  <2>2. \A j \in D : j \in 0 .. Len(u) - 1 /\ AfterText(u, ends, j, s)
    BY <1>2
  <2> QED BY <1>2, <2>1, <2>2 DEF Onward
<1>4. MayEnd(u, ends, 0, 0)
  BY <1>2 DEF MayEnd
<1> QED BY <1>3, <1>4 DEF Way

(* The values of a text up to e, and what is behind them.                  *)
LEMMA JointsWay ==
  ASSUME NEW u, NEW n \in Nat, Len(u) = n, NEW s, NEW e \in 0 .. n, NEW R, Joints(u, s, e, R),
         \A ends : e < n => AfterText(u, ends, e, s)
  PROVE  Way(u, <<>>, 0, s)
<1> DEFINE D == {j \in R \cup {e} : j < n}
<1>1. R \in SUBSET (0 .. e - 1) /\ (e = 0 \/ 0 \in R)
  BY DEF Joints
<1>2. D \in SUBSET (0 .. n - 1) /\ (n = 0 \/ 0 \in D)
  <2>1. D \in SUBSET (0 .. n - 1)
    <3>1. \A j \in R : j \in 0 .. n
      BY <1>1
    <3>2. \A j \in D : j \in 0 .. n /\ j < n
      BY <3>1
    <3>3. \A j \in D : j \in 0 .. n - 1
      BY <3>2
    <3> QED BY <3>3
  <2>2. CASE e = 0
    BY <2>1, <2>2
  <2>3. CASE e # 0
    <3>1. 0 \in R /\ (n = 0 \/ 0 < n)
      BY <1>1, <2>3
    <3> QED BY <2>1, <3>1
  <2> QED BY <2>2, <2>3
<1>3. \A j \in D : j \in R \/ (j = e /\ e < n)
  OBVIOUS
<1>4. \A j : (j \in R \/ j = e) /\ j < n => j \in D
  OBVIOUS
<1> HIDE DEF D
<1>5. ASSUME NEW ends, ends[0] = D, NEW i \in D PROVE AfterText(u, ends, i, s)
  <2>1. ASSUME i \in R PROVE AfterText(u, ends, i, s)
    <3>1. PICK j \in i + 1 .. e : T!Readings(u, i + 1, j) # {} /\ (j = e \/ j \in R)
      BY <2>1 DEF Joints
    <3>2. j \in i + 1 .. n
      BY <1>1, <2>1, <3>1
    <3>3. MayEnd(u, ends, 0, j)
      <4>1. j = n \/ j < n
        BY <1>1, <2>1, <3>2
      <4> QED BY <1>4, <1>5, <3>1, <4>1 DEF MayEnd
    <3>4. MayValue(u, ends, 0, i + 1)
      BY <3>1, <3>2, <3>3 DEF MayValue
    <3>5. Another(u, i, s)
      BY <2>1 DEF Joints
    <3> QED BY <3>4, <3>5 DEF AfterText
  <2> QED BY <1>3, <2>1
<1> QED BY <1>2, <1>5, EndsWay

(* Where a text is shortened by its end, the values stay.                  *)
LEMMA JointsStay ==
  ASSUME NEW n \in Nat, NEW t, NEW u, BeginsWith(u, t, n), NEW s, NEW R, Joints(t, s, n, R)
  PROVE  Joints(u, s, n, R)
<1>1. R \in SUBSET (0 .. n - 1) /\ (n = 0 \/ 0 \in R)
  BY DEF Joints
<1>2. ASSUME NEW i \in R
      PROVE  /\ Another(u, i, s)
             /\ \E j \in i + 1 .. n : T!Readings(u, i + 1, j) # {} /\ (j = n \/ j \in R)
  <2>1. i + 1 \in 1 .. n
    BY <1>1
  <2>2. u[i + 1] = t[i + 1]
    BY <2>1 DEF BeginsWith
  <2>3. Another(u, i, s)
    BY <2>2 DEF Joints, Another
  <2>4. PICK j \in i + 1 .. n : T!Readings(t, i + 1, j) # {} /\ (j = n \/ j \in R)
    BY DEF Joints
  <2>5. j \in 1 .. n /\ i + 1 <= j
    BY <1>1, <2>1
  <2>6. T!Readings(u, i + 1, j) = T!Readings(t, i + 1, j)
    BY <2>1, <2>5, ReadingsSame
  <2> QED BY <2>3, <2>4, <2>6
<1> QED BY <1>1, <1>2 DEF Joints

(* What is in front of the last token.                                     *)
LEMMA FrontIs ==
  ASSUME NEW u \in Seq(Token), NEW n \in Nat, Len(u) = n + 1
  PROVE  /\ Front(u) \in Seq(Token) /\ Len(Front(u)) = n /\ \A i \in 1 .. n : Front(u)[i] = u[i]
         /\ u # <<>> /\ Last(u) = u[n + 1]
BY DEF Front, Last

(* Before the first token, every text that is one or goes on to one may    *)
(* come.                                                                   *)
LEMMA FirstWay ==
  ASSUME NEW u \in Seq(Token), NEW s, Viable(u, s)
  PROVE  Way(u, <<>>, 0, s)
<1>1. PICK n \in Nat : n = Len(u)
  OBVIOUS
<1>2. CASE u # <<>> /\ Last(u) = "EOF"
  <2>1. PICK e \in Nat : n = e + 1
    <3>1. n # 0
      BY <1>1, <1>2
    <3>2. n - 1 \in Nat /\ n = (n - 1) + 1
      BY <3>1
    <3> QED BY <3>2
  <2>2. PICK t : t = Front(u)
    OBVIOUS
  <2>3. /\ Len(t) = e /\ \A i \in 1 .. e : t[i] = u[i]
        /\ u[e + 1] = "EOF"
    BY <1>1, <1>2, <2>1, <2>2, FrontIs
  <2>4. BeginsWith(u, t, e)
    BY <1>1, <2>1, <2>3 DEF BeginsWith
  <2>5. T!Prefixes(t, s)[e] # {}
    BY <1>2, <2>2, <2>3 DEF Viable, T!Texts
  <2>6. PICK R : Joints(t, s, e, R)
    <3>1. e \in 0 .. e
      OBVIOUS
    <3> QED BY <2>3, <2>5, <3>1, TextJoints
  <2>7. Joints(u, s, e, R)
    BY <2>4, <2>6, JointsStay
  <2>8. \A ends : AfterText(u, ends, e, s)
    BY <2>3 DEF AfterText
  <2>9. e \in 0 .. n
    BY <2>1
  <2> QED BY <1>1, <2>7, <2>8, <2>9, JointsWay
<1>3. CASE ~ (u # <<>> /\ Last(u) = "EOF")
  <2>1. T!BeginsText(u, s)
    BY <1>3 DEF Viable
  <2>2. CASE T!Begins(u, 1, T!Unclosed(u))
    <3>1. PICK R : R = {}
      OBVIOUS
    <3>2. Joints(u, s, 0, R) /\ 0 \in 0 .. n
      BY <1>1, <3>1 DEF Joints
    <3>3. ASSUME NEW ends PROVE AfterText(u, ends, 0, s)
      <4>1. 0 + 1 = 1
        OBVIOUS
      <4> QED BY <2>2, <4>1 DEF AfterText, Another, MayValue
    <3> QED BY <1>1, <3>2, <3>3, JointsWay
  <2>3. ASSUME ~ s, NEW k \in 1 .. n, T!Prefixes(u, FALSE)[k] # {},
               k < n => u[k + 1] \in T!Opening /\ T!Begins(u, k + 1, T!Unclosed(u))
        PROVE  Way(u, <<>>, 0, s)
    <3>0. k \in 0 .. n
      OBVIOUS
    <3>1. PICK R : Joints(u, FALSE, k, R)
      BY <1>1, <2>3, <3>0, TextJoints
    <3>2. Joints(u, s, k, R)
      BY <2>3, <3>1 DEF Joints, Another
    <3>3. ASSUME NEW ends, k < n PROVE AfterText(u, ends, k, s)
      BY <2>3, <3>3 DEF AfterText, Another, MayValue
    <3> QED BY <1>1, <3>0, <3>2, <3>3, JointsWay
  <2> QED BY <1>1, <2>1, <2>2, <2>3 DEF T!BeginsText
<1> QED BY <1>2, <1>3

-----------------------------------------------------------------------------
(* What has been consumed goes on to a text: its frames are lists that     *)
(* begin.                                                                  *)
Unfinished(u, k, i) == k \in T!Unclosed(u)[i]

(* The part that is at the end of the text, and begins there.              *)
LEMMA PartUnfinished ==
  ASSUME NEW u, NEW n \in Nat, Len(u) = n, NEW k \in T!Opening, NEW i \in 1 .. n + 1,
         T!BeginsPart(u, k, i, T!Unclosed(u))
  PROVE  Unfinished(u, k, i)
BY UnclosedIs DEF Unfinished

(* The list goes on with the part that is being read.                      *)
LEMMA BehindUnfinished ==
  ASSUME NEW u, NEW n \in Nat, Len(u) = n, NEW f, f.kind \in T!Opening, NEW h, Behind(u, f, h),
         h.from \in 1 .. n, h.part \in h.from + 1 .. n + 1, Unfinished(u, f.kind, h.part)
  PROVE  Unfinished(u, f.kind, h.from + 1)
<1>1. PICK a \in 1 .. n, p \in 1 .. n + 1 : a = h.from /\ p = h.part /\ a + 1 <= p
  OBVIOUS
<1>2. PICK k : k = f.kind
  OBVIOUS
<1>3. Follows(u, k, a + 1, h.list, p)
  BY <1>1, <1>2 DEF Behind
<1>4. CASE p = a + 1
  BY <1>1, <1>4
<1>5. CASE p # a + 1
  <2>1. p - 1 \in T!Commas(u, (a + 1) + 1, p - 1) /\ h.list \in T!Lists(u)[<<k, a + 1, p - 2>>]
    BY <1>3, <1>5 DEF Follows
  <2>2. IsComma(u[p - 1]) /\ p - 1 \in (a + 1) + 1 .. p - 1
    BY <2>1 DEF T!Commas, IsComma
  <2>3. PICK q \in a + 1 .. n - 1 : q = p - 2 /\ q + 1 = p - 1 /\ q + 2 = p
    BY <2>2
  <2>4. T!Lists(u)[<<k, a + 1, q>>] # {} /\ IsComma(u[q + 1]) /\ k \in T!Unclosed(u)[q + 2]
    BY <1>1, <1>2, <2>1, <2>2, <2>3 DEF Unfinished
  <2>5. a + 1 \in 1 .. n
    BY <2>3
  <2>6. k \in T!Unclosed(u)[a + 1]
    BY <1>2, <2>3, <2>4, <2>5, ListGoesOn
  <2> QED BY <1>1, <1>2, <2>6 DEF Unfinished
<1> QED BY <1>4, <1>5

(* ... of which the value begins at b.                                     *)
LEMMA AwaitsUnfinished ==
  ASSUME NEW u, NEW n \in Nat, Len(u) = n, NEW f, f.kind \in T!Opening, NEW h,
         h.from \in 1 .. n, h.part \in h.from + 1 .. n + 1,
         NEW b \in 1 .. n + 1, Awaits(u, f, h, b), T!Begins(u, b, T!Unclosed(u))
  PROVE  Unfinished(u, f.kind, h.from + 1)
<1>1. Behind(u, f, h)
  BY DEF Awaits
<1>2. PICK p \in 1 .. n + 1 : p = h.part
  OBVIOUS
<1>3. T!BeginsPart(u, f.kind, p, T!Unclosed(u))
  <2>1. CASE f.kind = "["
    <3>1. b = p
      BY <1>2, <2>1, Zenon DEF Awaits, T!ValueAt
    <3> QED BY <2>1, <3>1, Zenon DEF T!BeginsPart
  <2>2. CASE f.kind # "["
    <3>1. b = p + 2 /\ T!Named(u, p)
      BY <1>2, <2>2, Zenon DEF Awaits, T!ValueAt
    <3>2. p < n
      BY <3>1
    <3>3. T!Begins(u, p + 2, T!Unclosed(u))
      BY <3>1
    <3> QED BY <2>2, <3>1, <3>2, <3>3 DEF T!BeginsPart
  <2> QED BY <2>1, <2>2
<1>4. Unfinished(u, f.kind, h.part)
  BY <1>2, <1>3, PartUnfinished
<1> QED BY <1>1, <1>4, BehindUnfinished

(* A part of which the value ends before a comma at the end of the text.   *)
LEMMA CommaUnfinished ==
  ASSUME NEW u, NEW n \in Nat, Len(u) = n, NEW f, f.kind \in T!Opening, NEW h, NEW v,
         h.from \in 1 .. n, h.part \in h.from + 1 .. n + 1,
         Has(u, f, h, v, n - 1), IsComma(u[n])
  PROVE  Unfinished(u, f.kind, h.from + 1)
<1>1. PICK p \in 1 .. n + 1 : p = h.part
  OBVIOUS
<1>2. PICK b \in p .. n - 1 : Awaits(u, f, h, b) /\ v \in T!Readings(u, b, n - 1)
  BY <1>1 DEF Has
<1>3. PICK e \in 1 .. n : e = n - 1 /\ e + 1 = n /\ b <= e /\ b \in 1 .. n
  BY <1>2
<1>4. PICK k \in T!Opening : k = f.kind
  OBVIOUS
<1>5. T!Begun(u, k, p, e) /\ p <= b
  BY <1>1, <1>2, <1>3, <1>4, PartBegun
<1>6. T!ValueAt(k, p) = b
  BY <1>1, <1>2, <1>4 DEF Awaits
<1>7. T!PartIn(u, k, p, e)
  BY <1>2, <1>3, <1>5, <1>6, PartIs
<1>8. T!BeginsPart(u, k, n + 1, T!Unclosed(u))
  BY DEF T!BeginsPart, T!Begins
<1>9. k \in T!Unclosed(u)[n + 1]
  <2>1. n + 1 \in 1 .. n + 1
    OBVIOUS
  <2> QED BY <1>8, <2>1, UnclosedIs
<1>10. n \in T!Commas(u, p + 1, n)
  <2>1. n \in p + 1 .. n
    BY <1>2
  <2> QED BY <2>1 DEF T!Commas, IsComma
<1>11. n - 1 = e
  BY <1>3
<1>12. k \in T!Unclosed(u)[p]
  BY <1>7, <1>9, <1>10, <1>11, UnclosedIs
<1>13. Behind(u, f, h)
  BY <1>2 DEF Awaits
<1> QED BY <1>1, <1>4, <1>12, <1>13, BehindUnfinished DEF Unfinished

(* The innermost frame, at the end of the text.                            *)
LEMMA TopUnfinished ==
  ASSUME NEW u, NEW n \in Nat, Len(u) = n, NEW f, f.kind \in T!Opening, NEW h, NEW v, NEW l,
         f.at \in {"next", "colon", "value", "sep", "comma"},
         h.from \in 1 .. n, h.part \in h.from + 1 .. n + 1, ReadsTop(u, f, h, v, n, l)
  PROVE  Unfinished(u, f.kind, h.from + 1)
<1>0. T!Begins(u, n + 1, T!Unclosed(u)) /\ T!BeginsPart(u, f.kind, n + 1, T!Unclosed(u))
  BY DEF T!Begins, T!BeginsPart
<1>1. CASE f.at = "next" /\ Fresh(u, f, h, n, l)
  <2>1. Behind(u, f, h) /\ h.part = n + 1 /\ n + 1 \in 1 .. n + 1
    BY <1>1 DEF Fresh
  <2>2. Unfinished(u, f.kind, h.part)
    BY <1>0, <2>1, PartUnfinished
  <2> QED BY <2>1, <2>2, BehindUnfinished
<1>2. CASE f.at = "next" /\ Ended(u, f, h, n, l)
  <2>1. T!Lists(u)[<<f.kind, h.from + 1, n>>] # {} /\ h.from + 1 \in 1 .. n
    BY <1>2 DEF Ended
  <2> QED BY <2>1, ListGoesOut DEF Unfinished
<1>3. CASE f.at = "colon"
  <2>1. f.kind # "[" /\ Behind(u, f, h) /\ h.part = n /\ u[n] \in String
    BY <1>3 DEF ReadsTop
  <2>2. T!BeginsPart(u, f.kind, n, T!Unclosed(u))
    BY <2>1 DEF T!BeginsPart
  <2>3. n \in 1 .. n + 1
    BY <2>1
  <2>4. Unfinished(u, f.kind, h.part)
    BY <2>1, <2>2, <2>3, PartUnfinished
  <2> QED BY <2>1, <2>4, BehindUnfinished
<1>4. CASE f.at = "value"
  <2>1. Awaits(u, f, h, n + 1) /\ n + 1 \in 1 .. n + 1
    BY <1>4 DEF ReadsTop
  <2> QED BY <1>0, <2>1, AwaitsUnfinished
<1>5. CASE f.at = "sep"
  <2>1. PICK b \in h.part .. n : Awaits(u, f, h, b) /\ v \in T!Readings(u, b, n)
    BY <1>5 DEF ReadsTop, Has
  <2>2. T!Begins(u, b, T!Unclosed(u)) /\ b \in 1 .. n + 1
    BY <2>1 DEF T!Begins
  <2> QED BY <2>1, <2>2, AwaitsUnfinished
<1>6. CASE f.at = "comma"
  BY <1>6, CommaUnfinished DEF ReadsTop
<1>7. f.at = "next" => Fresh(u, f, h, n, l) \/ Ended(u, f, h, n, l)
  BY DEF ReadsTop
<1> QED BY <1>1, <1>2, <1>3, <1>4, <1>5, <1>6, <1>7

(* Where a frame that is unfinished begins, a value begins.                *)
LEMMA FrameBegins ==
  ASSUME NEW u, NEW k, NEW b, u[b] = k, Unfinished(u, k, b + 1)
  PROVE  T!Begins(u, b, T!Unclosed(u))
BY DEF T!Begins, Unfinished

(* Hence every frame is unfinished, and the outermost too.                 *)
LEMMA FramesUnfinished ==
  ASSUME NEW u, NEW n \in Nat, Len(u) = n, NEW fs, NEW m \in Nat \ {0}, Len(fs) = m,
         DOMAIN fs = 1 .. m, NEW g, NEW v, NEW p, NEW l, NEW s,
         Placed(fs, g, p, n), ReadsText(u, fs, g, v, p, n, l, s),
         \A k \in 1 .. m : /\ fs[k].kind \in T!Opening
                           /\ fs[k].at \in {"next", "colon", "value", "sep", "comma"}
  PROVE  Unfinished(u, fs[1].kind, g[1].from + 1)
<1> DEFINE S == {k \in 1 .. m : Unfinished(u, fs[k].kind, g[k].from + 1)}
<1>0. \A k \in 1 .. m : g[k].from \in 1 .. n /\ g[k].part \in g[k].from + 1 .. n + 1
  BY DEF Placed
<1>1. Unfinished(u, fs[m].kind, g[m].from + 1)
  <2>1. m \in 1 .. m /\ fs # <<>>
    OBVIOUS
  <2>2. ReadsTop(u, fs[m], g[m], v, n, l)
    BY <2>1 DEF ReadsText
  <2> QED BY <1>0, <2>1, <2>2, TopUnfinished
<1>2. S \in SUBSET Nat /\ S # {}
  BY <1>1
<1>3. /\ \A k \in S : k \in 1 .. m /\ Unfinished(u, fs[k].kind, g[k].from + 1)
      /\ \A k \in 1 .. m : Unfinished(u, fs[k].kind, g[k].from + 1) => k \in S
  OBVIOUS
<1> HIDE DEF S
<1>4. PICK a \in S : \A k \in S : a <= k
  BY <1>2, Least
<1>5. CASE a = 1
  BY <1>3, <1>5
<1>6. CASE a # 1
  <2>1. PICK k \in 1 .. m : k + 1 = a /\ k # m /\ k < a
    <3>1. a - 1 \in 1 .. m /\ (a - 1) + 1 = a /\ a - 1 # m /\ a - 1 < a
      BY <1>3, <1>6
    <3> QED BY <3>1
  <2>2. Awaits(u, fs[k], g[k], g[a].from)
    BY <2>1 DEF ReadsText
  <2>3. u[g[a].from] = fs[a].kind
    BY <1>3 DEF ReadsText
  <2>4. T!Begins(u, g[a].from, T!Unclosed(u))
    BY <1>3, <2>3, FrameBegins
  <2>5. g[a].from \in 1 .. n + 1
    <3>1. g[a].from \in 1 .. n
      BY <1>0, <1>3
    <3> QED BY <3>1
  <2>6. Unfinished(u, fs[k].kind, g[k].from + 1)
    BY <1>0, <2>2, <2>4, <2>5, AwaitsUnfinished
  <2>7. a <= k
    BY <1>3, <1>4, <2>6
  <2> QED BY <1>3, <2>1, <2>7
<1> QED BY <1>5, <1>6

(* What has been read of a text goes on to one.                            *)
LEMMA ReadBegins ==
  ASSUME NEW u, NEW n \in Nat, Len(u) = n, NEW fs, NEW m \in Nat, Len(fs) = m,
         DOMAIN fs = 1 .. m, NEW g, NEW v, NEW p, NEW l, NEW s \in BOOLEAN,
         Placed(fs, g, p, n), ReadsText(u, fs, g, v, p, n, l, s),
         \A k \in 1 .. m : /\ fs[k].kind \in T!Opening
                           /\ fs[k].at \in {"next", "colon", "value", "sep", "comma"},
         s /\ m # 0 => p.to = 0
  PROVE  T!BeginsText(u, s)
<1>1. T!Prefixes(u, s)[p.to] # {} /\ p.to \in 0 .. n
  BY DEF ReadsText, Placed
<1>2. CASE m = 0
  <2>1. p.to = n
    BY <1>2 DEF ReadsText
  <2>2. CASE n = 0
    BY <2>2 DEF T!BeginsText, T!Begins
  <2>3. CASE n # 0 /\ ~ s
    <3>1. n \in 1 .. n /\ ~ (n < n)
      BY <2>3
    <3>2. s = FALSE
      BY <2>3
    <3>3. T!Prefixes(u, FALSE)[n] # {}
      BY <1>1, <2>1, <3>2
    <3> QED BY <3>1, <3>2, <3>3 DEF T!BeginsText
  <2>4. CASE n # 0 /\ s
    <3>1. n \in 1 .. n
      BY <2>4
    <3>2. PICK i \in 0 .. n - 1 : Another(u, i, s) /\ T!Readings(u, i + 1, n) # {}
      BY <1>1, <2>1, <3>1, TextIs
    <3>3. i = 0 /\ i + 1 = 1
      BY <2>4, <3>2 DEF Another
    <3> QED BY <3>2, <3>3 DEF T!BeginsText, T!Begins
  <2> QED BY <2>2, <2>3, <2>4
<1>3. CASE m # 0
  <2>1. Unfinished(u, fs[1].kind, g[1].from + 1)
    <3>1. m \in Nat \ {0}
      BY <1>3
    <3> QED BY <3>1, FramesUnfinished
  <2>2. fs # <<>> /\ 1 \in 1 .. m
    BY <1>3
  <2>3. g[1].from = p.to + 1 /\ u[g[1].from] = fs[1].kind /\ g[1].from \in 1 .. n
    BY <2>2 DEF ReadsText, Placed
  <2>4. T!Begins(u, p.to + 1, T!Unclosed(u))
    BY <2>1, <2>3, FrameBegins
  <2>5. CASE p.to = 0
    <3>1. p.to + 1 = 1
      BY <2>5
    <3> QED BY <2>4, <3>1 DEF T!BeginsText
  <2>6. CASE p.to # 0
    <3>1. s = FALSE
      BY <1>3, <2>6
    <3>2. p.to \in 1 .. n
      BY <1>1, <2>6
    <3>3. u[p.to + 1] \in T!Opening
      BY <2>2, <2>3
    <3> QED BY <1>1, <2>4, <3>1, <3>2, <3>3 DEF T!BeginsText
  <2> QED BY <2>5, <2>6
<1> QED BY <1>2, <1>3

-----------------------------------------------------------------------------
(* u goes on with t behind what has been consumed, to a whole text.        *)
Scene(u, t) ==
  /\ Len(u) \in Nat /\ Consumed \in Nat /\ Consumed + 1 <= Len(u) /\ u[Consumed + 1] = t
  /\ Way(u, frames, Consumed, strict)

(* A step does not refuse it, save for the depth.                          *)
Fares(u) ==
  /\ outcome' \in {"ok", "NESTING"}
  /\ outcome' = "ok" => Way(u, frames', Consumed', strict')

(* There are frames.                                                       *)
LEMMA SomeFrames ==
  ASSUME Typed, frames # <<>>
  PROVE  Len(frames) \in Nat \ {0}
<1>1. PICK s \in Seq(Frames) : s = frames
  BY DEF Typed
<1> QED BY <1>1, Shortened

(* t fits the innermost frame.                                             *)
LEMMA TopFits ==
  ASSUME Typed, frames # <<>>, NEW u, NEW t, Scene(u, t)
  PROVE  Fits(Top, t) /\ Top.kind \in Opening
<1>1. PICK m \in Nat \ {0} : m = Len(frames) /\ Top = frames[m]
  BY TopThere, SomeFrames
<1>2. PICK c \in Nat : c = Consumed
  BY DEF Scene
<1>3. PICK n \in Nat : n = Len(u)
  BY DEF Scene
<1>4. PICK ends : Onward(u, frames, ends, strict) /\ Awaited(u, frames[m], ends, m, c)
  BY <1>1, <1>2 DEF Scene, Way
<1>5. Ahead(u, n, frames, ends, c, strict) /\ u[c + 1] = t
  BY <1>2, <1>3, <1>4 DEF Ahead, Scene
<1>6. Fits(frames[m], u[c + 1])
  BY <1>1, <1>4, <1>5, Fitting
<1> QED BY <1>1, <1>5, <1>6, TopThere DEF Frames

(* The innermost frame consumes t.                                         *)
LEMMA TurnFares ==
  ASSUME Typed, Heard, Peeked, frames # <<>>, NEW t \in Token, See(t), Eat(t), t # "EOF",
         NEW f, frames' = Append(Front(frames), f), f.kind = Top.kind, Consuming(Top, t, f),
         outcome' = "ok", strict' = strict, NEW u, Scene(u, t)
  PROVE  Fares(u)
<1>1. PICK m : m = Len(frames)
  OBVIOUS
<1>2. OtherTop(frames, frames', m) /\ Top = frames[m] /\ frames'[m] = f /\ Top.kind \in Opening
  BY <1>1, TopOther, TopThere DEF Frames
<1>3. PICK c \in Nat : c = Consumed
  BY DEF Scene
<1>4. PICK n \in Nat : n = Len(u) /\ c + 1 <= n /\ u[c + 1] = t
  BY <1>3 DEF Scene
<1>5. Way(u, frames, c, strict)
  BY <1>3 DEF Scene
<1>6. Way(u, frames', c + 1, strict)
  BY <1>2, <1>4, <1>5, ConsumingWay
<1>7. Consumed' = c + 1
  BY <1>3, Consumes
<1> QED BY <1>6, <1>7 DEF Fares

(* An element is added.                                                    *)
LEMMA AddFares ==
  ASSUME Typed, Heard, Peeked, frames # <<>>, NEW t \in Token, See(t), Keep(t),
         NEW x, Add(x), Top.at = "comma" \/ (Top.at = "sep" /\ ~ IsComma(t)),
         outcome = "ok", strict' = strict, NEW u, Scene(u, t)
  PROVE  Fares(u)
<1>1. PICK m : m = Len(frames)
  OBVIOUS
<1>2. PICK f : f = Holding(Top)
  OBVIOUS
<1>3. frames' = Append(Front(frames), f) /\ outcome' = "ok"
  BY <1>2 DEF Add, Replace
<1>4. f.kind = Top.kind /\ f.at = "next"
  BY <1>2, TopThere DEF Holding, Frames
<1>5. OtherTop(frames, frames', m) /\ Top = frames[m] /\ frames'[m] = f /\ Top.kind \in Opening
  BY <1>1, <1>3, <1>4, TopOther, TopThere DEF Frames
<1>6. PICK c \in Nat : c = Consumed
  BY DEF Scene
<1>7. PICK n \in Nat : n = Len(u) /\ c + 1 <= n /\ u[c + 1] = t
  BY <1>6 DEF Scene
<1>8. Way(u, frames, c, strict)
  BY <1>6 DEF Scene
<1>9. Way(u, frames', c, strict)
  BY <1>4, <1>5, <1>7, <1>8, AddedWay
<1>10. Consumed' = c
  BY <1>6, Peeks
<1> QED BY <1>3, <1>9, <1>10 DEF Fares

(* A container begins.                                                     *)
LEMMA OpenFares ==
  ASSUME Typed, Heard, Peeked, frames # <<>>, NEW t \in Opening, t \in Token, t # "EOF", See(t),
         Open(t), Expects(Top, t), outcome = "ok", strict' = strict, NEW u, Scene(u, t)
  PROVE  Fares(u)
<1>1. CASE Len(frames) >= MaxDepth
  BY <1>1 DEF Open, Fail, Finish, Fares
<1>2. CASE ~ (Len(frames) >= MaxDepth)
  <2>1. Begin(t, nodes) /\ outcome' = "ok"
    BY <1>2 DEF Open
  <2>2. PICK k : frames' = Append(frames, Opened(t, k))
    BY <2>1 DEF Begin
  <2>3. PICK m : m = Len(frames)
    OBVIOUS
  <2>4. OneMore(frames, frames', m) /\ frames'[m + 1].kind = t /\ m # 0 /\ Top = frames[m]
    BY <2>2, <2>3, OneOpened, SomeFrames
  <2>5. PICK c \in Nat : c = Consumed
    BY DEF Scene
  <2>6. PICK n \in Nat : n = Len(u) /\ c + 1 <= n /\ u[c + 1] = t
    BY <2>5 DEF Scene
  <2>7. Way(u, frames, c, strict)
    BY <2>5 DEF Scene
  <2>8. Way(u, frames', c + 1, strict)
    BY <2>4, <2>6, <2>7, OpenedInWay
  <2>9. Consumed' = c + 1
    BY <2>1, <2>5, Consumes DEF Begin
  <2> QED BY <2>1, <2>8, <2>9 DEF Fares
<1> QED BY <1>1, <1>2

(* An element that is a value.                                             *)
LEMMA ValueFares ==
  ASSUME Typed, Heard, Peeked, frames # <<>>, NEW t \in Scalar, t \in Token, t # "EOF", See(t),
         Value(t), Expects(Top, t), outcome = "ok", strict' = strict, NEW u, Scene(u, t)
  PROVE  Fares(u)
<1>1. PICK f : f = [Top EXCEPT !.elem = Len(nodes) + 1, !.at = "sep"]
  OBVIOUS
<1>2. t # "IDENT"
  BY DEF Scalar, String
<1>3. frames' = Append(Front(frames), f) /\ outcome' = "ok" /\ Eat(t)
  BY <1>1, <1>2 DEF Value, Replace
<1>4. f.kind = Top.kind /\ f.at = "sep"
  BY <1>1, TopThere DEF Frames
<1>5. Consuming(Top, t, f)
  BY <1>4 DEF Consuming
<1> QED BY <1>3, <1>4, <1>5, TurnFares

(* A container ends.                                                       *)
LEMMA CloseFares ==
  ASSUME Typed, Heard, Peeked, frames # <<>>, NEW t \in Token, t # "EOF", See(t), Close(t),
         Top.at = "next", t = T!Closing(Top.kind), outcome = "ok", strict' = strict,
         NEW u, Scene(u, t)
  PROVE  Fares(u)
<1>1. PICK m : m = Len(frames)
  OBVIOUS
<1>2. PICK c \in Nat : c = Consumed
  BY DEF Scene
<1>3. PICK n \in Nat : n = Len(u) /\ c + 1 <= n /\ u[c + 1] = t
  BY <1>2 DEF Scene
<1>4. Way(u, frames, c, strict)
  BY <1>2 DEF Scene
<1>5. Consumed' = c + 1
  BY <1>2, Consumes DEF Close
<1>6. Top = frames[m] /\ Top.kind \in Opening /\ m \in DOMAIN frames
  BY <1>1, TopThere DEF Frames
<1>7. CASE Front(frames) # <<>>
  <2>1. /\ frames' = Append(Front(Front(frames)),
                            [Last(Front(frames)) EXCEPT !.elem = Top.node, !.at = "sep"])
        /\ outcome' = "ok"
    BY <1>7 DEF Close
  <2>2. /\ OneLess(frames, frames', m) /\ Len(frames') = m - 1
        /\ \A k \in DOMAIN frames' : frames'[k].kind = frames[k].kind
    BY <1>1, <1>7, <2>1, Popped
  <2>3. \A k \in 1 .. m - 1 : frames'[k].kind = frames[k].kind
    BY <2>2 DEF OneLess
  <2>4. Way(u, frames', c + 1, strict)
    BY <1>3, <1>4, <1>6, <2>2, <2>3, ClosedInWay
  <2> QED BY <1>5, <2>1, <2>4 DEF Fares
<1>8. CASE Front(frames) = <<>>
  <2>1. frames' = <<>> /\ outcome' = "ok"
    BY <1>8 DEF Close, Finish
  <2>2. m = 1
    <3>1. PICK s \in Seq(Frames) : s = frames
      BY DEF Typed
    <3>2. Len(Front(s)) = Len(s) - 1 /\ Len(s) \in Nat \ {0}
      BY <3>1, Shortened
    <3>3. PICK r : r = Front(s) /\ r = <<>>
      BY <1>8, <3>1
    <3>4. Len(r) = 0
      BY <3>3
    <3>5. Len(s) = 1
      BY <3>2, <3>3, <3>4
    <3> QED BY <1>1, <3>1, <3>5
  <2>3. Way(u, <<>>, c + 1, strict)
    BY <1>1, <1>3, <1>4, <1>6, <2>2, ClosedLastWay
  <2> QED BY <1>5, <2>1, <2>3 DEF Fares
<1> QED BY <1>7, <1>8

(* json_parse_array.                                                       *)
LEMMA ArrayFares ==
  ASSUME Good, Settled, Heard, Peeked, state = "inside", outcome = "ok", NEW t \in Token, See(t),
         strict' = strict, NEW u, Scene(u, t), ArrayNext(t) \/ ArraySep(t) \/ ArrayComma(t)
  PROVE  Fares(u)
<1>0. Typed /\ frames # <<>> /\ Fits(Top, t) /\ Top \in Frames
  BY TopFits, TopThere DEF Good, Settled
<1>1. CASE ArrayNext(t)
  <2>1. Top.kind = "[" /\ Top.at = "next"
    BY <1>1, Zenon DEF ArrayNext
  <2>2. IsList(Top.kind) /\ T!Closing(Top.kind) = T!Closing("[") /\ T!Closing("[") = "]"
    BY <2>1, Brackets, Zenon
  <2>3. t = "]" \/ t \in Opening \/ t \in Scalar
    BY <1>0, <2>1, <2>2, Zenon DEF Fits, PartBegins
  <2>4. CASE t = "]"
    <3>1. Close(t)
      BY <1>1, <2>4 DEF ArrayNext, Opening
    <3>2. t = T!Closing(Top.kind) /\ t # "EOF"
      BY <2>2, <2>4, Brackets, Zenon
    <3> QED BY <1>0, <2>1, <3>1, <3>2, CloseFares, Zenon
  <2>5. CASE t \in Opening
    <3>1. t # "]" /\ t # "EOF" /\ Expects(Top, t)
      BY <2>1, <2>2, <2>5, Ordinary, Zenon DEF Expects
    <3>2. Open(t)
      BY <1>1, <2>5, <3>1 DEF ArrayNext
    <3> QED BY <1>0, <2>5, <3>1, <3>2, OpenFares, Zenon
  <2>6. CASE t \in Scalar
    <3>1. t # "]" /\ t # "EOF" /\ Expects(Top, t)
      BY <2>1, <2>2, <2>6, Ordinary, Zenon DEF Expects
    <3>2. t \notin Opening
      BY <2>6, KindsApart
    <3>3. Value(t)
      BY <1>1, <3>1, <3>2 DEF ArrayNext
    <3> QED BY <1>0, <2>6, <3>1, <3>3, ValueFares, Zenon
  <2> QED BY <2>3, <2>4, <2>5, <2>6
<1>2. CASE ArraySep(t)
  <2>1. Top.kind = "[" /\ Top.at = "sep"
    BY <1>2, Zenon DEF ArraySep
  <2>2. IsComma(t) \/ t = "]"
    BY <1>0, <2>1, Brackets, Zenon DEF Fits
  <2>3. CASE IsComma(t)
    <3>1. PICK f : f = [Top EXCEPT !.at = "comma"]
      OBVIOUS
    <3>2. Eat(t) /\ Turn(f) /\ t # "EOF"
      BY <1>2, <2>3, <3>1 DEF ArraySep, IsComma
    <3>3. f.kind = Top.kind /\ f.at = "comma"
      BY <1>0, <3>1 DEF Frames
    <3>4. frames' = Append(Front(frames), f) /\ outcome' = "ok"
      BY <3>2 DEF Turn, Replace
    <3>5. Consuming(Top, t, f)
      BY <2>1, <2>3, <3>3 DEF Consuming
    <3> QED BY <1>0, <3>2, <3>3, <3>4, <3>5, TurnFares
  <2>4. CASE t = "]"
    <3>1. Keep(t) /\ Add("array-element") /\ ~ IsComma(t)
      BY <1>2, <2>4 DEF ArraySep, IsComma
    <3> QED BY <1>0, <2>1, <3>1, AddFares, Zenon
  <2> QED BY <2>2, <2>3, <2>4
<1>3. CASE ArrayComma(t)
  <2>1. Top.kind = "[" /\ Top.at = "comma" /\ Keep(t)
    BY <1>3, Zenon DEF ArrayComma
  <2>2. IsList(Top.kind)
    BY <2>1, Brackets, Zenon
  <2>3. t \in Opening \/ t \in Scalar
    BY <1>0, <2>1, <2>2, Zenon DEF Fits, PartBegins
  <2>4. t # "]"
    BY <2>3, Ordinary, Brackets, Zenon
  <2>5. Add("array-element")
    BY <1>3, <2>4 DEF ArrayComma
  <2> QED BY <1>0, <2>1, <2>5, AddFares, Zenon
<1> QED BY <1>1, <1>2, <1>3

(* json_parse_object.                                                      *)
LEMMA ObjectFares ==
  ASSUME Good, Settled, Heard, Peeked, state = "inside", outcome = "ok", NEW t \in Token, See(t),
         strict' = strict, NEW u, Scene(u, t),
         \/ ObjectNext(t) \/ ObjectColon(t) \/ ObjectValue(t)
         \/ ObjectSep(t) \/ ObjectComma(t)
  PROVE  Fares(u)
<1>0. Typed /\ frames # <<>> /\ Fits(Top, t) /\ Top \in Frames
  BY TopFits, TopThere DEF Good, Settled
<1>1. Top.kind = "{" /\ ~ IsList(Top.kind) /\ T!Closing(Top.kind) = "}"
  <2>1. Top.kind = "{"
    BY Zenon DEF ObjectNext, ObjectColon, ObjectValue, ObjectSep, ObjectComma
  <2> QED BY <2>1, Brackets, Zenon
<1>2. CASE ObjectNext(t)
  <2>1. Top.at = "next"
    BY <1>2, Zenon DEF ObjectNext
  <2>2. t = "}" \/ t \in String
    BY <1>0, <1>1, <2>1, Zenon DEF Fits, PartBegins
  <2>3. CASE t = "}"
    <3>1. Close(t)
      BY <1>2, <2>3 DEF ObjectNext, String
    <3>2. t = T!Closing(Top.kind) /\ t # "EOF"
      BY <1>1, <2>3, Brackets, Zenon
    <3> QED BY <1>0, <2>1, <3>1, <3>2, CloseFares, Zenon
  <2>4. CASE t \in String
    <3>0. t # "}" /\ t # "EOF"
      BY <2>4 DEF String
    <3>1. PICK f : f = [Top EXCEPT !.name = t, !.at = "colon"]
      OBVIOUS
    <3>2. Eat(t) /\ Turn(f)
      BY <1>2, <2>4, <3>0, <3>1 DEF ObjectNext
    <3>3. f.kind = Top.kind /\ f.at = "colon"
      BY <1>0, <3>1 DEF Frames
    <3>4. frames' = Append(Front(frames), f) /\ outcome' = "ok"
      BY <3>2 DEF Turn, Replace
    <3>5. Consuming(Top, t, f)
      BY <1>1, <2>1, <2>4, <3>3, Zenon DEF Consuming
    <3> QED BY <1>0, <3>0, <3>2, <3>3, <3>4, <3>5, TurnFares
  <2> QED BY <2>2, <2>3, <2>4
<1>3. CASE ObjectColon(t)
  <2>1. Top.at = "colon"
    BY <1>3, Zenon DEF ObjectColon
  <2>2. t = ":"
    BY <1>0, <2>1, Zenon DEF Fits
  <2>3. PICK f : f = [Top EXCEPT !.at = "value"]
    OBVIOUS
  <2>4. Eat(t) /\ Turn(f) /\ t # "EOF"
    BY <1>3, <2>2, <2>3 DEF ObjectColon
  <2>5. f.kind = Top.kind /\ f.at = "value"
    BY <1>0, <2>3 DEF Frames
  <2>6. frames' = Append(Front(frames), f) /\ outcome' = "ok"
    BY <2>4 DEF Turn, Replace
  <2>7. Consuming(Top, t, f)
    BY <2>1, <2>2, <2>5, Zenon DEF Consuming
  <2> QED BY <1>0, <2>4, <2>5, <2>6, <2>7, TurnFares
<1>4. CASE ObjectValue(t)
  <2>1. Top.at = "value" /\ Expects(Top, t)
    BY <1>4, Zenon DEF ObjectValue, Expects
  <2>2. t \in Opening \/ t \in Scalar
    BY <1>0, <2>1, Zenon DEF Fits
  <2>3. t # "EOF"
    BY <2>2, Ordinary, Zenon
  <2>4. CASE t \in Opening
    <3>1. Open(t)
      BY <1>4, <2>4 DEF ObjectValue
    <3> QED BY <1>0, <2>1, <2>3, <2>4, <3>1, OpenFares, Zenon
  <2>5. CASE t \in Scalar
    <3>1. t \notin Opening
      BY <2>5, KindsApart
    <3>2. Value(t)
      BY <1>4, <3>1 DEF ObjectValue
    <3> QED BY <1>0, <2>1, <2>3, <2>5, <3>2, ValueFares, Zenon
  <2> QED BY <2>2, <2>4, <2>5
<1>5. CASE ObjectSep(t)
  <2>1. Top.at = "sep"
    BY <1>5, Zenon DEF ObjectSep
  <2>2. IsComma(t) \/ t = "}"
    BY <1>0, <1>1, <2>1, Zenon DEF Fits
  <2>3. CASE IsComma(t)
    <3>1. PICK f : f = [Top EXCEPT !.at = "comma"]
      OBVIOUS
    <3>2. Eat(t) /\ Turn(f) /\ t # "EOF"
      BY <1>5, <2>3, <3>1 DEF ObjectSep, IsComma, String
    <3>3. f.kind = Top.kind /\ f.at = "comma"
      BY <1>0, <3>1 DEF Frames
    <3>4. frames' = Append(Front(frames), f) /\ outcome' = "ok"
      BY <3>2 DEF Turn, Replace
    <3>5. Consuming(Top, t, f)
      BY <2>1, <2>3, <3>3 DEF Consuming
    <3> QED BY <1>0, <3>2, <3>3, <3>4, <3>5, TurnFares
  <2>4. CASE t = "}"
    <3>1. Keep(t) /\ Add("object-member") /\ ~ IsComma(t)
      BY <1>5, <2>4 DEF ObjectSep, IsComma, String
    <3> QED BY <1>0, <2>1, <3>1, AddFares, Zenon
  <2> QED BY <2>2, <2>3, <2>4
<1>6. CASE ObjectComma(t)
  <2>1. Top.at = "comma" /\ Keep(t)
    BY <1>6, Zenon DEF ObjectComma
  <2>2. t \in String
    BY <1>0, <1>1, <2>1, Zenon DEF Fits, PartBegins
  <2>3. t # "}"
    BY <2>2 DEF String
  <2>4. Add("object-member")
    BY <1>6, <2>3 DEF ObjectComma
  <2> QED BY <1>0, <2>1, <2>4, AddFares, Zenon
<1> QED BY <1>2, <1>3, <1>4, <1>5, <1>6

-----------------------------------------------------------------------------
(* While nothing is wrong, every text that goes on from what the scanner   *)
(* has answered goes on from where the parser is; once the statement has   *)
(* been refused, there is none.                                            *)
Possible ==
  Clean => \A u : Extends(u, text, Len(text)) /\ Viable(u, strict)
                    => Way(u, frames, Consumed, strict)
InVain(s) == text # <<>> /\ T!BeginsText(Front(text), s) /\ ~ Viable(text, s)
Refused ==
  state = "after" /\ outcome \notin {"ok", "NESTING"} /\ ~ Spoken => InVain(strict)

InTime == strict \in BOOLEAN /\ Possible /\ Refused /\ RefusedInTime
WInv == UInv /\ InTime

(* What goes on with the token seen goes on from the text before it.       *)
LEMMA SeenOn ==
  ASSUME Heard, Peeked, NEW t \in Token, See(t), NEW u, Extends(u, text', Len(text'))
  PROVE  /\ Extends(u, text, Len(text))
         /\ u \in Seq(Token) /\ Len(u) \in Nat /\ Consumed \in Nat
         /\ Consumed + 1 <= Len(u) /\ u[Consumed + 1] = t
<1>1. u \in Seq(Token) /\ Len(text') \in 0 .. Len(u) /\ \A i \in 1 .. Len(text') : u[i] = text'[i]
  BY DEF Extends
<1>2. /\ Len(text') = Consumed + 1 /\ text'[Consumed + 1] = t
      /\ \A i \in 1 .. Consumed : text'[i] = text[i]
  BY Seen
<1>3. Consumed \in Nat /\ (look = NULL => Consumed = Len(text)) /\ Len(text) \in Nat
  BY LastIs
<1>4. Len(u) \in Nat /\ Consumed + 1 <= Len(u) /\ u[Consumed + 1] = t
  BY <1>1, <1>2, <1>3
<1>5. CASE look = NULL
  <2>1. Len(text) \in 0 .. Len(u) /\ \A i \in 1 .. Len(text) : u[i] = text[i]
    BY <1>1, <1>2, <1>3, <1>4, <1>5
  <2> QED BY <1>1, <1>3, <1>4, <2>1 DEF Extends
<1>6. CASE look # NULL
  <2>1. text' = text
    BY <1>6 DEF See
  <2> QED BY <1>1, <1>3, <1>4, <2>1 DEF Extends
<1> QED BY <1>5, <1>6

(* The text before the token seen goes on to one.                          *)
LEMMA SeenBegins ==
  ASSUME IInv, More, Clean, strict \in BOOLEAN, NEW t \in Token, See(t)
  PROVE  T!BeginsText(Front(text'), strict)
<1>1. PICK n \in Nat : n = Consumed
  BY LastIs DEF IInv, More
<1>2. PICK u : u = Front(text')
  OBVIOUS
<1>3. /\ Len(text') = n + 1 /\ text' \in Seq(Token)
      /\ \A i \in 1 .. n : text'[i] = text[i]
  BY <1>1, Seen DEF IInv, More
<1>4. u \in Seq(Token) /\ Len(u) = n /\ \A i \in 1 .. n : u[i] = text'[i]
  BY <1>2, <1>3, FrontIs
<1>5. Goes(u)
  BY <1>1, <1>3, <1>4 DEF Goes, Extends
<1>6. PICK w, g, v, p : Reads(w, g, v, p)
  BY DEF More, Understands, Known
<1>7. Placed(frames, g, p, n) /\ ReadsText(u, frames, g, v, p, n, look, strict)
  BY <1>1, <1>5, <1>6 DEF Reads, Reading
<1>8. PICK s \in Seq(Frames) : s = frames
  BY DEF IInv, Good, Typed
<1>9. PICK m \in Nat : m = Len(frames) /\ DOMAIN frames = 1 .. m /\ (m # 0 => frames # <<>>)
  BY <1>8
<1>10. \A k \in 1 .. m : /\ frames[k].kind \in T!Opening
                         /\ frames[k].at \in {"next", "colon", "value", "sep", "comma"}
  <2>1. \A k \in 1 .. m : frames[k] \in Frames
    BY <1>8, <1>9
  <2> QED BY <2>1, KindsApart DEF Frames
<1>11. strict /\ m # 0 => p.to = 0
  <2>1. state # "idle"
    BY DEF Clean
  <2>2. root = NULL => p.to = 0
    BY <1>6 DEF Reads
  <2> QED BY <1>9, <2>1, <2>2 DEF More, OneRoot
<1> QED BY <1>2, <1>4, <1>7, <1>9, <1>10, <1>11, ReadBegins

(* The token goes on to a text, or there is none.                          *)
LEMMA StepInTime ==
  ASSUME IInv, More, InTime, Clean, NEW t \in Token, See(t), strict' = strict,
         \A u : Scene(u, t) => Fares(u)
  PROVE  Possible' /\ Refused'
<1>1. Heard /\ Peeked
  BY DEF IInv, More
<1>2. ASSUME NEW u, Extends(u, text', Len(text')), Viable(u, strict)
      PROVE  Fares(u)
  <2>1. /\ Extends(u, text, Len(text))
        /\ Len(u) \in Nat /\ Consumed \in Nat /\ Consumed + 1 <= Len(u) /\ u[Consumed + 1] = t
    BY <1>1, <1>2, SeenOn
  <2>2. Way(u, frames, Consumed, strict)
    BY <1>2, <2>1 DEF InTime, Possible
  <2> QED BY <2>1, <2>2 DEF Scene
<1>3. ASSUME Clean' PROVE Possible'
  <2>1. outcome' = "ok"
    BY <1>3 DEF Clean
  <2>2. \A u : Extends(u, text', Len(text')) /\ Viable(u, strict)
                 => Way(u, frames', Consumed', strict')
    BY <1>2, <2>1 DEF Fares
  <2> QED BY <2>2 DEF Possible
<1>4. ASSUME outcome' \notin {"ok", "NESTING"} PROVE InVain(strict)'
  <2>1. Extends(text', text', Len(text')) /\ text' # <<>>
    <3>1. text' \in Seq(Token) /\ text' # <<>>
      BY <1>1, Seen
    <3>2. Len(text') \in 0 .. Len(text')
      BY <3>1
    <3> QED BY <3>1, <3>2 DEF Extends
  <2>2. ~ Viable(text', strict)
    BY <1>2, <1>4, <2>1 DEF Fares
  <2>3. T!BeginsText(Front(text'), strict)
    BY SeenBegins DEF InTime
  <2> QED BY <2>1, <2>2, <2>3 DEF InVain
<1> QED BY <1>3, <1>4 DEF Possible, Refused

(* Of a load that runs, or has succeeded, it is not said.                  *)
LEMMA NotRefused ==
  ASSUME state' # "idle" \/ text' = <<>> \/ result' \in {TRUE, NULL} \/ Spoken'
  PROVE  RefusedInTime'
BY DEF RefusedInTime, Plain, Spoken

(* A text with an assignment is a case apart.                              *)
LEMMA SpokenInTime ==
  ASSUME InTime, Spoken', strict' = strict
  PROVE  InTime'
<1>1. Possible' /\ Refused'
  BY DEF Possible, Clean, Refused
<1> QED BY <1>1, NotRefused DEF InTime

(* json_parse_array, json_parse_object.                                    *)
LEMMA InsideInTime ==
  ASSUME IInv, More, InTime, Inside
  PROVE  InTime'
<1>1. state = "inside" /\ strict' = strict /\ outcome = "ok"
  BY DEF Inside, Same, More, Going
<1>2. PICK t \in Token :
        /\ See(t)
        /\ \/ ArrayNext(t) \/ ArraySep(t) \/ ArrayComma(t)
           \/ ObjectNext(t) \/ ObjectColon(t) \/ ObjectValue(t)
           \/ ObjectSep(t) \/ ObjectComma(t)
  BY DEF Inside
<1>3. Good /\ Settled /\ Heard /\ Peeked /\ OneRoot
  BY DEF IInv, More
<1>4. CASE Spoken
  <2>1. Spoken'
    BY <1>2, <1>3, <1>4, StillSpoken
  <2> QED BY <1>1, <2>1, SpokenInTime
<1>5. CASE ~ Spoken
  <2>1. Clean
    BY <1>1, <1>5 DEF Clean
  <2>2. \A u : Scene(u, t) => Fares(u)
    BY <1>1, <1>2, <1>3, ArrayFares, ObjectFares
  <2>3. Possible' /\ Refused'
    BY <1>1, <1>2, <2>1, <2>2, StepInTime
  <2>4. Carries
    BY <1>1, <1>2, <1>3, ArrayCarries, ObjectCarries
  <2>5. state' # "idle"
    BY <1>1, <2>4 DEF Carries, Stays, Ends, Fails, Fail, Finish
  <2>6. RefusedInTime'
    BY <2>5, NotRefused
  <2> QED BY <1>1, <2>3, <2>6 DEF InTime
<1> QED BY <1>4, <1>5

(* At the top level there has been a value if anything has been read.      *)
LEMMA ExtraRead ==
  ASSUME IInv, More, Clean, state = "statement"
  PROVE  frames = <<>> /\ look = NULL /\ vars = 0 /\ (root = NULL <=> Consumed = 0)
<1>1. frames = <<>> /\ look = NULL /\ Known /\ vars = 0
  BY DEF IInv, Settled, More, Understands, Going, Clean
<1>2. PICK w, g, v, p : Reads(w, g, v, p)
  BY <1>1 DEF Known
<1>3. text \in Seq(Token) /\ Consumed = Len(text) /\ Len(text) \in Nat
  BY <1>1, LastIs DEF IInv, More
<1>4. Goes(text)
  BY <1>3 DEF Goes, Extends
<1>5. p.to = Consumed
  BY <1>1, <1>2, <1>4 DEF Reads, Reading, ReadsText
<1> QED BY <1>1, <1>2, <1>5 DEF Reads

(* json_parse_statement, at its first token.                               *)
LEMMA StatementFares ==
  ASSUME IInv, More, Clean, state = "statement", NEW t \in Token, See(t), strict' = strict,
         OpenStatement(t) \/ ValueStatement(t) \/ UnknownStatement(t), NEW u, Scene(u, t)
  PROVE  Fares(u)
<1>0. /\ frames = <<>> /\ vars = 0 /\ (root = NULL <=> Consumed = 0)
      /\ outcome = "ok" /\ Typed /\ Heard /\ Peeked
  BY ExtraRead DEF IInv, Good, More, Clean
<1>1. PICK c \in Nat : c = Consumed
  BY DEF Scene
<1>2. PICK n \in Nat : n = Len(u) /\ c + 1 <= n /\ u[c + 1] = t
  BY <1>1 DEF Scene
<1>3. Way(u, <<>>, c, strict)
  BY <1>0, <1>1 DEF Scene
<1>4. \/ t = "EOF"
      \/ t \in Scalar /\ c = 0 /\ Way(u, <<>>, 1, strict)
      \/ /\ t \in Opening /\ (strict => c = 0)
         /\ \A fs2 : OneMore(<<>>, fs2, 0) /\ fs2[1].kind = t => Way(u, fs2, c + 1, strict)
  BY <1>2, <1>3, StatementWay
<1>5. CASE OpenStatement(t)
  <2>1. t \in Opening
    BY <1>5 DEF OpenStatement
  <2>2. t # "EOF" /\ t \notin Scalar
    BY <2>1, KindsApart
  <2>3. ~ (strict /\ Extra)
    BY <1>0, <1>1, <1>4, <2>2 DEF Extra
  <2>4. CASE MaxDepth = 0
    BY <1>5, <2>3, <2>4 DEF OpenStatement, Fail, Finish, Fares
  <2>5. CASE MaxDepth # 0
    <3>1. PICK h : Begin(t, h) /\ outcome' = "ok"
      BY <1>0, <1>5, <2>3, <2>5 DEF OpenStatement
    <3>2. PICK k : frames' = Append(frames, Opened(t, k))
      BY <3>1 DEF Begin
    <3>3. Len(frames) = 0 /\ 0 + 1 = 1
      BY <1>0
    <3>4. OneMore(frames, frames', 0) /\ frames'[1].kind = t
      BY <1>0, <3>2, <3>3, OneOpened
    <3>5. Way(u, frames', c + 1, strict)
      BY <1>0, <1>4, <2>2, <3>4
    <3>6. Consumed' = c + 1
      BY <1>0, <1>1, <2>2, <3>1, Consumes DEF Begin
    <3> QED BY <3>1, <3>5, <3>6 DEF Fares
  <2> QED BY <2>4, <2>5
<1>6. CASE ValueStatement(t)
  <2>1. t \in Scalar \cup {"IDENT"} /\ Eat(t)
    BY <1>6 DEF ValueStatement
  <2>2. t # "EOF" /\ t \notin Opening
    BY <2>1 DEF Scalar, String, Opening
  <2>3. t \in Scalar /\ c = 0 /\ Way(u, <<>>, 1, strict)
    BY <1>4, <2>2
  <2>4. t # "IDENT"
    BY <2>3 DEF Scalar, String
  <2>5. frames' = <<>> /\ outcome' = "ok"
    BY <1>0, <1>1, <1>6, <2>3, <2>4 DEF ValueStatement, Extra, Finish
  <2>6. Consumed' = c + 1
    BY <1>0, <1>1, <2>1, <2>2, Consumes
  <2>7. c + 1 = 1
    BY <2>3
  <2> QED BY <2>3, <2>5, <2>6, <2>7 DEF Fares
<1>7. CASE UnknownStatement(t)
  BY <1>0, <1>4, <1>7 DEF UnknownStatement
<1> QED BY <1>5, <1>6, <1>7

(* ... which the statement consumes in time                                *)
LEMMA StatementInTime ==
  ASSUME IInv, More, InTime, Statement
  PROVE  InTime'
<1>1. state = "statement" /\ outcome = "ok" /\ Heard /\ Peeked
  BY DEF Statement, IInv, More, Going
<1>2. PICK t \in Token :
        /\ See(t)
        /\ \/ EndOfText(t)
           \/ Same /\ (\/ OpenStatement(t) \/ VarStatement(t)
                       \/ ValueStatement(t) \/ UnknownStatement(t))
  BY DEF Statement
<1>3. strict' = strict /\ (Spoken => Spoken') /\ (t = "VAR" => Spoken')
  BY <1>1, <1>2, StillSpoken DEF EndOfText, Same
<1>4. CASE Spoken' \/ VarStatement(t)
  BY <1>3, <1>4, SpokenInTime DEF VarStatement
<1>5. CASE EndOfText(t)
  <2>1. state' = "idle" /\ result' = TRUE
    BY <1>5 DEF EndOfText
  <2>2. Possible' /\ Refused'
    BY <2>1 DEF Possible, Clean, Refused
  <2> QED BY <1>3, <2>1, <2>2, NotRefused DEF InTime
<1>6. CASE ~ Spoken' /\ (OpenStatement(t) \/ ValueStatement(t) \/ UnknownStatement(t))
  <2>1. Clean
    BY <1>1, <1>3, <1>6 DEF Clean
  <2>2. \A u : Scene(u, t) => Fares(u)
    BY <1>1, <1>2, <1>3, <1>6, <2>1, StatementFares
  <2>3. Possible' /\ Refused'
    BY <1>2, <1>3, <2>1, <2>2, StepInTime
  <2>4. state' # "idle"
    BY <1>6 DEF OpenStatement, ValueStatement, UnknownStatement, Fail, Finish
  <2> QED BY <1>3, <2>3, <2>4, NotRefused DEF InTime
<1> QED BY <1>2, <1>4, <1>5, <1>6

(* ... with an assignment                                                  *)
LEMMA NamedInTime ==
  ASSUME IInv, More, InTime, VariableName \/ EqualsSign
  PROVE  InTime'
<1>1. PICK t \in Token : See(t)
  BY DEF VariableName, EqualsSign
<1>2. state \in {"name", "equals"} /\ strict' = strict
  BY DEF VariableName, EqualsSign, Same
<1>3. Spoken'
  BY <1>1, <1>2, StillSpoken DEF IInv, More, Going
<1> QED BY <1>2, <1>3, SpokenInTime

(* ... and after a statement                                               *)
LEMMA AfterInTime ==
  ASSUME IInv, More, InTime, Semicolon \/ NextStatement \/ Stop
  PROVE  InTime'
<1>0. state = "after" /\ strict' = strict /\ frames' = frames /\ vars \in Nat
  BY DEF Semicolon, NextStatement, Stop, IInv, Settled, Same
<1>1. CASE Semicolon
  <2>1. PICK t \in Token : See(t)
    BY <1>1 DEF Semicolon
  <2>2. vars # 0
    <3>1. vars > 0
      BY <1>1 DEF Semicolon
    <3> QED BY <1>0, <3>1
  <2>3. Spoken'
    BY <2>1, <2>2, StillSpoken DEF IInv, More, Going
  <2> QED BY <1>0, <2>3, SpokenInTime
<1>2. CASE NextStatement
  <2>1. state' = "statement" /\ UNCHANGED <<outcome, look, text>>
    BY <1>2 DEF NextStatement
  <2>2. Consumed' = Consumed /\ (Clean' => Clean)
    BY <1>0, <2>1 DEF Consumed, Clean, Spoken
  <2>3. Possible'
    BY <1>0, <2>1, <2>2 DEF InTime, Possible
  <2>4. Refused'
    BY <2>1 DEF Refused
  <2> QED BY <1>0, <2>1, <2>3, <2>4, NotRefused DEF InTime
<1>3. CASE Stop
  <2>1. state' = "idle" /\ outcome # "ok" /\ UNCHANGED <<outcome, text>>
    BY <1>3 DEF Stop
  <2>2. Possible' /\ Refused'
    BY <2>1 DEF Possible, Clean, Refused
  <2>3. RefusedInTime'
    <3>1. SUFFICES ASSUME outcome # "NESTING", ~ Spoken PROVE RefusedInTime'
      BY <2>1 DEF RefusedInTime, Plain, Spoken
    <3>2. InVain(strict)
      BY <1>0, <2>1, <3>1 DEF InTime, Refused
    <3> QED BY <1>0, <2>1, <3>2 DEF InVain, Viable, RefusedInTime, Whole, Body
  <2> QED BY <1>0, <2>2, <2>3 DEF InTime
<1> QED BY <1>1, <1>2, <1>3

(* Between loads                                                           *)
LEMMA IdleInTime ==
  ASSUME IInv, More, InTime, Load \/ LoadRefused \/ SetStrict \/ StealRoot
  PROVE  InTime'
<1>1. /\ state = "idle" /\ text' = <<>> /\ look' = NULL /\ frames = <<>>
      /\ strict' \in BOOLEAN
  BY DEF Load, LoadRefused, SetStrict, StealRoot, Forget, IInv, Settled, InTime
<1>2. RefusedInTime'
  BY <1>1, NotRefused
<1>3. CASE Load
  <2>1. state' = "statement" /\ frames' = <<>> /\ Consumed' = 0
    BY <1>1, <1>3 DEF Load, Consumed
  <2>2. Possible'
    <3>1. ASSUME NEW u, Extends(u, text', Len(text')), Viable(u, strict')
          PROVE  Way(u, frames', Consumed', strict')
      BY <2>1, <3>1, FirstWay DEF Extends
    <3> QED BY <3>1 DEF Possible
  <2> QED BY <1>1, <1>2, <2>1, <2>2 DEF InTime, Refused
<1>4. CASE LoadRefused \/ SetStrict \/ StealRoot
  <2>1. state' = "idle"
    BY <1>1, <1>4 DEF LoadRefused, SetStrict, StealRoot, Forget
  <2> QED BY <1>1, <1>2, <2>1 DEF InTime, Possible, Clean, Refused
<1> QED BY <1>3, <1>4

(* Nothing has been loaded.                                                *)
LEMMA InitInTime ==
  ASSUME Init
  PROVE  InTime
<1>1. strict \in BOOLEAN /\ state = "idle" /\ text = <<>>
  BY DEF Init
<1> QED BY <1>1 DEF InTime, Possible, Clean, Refused, RefusedInTime, Plain

(* Every step leaves the parser in time.                                   *)
LEMMA InTimeStep ==
  ASSUME WInv, [Next]_all
  PROVE  WInv'
<1>0. IInv /\ More /\ InTime /\ UInv'
  BY MoreStep DEF WInv, UInv
<1>1. CASE Load \/ LoadRefused \/ SetStrict \/ StealRoot
  BY <1>0, <1>1, IdleInTime DEF WInv
<1>2. CASE Statement
  BY <1>0, <1>2, StatementInTime DEF WInv
<1>3. CASE VariableName \/ EqualsSign
  BY <1>0, <1>3, NamedInTime DEF WInv
<1>4. CASE Semicolon \/ NextStatement \/ Stop
  BY <1>0, <1>4, AfterInTime DEF WInv
<1>5. CASE Inside
  BY <1>0, <1>5, InsideInTime DEF WInv
<1>6. CASE UNCHANGED all
  <2>1. UNCHANGED <<strict, frames, state, outcome, look, text, result>>
    BY <1>6 DEF all, parse
  <2> QED BY <1>0, <2>1 DEF WInv, InTime, Possible, Refused, RefusedInTime, InVain, Clean, Spoken,
                            Consumed, Plain, Whole, Body
<1> QED BY <1>1, <1>2, <1>3, <1>4, <1>5, <1>6 DEF Next, Parsing

(* A load that fails, with no assignment in its text, fails neither late   *)
(* nor early: the tokens before the last one seen begin a text of the      *)
(* language, and with that one there is none.  The depth is the only other *)
(* reason.                                                                 *)
THEOREM RefusedRight == Spec => []RefusedInTime
<1>1. Init => WInv
  BY InitStep, InitMore, InitInTime DEF WInv, UInv
<1>2. WInv /\ [Next]_all => WInv'
  BY InTimeStep
<1>3. WInv => RefusedInTime
  BY DEF WInv, InTime
<1> QED BY <1>1, <1>2, <1>3, PTL DEF Spec
=============================================================================
