------------------------------ MODULE JsonText ------------------------------
(***************************************************************************)
(* Which sequences of tokens are JSON, and what they denote, by splitting  *)
(* the sequence and without a stack or a lookahead: the reference the      *)
(* parser is compared with.                                                *)
(*                                                                         *)
(* A reading of a value is the tree it denotes and what a reader of the    *)
(* text comes past, in order; one of a list, its items and the same.       *)
(***************************************************************************)
EXTENDS Integers, Sequences

CONSTANTS NULL, String

Item(n, v) == [name |-> n, item |-> v]

(* A member named twice keeps its first place and its last value.          *)
SameName(items, n) == {i \in DOMAIN items : n # NULL /\ items[i].name = n}
Put(items, s) ==
  IF SameName(items, s.name) = {} THEN Append(items, s)
  ELSE [i \in DOMAIN items |-> IF i \in SameName(items, s.name) THEN s ELSE items[i]]

Nothing == [items |-> <<>>, said |-> <<>>]
Longer(list, n, v, past) ==
  [items |-> Put(list.items, Item(n, v.tree)), said |-> list.said \o v.said \o past]

Opening == {"[", "{"}
Closing(c) == IF c = "[" THEN "]" ELSE "}"
Past(c) == <<IF c = "[" THEN "array-element" ELSE "object-member">>

-----------------------------------------------------------------------------
(* From i to j in t, a value, a part of a list behind a reading of what is *)
(* before it, and a list of parts with commas between them; lists has the  *)
(* readings of the lists in t.                                             *)

Values(t, i, j, lists) ==
  IF i = j
  THEN {[tree |-> [kind |-> k, items |-> <<>>], said |-> <<>>] : k \in {t[i]} \cap ({"INT"} \cup String)}
  ELSE {[tree |-> [kind |-> t[i], items |-> l.items], said |-> <<t[i]>> \o l.said \o <<t[j]>>] :
          l \in IF t[i] \notin Opening \/ t[j] # Closing(t[i]) THEN {}
                ELSE IF j = i + 1 THEN {Nothing} ELSE lists[<<t[i], i + 1, j - 1>>]}

(* An element is a value; a member begins with its name and a colon.       *)
Named(t, i) == t[i] \in String /\ t[i + 1] = ":"
NameAt(t, c, i) == IF c = "[" THEN NULL ELSE t[i]
ValueAt(c, i) == IF c = "[" THEN i ELSE i + 2

Begun(t, c, i, j) == c = "[" \/ (i + 2 <= j /\ Named(t, i))

Parts(t, c, i, j, before, lists) ==
  IF ~ Begun(t, c, i, j) THEN {}
  ELSE {Longer(before, NameAt(t, c, i), v, Past(c)) : v \in Values(t, ValueAt(c, i), j, lists)}

Commas(t, i, j) == {k \in i .. j : t[k] = ","}
ListsIn(t, c, i, j, lists) ==
  Parts(t, c, i, j, Nothing, lists)
  \cup UNION {UNION {Parts(t, c, k + 1, j, l, lists) : l \in lists[<<c, i, k - 1>>]}
              : k \in Commas(t, i + 1, j - 1)}

Spans(t) == {s \in Opening \X (1 .. Len(t)) \X (1 .. Len(t)) : s[2] <= s[3]}
Lists(t) ==
  LET lists[s \in Spans(t)] == ListsIn(t, s[1], s[2], s[3], lists) IN lists

Readings(t, i, j) == Values(t, i, j, Lists(t))

(* Without strictness, a text is a value and any number of arrays and      *)
(* objects after it, or nothing at all.                                    *)
TextsTo(t, j, strict, texts) ==
  IF j = 0 THEN {Nothing}
  ELSE UNION {UNION {{Longer(before, NULL, v, <<>>) : v \in Readings(t, i + 1, j)} : before \in texts[i]}
              : i \in {k \in 0 .. j - 1 : k = 0 \/ (~ strict /\ t[k + 1] \in Opening)}}
Prefixes(t, strict) ==
  LET texts[j \in 0 .. Len(t)] == TextsTo(t, j, strict, texts) IN texts
Texts(t, strict) ==
  IF strict /\ t = <<>> THEN {} ELSE Prefixes(t, strict)[Len(t)]

(* Several top level values are the elements of an array.                  *)
Document(text) ==
  IF text.items = <<>> THEN NULL
  ELSE IF Len(text.items) = 1 THEN text.items[1].item
  ELSE [kind |-> "[", items |-> text.items]

-----------------------------------------------------------------------------
(* What is behind i in t can be completed to a value, to a part of a list; *)
(* open has, for each place, the kinds of list that can begin there and go *)
(* on behind t.                                                            *)

Begins(t, i, open) ==
  i = Len(t) + 1 \/ Readings(t, i, Len(t)) # {} \/ t[i] \in open[i + 1]

BeginsPart(t, c, i, open) ==
  IF c = "[" THEN Begins(t, i, open)
  ELSE \/ i = Len(t) + 1 \/ (i = Len(t) /\ t[i] \in String)
       \/ i < Len(t) /\ Named(t, i) /\ Begins(t, i + 2, open)

PartIn(t, c, i, j) == Parts(t, c, i, j, Nothing, Lists(t)) # {}

UnclosedAt(t, i, open) ==
  {c \in Opening :
     \/ BeginsPart(t, c, i, open)
     \/ \E k \in Commas(t, i + 1, Len(t)) : PartIn(t, c, i, k - 1) /\ c \in open[k + 1]}
Unclosed(t) ==
  LET open[i \in 1 .. Len(t) + 1] == UnclosedAt(t, i, open) IN open

BeginsText(t, strict) ==
  \/ Begins(t, 1, Unclosed(t))
  \/ ~ strict /\ \E k \in 1 .. Len(t) :
       /\ Prefixes(t, FALSE)[k] # {}
       /\ k < Len(t) => t[k + 1] \in Opening /\ Begins(t, k + 1, Unclosed(t))
=============================================================================
