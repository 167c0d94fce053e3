----------------------------- MODULE JsonParser -----------------------------
(***************************************************************************)
(* JsonParser (json-glib/json-parser.c): a recursive-descent parser over   *)
(* the tokens of a JsonScanner, one token of lookahead ahead of what it    *)
(* has consumed.  The recursion of json_parse_array and json_parse_object  *)
(* is the variable frames; json_parse_statement's own recursion, one level *)
(* for each "var name =", is the counter vars.                             *)
(*                                                                         *)
(* The scanner is asked for one token at a time and may answer anything:   *)
(* text is the history of its answers, as far as MaxText and then EOF.     *)
(* An INT stands for every scalar but a string.                            *)
(***************************************************************************)
EXTENDS Integers, FiniteSets, SequencesExt

CONSTANTS
  NULL,
  MaxText,    \* bound on the tokens of a text, colons not counted
  MaxDepth    \* JSON_PARSER_MAX_RECURSION_DEPTH

String == {"STRING_A", "STRING_B"}    \* two strings that differ
Scalar == {"INT"} \cup String
Opening == {"[", "{"}
Token == Scalar \cup Opening \cup {"]", "}", ",", ":", "IDENT", "VAR", "=", ";", "EOF"}

ASSUME ParserAssumption ==
  MaxText \in Nat /\ MaxDepth \in Nat /\ NULL \notin Nat \cup Token

(* error_code, and that the statement was parsed: JSON_TOKEN_NONE.         *)
Codes == {"PARSE", "INVALID_BAREWORD", "MISSING_COMMA", "MISSING_COLON",
          "TRAILING_COMMA", "NESTING", "INVALID_STRUCTURE", "INVALID_ASSIGNMENT"}

VARIABLES
  strict, immutable,   \* the properties of the parser; immutable is construct-only
  root, multi,         \* priv->root, priv->multi_root
  nodes,               \* every JsonNode made since root was last NULL
  assignment,          \* priv->has_assignment
  state,               \* where json_parse_statement is, or "idle"
  vars,                \* how many of its calls have read "var name ="
  frames,              \* the arrays and objects being parsed, innermost last
  outcome,             \* of the statement: "ok" or an error_code
  look,                \* the token peeked and not consumed, or NULL
  text,                \* history: the tokens of this load
  signals,             \* history: the signals of this load
  result               \* what the last load returned, NULL while it runs

parse == <<state, vars, frames, outcome, look, text, signals, result>>
all == <<strict, immutable, root, multi, nodes, assignment, parse>>

Init ==
  /\ strict \in BOOLEAN /\ immutable \in BOOLEAN
  /\ root = NULL /\ multi = FALSE /\ nodes = <<>> /\ assignment = FALSE
  /\ state = "idle" /\ vars = 0 /\ frames = <<>> /\ outcome = "ok"
  /\ look = NULL /\ text = <<>> /\ signals = <<>> /\ result = NULL

-----------------------------------------------------------------------------
(* A node is known by its place in nodes, in which it stays when the code  *)
(* frees it.  sealed stands for the node and its array or object.          *)

Slot(n, v) == [name |-> n, item |-> v]
Node(k) == [kind |-> k, items |-> <<>>, sealed |-> FALSE, parent |-> NULL]
Leaf(t) == [Node(t) EXCEPT !.sealed = immutable]

(* json_node_set_parent(n, p) in the nodes h *)
SetParent(h, n, p) ==
  IF p # NULL /\ h[p].sealed THEN h ELSE [h EXCEPT ![n].parent = p]

(* json_object_set_member, json_array_add_element *)
SameName(items, n) == {i \in DOMAIN items : n # NULL /\ items[i].name = n}
With(items, n, v) ==
  IF SameName(items, n) = {} THEN Append(items, Slot(n, v))
  ELSE [i \in DOMAIN items |-> IF i \in SameName(items, n) THEN Slot(n, v) ELSE items[i]]

(* A frame has the node, which is priv->current_node, and what is in its   *)
(* array or object, which it gets when that is complete; name and elem are *)
(* of the element being parsed.                                            *)
Top == Last(frames)
Opened(k, n) ==
  [kind |-> k, node |-> n, items |-> <<>>, at |-> "next", name |-> NULL, elem |-> NULL]

(* The node of f gets its array or object, and the parent p.               *)
ClosedMutable(h, f, p) ==    \* mutant: neither is sealed
  SetParent([h EXCEPT ![f.node].items = f.items], f.node, p)
Closed(h, f, p) ==
  SetParent([h EXCEPT ![f.node].items = f.items, ![f.node].sealed = immutable], f.node, p)

-----------------------------------------------------------------------------
(* The scanner: json_scanner_peek_next_token, json_scanner_get_next_token. *)
(* In strict mode the text that reaches it is not blank: see LoadRefused.  *)

Weight(s) == Cardinality({i \in DOMAIN s : s[i] # ":"})

See(t) ==
  /\ t = look \/ (look = NULL /\ (Weight(text) < MaxText \/ t = "EOF"))
  /\ strict /\ text = <<>> => t # "EOF"
  /\ text' = IF look = NULL THEN Append(text, t) ELSE text
Keep(t) == look' = t
Eat(t) == look' = IF t = "EOF" THEN t ELSE NULL

Emit(s) == signals' = Append(signals, s)
Quiet == UNCHANGED signals
Tree == <<root, multi, nodes>>
Same == UNCHANGED <<strict, immutable, assignment, result>>

(* The statement is over; every frame of the recursion is left.            *)
FinishInside(o) ==    \* mutant: the containers are left for the caller to close
  /\ outcome' = o /\ state' = "after"
  /\ UNCHANGED <<frames, vars>>
Finish(o) ==
  /\ outcome' = o /\ state' = "after" /\ frames' = <<>>
  /\ UNCHANGED vars

Fail(code) == Finish(code) /\ Quiet /\ UNCHANGED Tree

(* The innermost frame becomes f.                                          *)
Replace(f) ==
  /\ frames' = Append(Front(frames), f)
  /\ UNCHANGED <<state, vars, outcome, root, multi>>
Turn(f) == Replace(f) /\ Quiet /\ UNCHANGED nodes

(* The element just parsed gets its parent, is sealed, and is added.       *)
Holding(f) ==
  [f EXCEPT !.items = With(f.items, f.name, f.elem),
            !.name = NULL, !.elem = NULL, !.at = "next"]
AddUnlinked(signal) ==    \* mutant: json_node_set_parent forgotten
  /\ nodes' = [nodes EXCEPT ![Top.elem].sealed = @ \/ immutable]
  /\ Replace(Holding(Top)) /\ Emit(signal)
Add(signal) ==
  /\ nodes' = [SetParent(nodes, Top.elem, Top.node) EXCEPT ![Top.elem].sealed = @ \/ immutable]
  /\ Replace(Holding(Top)) /\ Emit(signal)

(* json_parse_array, json_parse_object: a new container, after the nodes h *)
Begin(t, h) ==
  /\ Eat(t) /\ Emit(t)
  /\ nodes' = Append(h, Node(t))
  /\ frames' = Append(frames, Opened(t, Len(h) + 1))

-----------------------------------------------------------------------------
(* json_parser_load, json_parser_clear *)

Clear == root' = NULL /\ multi' = FALSE /\ nodes' = <<>>

Load ==
  /\ state = "idle"
  /\ Clear
  /\ state' = "statement" /\ vars' = 0 /\ frames' = <<>> /\ outcome' = "ok"
  /\ look' = NULL /\ text' = <<>> /\ signals' = <<"parse-start">> /\ result' = NULL
  /\ UNCHANGED <<strict, immutable, assignment>>

(* What is left of the last load is the tree; the rest is history, and     *)
(* starts afresh.                                                          *)
Forget ==
  /\ text' = <<>> /\ look' = NULL /\ outcome' = "ok"
  /\ UNCHANGED <<immutable, assignment, state, vars, frames>>

(* In strict mode an empty buffer is refused before json_parser_clear, one *)
(* of white space after it, like one that is not UTF-8 in either mode.     *)
LoadRefused ==
  /\ state = "idle"
  /\ \/ strict /\ UNCHANGED Tree
     \/ Clear
  /\ signals' = <<"error">> /\ result' = FALSE
  /\ Forget /\ UNCHANGED strict

(* json_parser_set_strict, json_parser_steal_root: after either, the       *)
(* result of the last load is no longer that of the parser's state.        *)
SetStrict ==
  /\ state = "idle"
  /\ strict' = ~ strict
  /\ signals' = <<>> /\ result' = NULL
  /\ Forget /\ UNCHANGED Tree

StealRoot ==
  /\ state = "idle"
  /\ root' = NULL /\ nodes' = <<>>
  /\ signals' = <<>> /\ result' = NULL
  /\ Forget /\ UNCHANGED <<strict, multi>>

-----------------------------------------------------------------------------
(* json_parse_statement *)

EndOfText(t) ==
  /\ vars = 0 /\ t = "EOF" /\ Keep(t)
  /\ state' = "idle" /\ result' = TRUE /\ Emit("parse-end")
  /\ UNCHANGED <<strict, immutable, Tree, assignment, vars, frames, outcome>>

Extra == root # NULL    \* there has been a top level value already

(* A second array or object, unless strict: the root is put into a new     *)
(* array, of which the ones that follow become elements.                   *)
MultiRoot ==
  SetParent(Append(nodes, [Node("[") EXCEPT !.items = <<Slot(NULL, root)>>]),
            root, Len(nodes) + 1)

OpenStatement(t) ==
  /\ t \in Opening
  /\ IF strict /\ Extra
     THEN Eat(t) /\ Fail("INVALID_STRUCTURE")
     ELSE IF MaxDepth = 0 THEN Keep(t) /\ Fail("NESTING")
     ELSE /\ IF Extra /\ ~ multi
             THEN root' = Len(nodes) + 1 /\ Begin(t, MultiRoot)
             ELSE Begin(t, nodes) /\ UNCHANGED root
          /\ multi' = (multi \/ Extra)
          /\ state' = "inside"
          /\ UNCHANGED <<vars, outcome>>

VarStatement(t) ==
  /\ t = "VAR" /\ Eat(t)
  /\ IF strict THEN Fail("INVALID_ASSIGNMENT")
     ELSE state' = "name" /\ Quiet /\ UNCHANGED <<vars, frames, outcome, Tree>>

ValueStatement(t) ==
  /\ t \in Scalar \cup {"IDENT"} /\ Eat(t)
  /\ IF Extra \/ t = "IDENT" THEN Fail("INVALID_BAREWORD")
     ELSE /\ nodes' = Append(nodes, Leaf(t)) /\ root' = Len(nodes) + 1
          /\ Finish("ok") /\ Quiet /\ UNCHANGED multi

UnknownStatement(t) ==
  /\ t \notin Opening \cup Scalar \cup {"VAR", "IDENT"}
  /\ ~ (vars = 0 /\ t = "EOF")
  /\ Eat(t) /\ Fail("INVALID_BAREWORD")

Statement ==
  /\ state = "statement"
  /\ \E t \in Token :
       /\ See(t)
       /\ \/ EndOfText(t)
          \/ Same /\ (\/ OpenStatement(t) \/ VarStatement(t)
                      \/ ValueStatement(t) \/ UnknownStatement(t))

VariableName ==
  /\ state = "name"
  /\ \E t \in Token :
       /\ See(t) /\ Eat(t)
       /\ IF t = "IDENT"
          THEN state' = "equals" /\ Quiet /\ UNCHANGED <<vars, frames, outcome, Tree>>
          ELSE Fail("INVALID_BAREWORD")
  /\ Same

(* From here on an error in the statement is this call's to look at.       *)
EqualsSign ==
  /\ state = "equals"
  /\ \E t \in Token :
       /\ See(t) /\ Eat(t)
       /\ IF t = "="
          THEN /\ assignment' = TRUE /\ vars' = vars + 1 /\ state' = "statement"
               /\ Quiet /\ UNCHANGED <<frames, outcome, Tree>>
          ELSE Fail("INVALID_BAREWORD") /\ UNCHANGED assignment
  /\ UNCHANGED <<strict, immutable, result>>

(* Each call that has read "var name =" swallows one semicolon, and with   *)
(* it the outcome of the statement it made.                                *)
Semicolon ==
  /\ state = "after" /\ vars > 0
  /\ \E t \in Token :
       /\ See(t)
       /\ IF t = ";" THEN Eat(t) /\ outcome' = "ok" ELSE Keep(t) /\ UNCHANGED outcome
  /\ vars' = vars - 1
  /\ Quiet /\ Same /\ UNCHANGED <<state, frames, Tree>>

NextStatement ==
  /\ state = "after" /\ vars = 0 /\ outcome = "ok"
  /\ state' = "statement"
  /\ Same /\ UNCHANGED <<Tree, vars, frames, outcome, look, text, signals>>

(* json_scanner_unknown_token emits ::error through the message handler.   *)
Stop ==
  /\ state = "after" /\ vars = 0 /\ outcome # "ok"
  /\ state' = "idle" /\ result' = FALSE
  /\ signals' = signals \o <<"error", "parse-end">>
  /\ UNCHANGED <<strict, immutable, Tree, assignment, vars, frames, outcome, look, text>>

-----------------------------------------------------------------------------
(* json_parse_array, json_parse_object *)

Open(t) ==
  IF Len(frames) >= MaxDepth
  THEN Keep(t) /\ Fail("NESTING")
  ELSE Begin(t, nodes) /\ UNCHANGED <<state, vars, outcome, root, multi>>

(* json_parse_value, on an element of an array or a member of an object.   *)
Value(t) ==
  /\ Eat(t)
  /\ CASE t \in Scalar -> /\ nodes' = Append(nodes, Leaf(t))
                          /\ Replace([Top EXCEPT !.elem = Len(nodes) + 1, !.at = "sep"])
                          /\ Quiet
       [] t = "IDENT"  -> Fail("INVALID_BAREWORD")
       [] OTHER        -> Fail("PARSE")

(* The container is complete: an element of the one around it, the root,   *)
(* or one more element of the root.                                        *)
Close(t) ==
  LET rest == Front(frames) IN
  /\ Eat(t)
  /\ Emit(t)
  /\ IF rest # <<>>
     THEN /\ nodes' = Closed(nodes, Top, Last(rest).node)
          /\ frames' = Append(Front(rest), [Last(rest) EXCEPT !.elem = Top.node, !.at = "sep"])
          /\ UNCHANGED <<state, vars, outcome, root, multi>>
     ELSE /\ IF multi
             THEN /\ nodes' = [Closed(nodes, Top, NULL)
                                 EXCEPT ![root].items = Append(@, Slot(NULL, Top.node))]
                  /\ UNCHANGED root
             ELSE nodes' = Closed(nodes, Top, NULL) /\ root' = Top.node
          /\ Finish("ok") /\ UNCHANGED multi

ArrayNext(t) ==
  /\ Top.kind = "[" /\ Top.at = "next"
  /\ CASE t = "]"       -> Close(t)
       [] t \in Opening -> Open(t)
       [] OTHER         -> Value(t)

(* The element is parsed: a comma or the end must follow.                  *)
ArraySep(t) ==
  /\ Top.kind = "[" /\ Top.at = "sep"
  /\ CASE t = "," -> Eat(t) /\ Turn([Top EXCEPT !.at = "comma"])
       [] t = "]" -> Keep(t) /\ Add("array-element")
       [] OTHER   -> Keep(t) /\ Fail("MISSING_COMMA")

(* After the comma anything but the end.                                   *)
ArrayComma(t) ==
  /\ Top.kind = "[" /\ Top.at = "comma" /\ Keep(t)
  /\ IF t = "]" THEN Fail("TRAILING_COMMA")
     ELSE Add("array-element")

ObjectNextSkipping(t) ==    \* mutant: skips what is not a name
  /\ Top.kind = "{" /\ Top.at = "next"
  /\ CASE t = "}"      -> Close(t)
       [] t \in String -> Eat(t) /\ Turn([Top EXCEPT !.name = t, !.at = "colon"])
       [] OTHER        -> Eat(t) /\ Turn(Top)

ObjectNext(t) ==
  /\ Top.kind = "{" /\ Top.at = "next"
  /\ CASE t = "}"      -> Close(t)
       [] t \in String -> Eat(t) /\ Turn([Top EXCEPT !.name = t, !.at = "colon"])
       [] OTHER        -> Keep(t) /\ Fail("INVALID_BAREWORD")

ObjectColon(t) ==
  /\ Top.kind = "{" /\ Top.at = "colon"
  /\ IF t = ":" THEN Eat(t) /\ Turn([Top EXCEPT !.at = "value"])
     ELSE Keep(t) /\ Fail("MISSING_COLON")

ObjectValue(t) ==
  /\ Top.kind = "{" /\ Top.at = "value"
  /\ IF t \in Opening THEN Open(t) ELSE Value(t)

(* The member is parsed.  Only a comma and another name are looked for; a  *)
(* token that cannot follow is left for the next turn to refuse.           *)
ObjectSepAnything(t) ==    \* mutant: a missing comma is not noticed
  /\ Top.kind = "{" /\ Top.at = "sep"
  /\ CASE t = "," -> Eat(t) /\ Turn([Top EXCEPT !.at = "comma"])
       [] OTHER   -> Keep(t) /\ Add("object-member")

ObjectSep(t) ==
  /\ Top.kind = "{" /\ Top.at = "sep"
  /\ CASE t = ","      -> Eat(t) /\ Turn([Top EXCEPT !.at = "comma"])
       [] t \in String -> Keep(t) /\ Fail("MISSING_COMMA")
       [] OTHER        -> Keep(t) /\ Add("object-member")

ObjectComma(t) ==
  /\ Top.kind = "{" /\ Top.at = "comma" /\ Keep(t)
  /\ IF t = "}" THEN Fail("TRAILING_COMMA")
     ELSE Add("object-member")

Inside ==
  /\ state = "inside"
  /\ \E t \in Token :
       /\ See(t)
       /\ \/ ArrayNext(t) \/ ArraySep(t) \/ ArrayComma(t)
          \/ ObjectNext(t) \/ ObjectColon(t) \/ ObjectValue(t)
          \/ ObjectSep(t) \/ ObjectComma(t)
  /\ Same

Parsing ==
  \/ Statement \/ VariableName \/ EqualsSign \/ Semicolon \/ NextStatement \/ Stop
  \/ Inside

Next ==
  \/ Load \/ LoadRefused \/ SetStrict \/ StealRoot
  \/ Parsing

(* json_parser_load is one call: once begun, it runs.                      *)
Spec == Init /\ [][Next]_all /\ WF_all(Parsing)

-----------------------------------------------------------------------------
Slots == [name : String \cup {NULL}, item : DOMAIN nodes]
Nodes ==
  [kind : Scalar \cup Opening, items : Seq(Slots), sealed : BOOLEAN,
   parent : DOMAIN nodes \cup {NULL}]
Frames ==
  [kind : Opening, node : DOMAIN nodes, items : Seq(Slots),
   at : {"next", "colon", "value", "sep", "comma"},
   name : String \cup {NULL}, elem : DOMAIN nodes \cup {NULL}]

(* The types of the state; and that the frames are those of the statement  *)
(* under way, each with as much of its element as has been read.           *)
TypeOK ==
  /\ state \in {"idle", "statement", "name", "equals", "inside", "after"}
  /\ state = "inside" <=> frames # <<>>
  /\ vars \in Nat /\ outcome \in Codes \cup {"ok"}
  /\ look \in Token \cup {NULL} /\ text \in Seq(Token)
  /\ result \in BOOLEAN \cup {NULL}
  /\ nodes \in Seq(Nodes) /\ frames \in Seq(Frames)
  /\ root \in DOMAIN nodes \cup {NULL}
  /\ multi => root = NULL \/ nodes[root].kind = "["
  /\ \A i \in DOMAIN frames :
       /\ frames[i].at \in {"sep", "comma"} <=> frames[i].elem # NULL
       /\ frames[i].name # NULL => frames[i].kind = "{"

(* Everything an immutable parser has built is immutable, complete or not, *)
(* save the array it makes of several top level values.                    *)
SealedAsBuilt ==
  immutable =>
    /\ root # NULL => nodes[root].sealed \/ multi
    /\ \A n \in DOMAIN nodes : \A i \in DOMAIN nodes[n].items :
         nodes[nodes[n].items[i].item].sealed
    /\ \A k \in DOMAIN frames : \A i \in DOMAIN frames[k].items :
         nodes[frames[k].items[i].item].sealed

(* Every node knows the node that holds it, which JsonReader relies on: so *)
(* no two nodes hold the same one, and nothing holds the root.  A top      *)
(* level value after the first has none to know.                           *)
ParentKnown ==
  /\ root # NULL => nodes[root].parent = NULL
  /\ \A n \in DOMAIN nodes : \A i \in DOMAIN nodes[n].items :
       nodes[nodes[n].items[i].item].parent = IF multi /\ n = root /\ i > 1 THEN NULL ELSE n
  /\ \A k \in DOMAIN frames : \A i \in DOMAIN frames[k].items :
       nodes[frames[k].items[i].item].parent = frames[k].node

-----------------------------------------------------------------------------
(* What a load must come to, in the terms of JsonText. *)

T == INSTANCE JsonText

(* The load just ended; a text with an assignment in it is a case apart.   *)
Plain == state = "idle" /\ result # NULL /\ text # <<>> /\ ~ Contains(text, "VAR")
Whole == Last(text) = "EOF"
Body == IF Whole THEN Front(text) ELSE text

ShapeOf(n, shape) ==
  [kind  |-> nodes[n].kind,
   items |-> [i \in DOMAIN nodes[n].items |->
                Slot(nodes[n].items[i].name, shape[nodes[n].items[i].item])]]
Shape ==
  LET shape[n \in DOMAIN nodes] == ShapeOf(n, shape) IN shape

(* A load succeeds only on the texts of the language, JSON itself in       *)
(* strict mode; the tree is the one the text denotes, and the signals come *)
(* in the order of the text, each when what it announces is complete.      *)
Understood ==
  Plain /\ result =>
    Whole /\ \E reading \in T!Texts(Body, strict) :
      /\ (IF root = NULL THEN NULL ELSE Shape[root]) = T!Document(reading)
      /\ signals = <<"parse-start">> \o reading.said \o <<"parse-end">>

(* A load fails at the first token with which no text of the language goes *)
(* on, neither before it nor after it, or for the depth.                   *)
RefusedInTime ==
  Plain /\ ~ result /\ outcome # "NESTING" =>
    /\ T!BeginsText(Front(text), strict)
    /\ IF Whole THEN T!Texts(Body, strict) = {} ELSE ~ T!BeginsText(text, strict)
=============================================================================
