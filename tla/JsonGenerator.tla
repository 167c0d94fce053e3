---------------------------- MODULE JsonGenerator ----------------------------
(***************************************************************************)
(* JsonGenerator (json-glib/json-generator.c): a tree to its text.  The    *)
(* generator keeps the root and how to lay the text out.                   *)
(*                                                                         *)
(* A node is a pair <<kind, data>>: the elements of an array in order, the *)
(* members of an object in order as <<name, node>>.  A string is the       *)
(* sequence of its characters, those of JsonScanner, and a double is its   *)
(* shortest text, what g_ascii_dtostr prints.                              *)
(***************************************************************************)
EXTENDS Integers, SequencesExt

VARIABLES
  root, pretty, indent, indent_char,    \* priv; no root is <<>>
  output                                \* the text last generated

generator == <<root, pretty, indent, indent_char, output>>

(* json_generator_init *)
GeneratorInit ==
  /\ root = <<>> /\ output = <<>>
  /\ pretty = FALSE /\ indent = 2 /\ indent_char = " "

-----------------------------------------------------------------------------

Named == "BS" :> "b" @@ "FF" :> "f" @@ "LF" :> "n" @@ "TAB" :> "t"
Coded == "CTL" :> "0001" @@ "DEL" :> "007f"

EscapeBare(c) == <<c>>    \* mutant: an escape forgotten
Escape(c) ==
  CASE c \in {"\\", "\""} -> <<"\\", c>>
    [] c \in DOMAIN Named -> <<"\\", Named[c]>>
    [] c \in DOMAIN Coded -> <<"\\", "u", Coded[c]>>
    [] OTHER -> <<c>>

(* json_strescape, with the quotes its callers put around it               *)
Quoted(s) == <<"\"">> \o FlattenSeq([i \in DOMAIN s |-> Escape(s[i])]) \o <<"\"">>

DigitOf == <<"0", "1", "2", "3", "4", "5", "6", "7", "8", "9">>
RECURSIVE Decimal(_)
Decimal(n) == IF n < 0 THEN <<"-">> \o Decimal(-n)
              ELSE IF n < 10 THEN <<DigitOf[n + 1]>>
              ELSE Append(Decimal(n \div 10), DigitOf[(n % 10) + 1])

DoubleBare(d) == d    \* mutant: a double may look like an integer
(* A double must not become an integer, nor lose its exponent.             *)
Double(d) == IF ToSet(d) \cap {".", "e"} = {} THEN d \o <<".", "0">> ELSE d

(* dump_value, and null *)
Scalar(node) ==
  CASE node[1] = "null" -> <<"n", "u", "l", "l">>
    [] node[1] = "boolean" -> IF node[2] THEN <<"t", "r", "u", "e">>
                              ELSE <<"f", "a", "l", "s", "e">>
    [] node[1] = "int" -> Decimal(node[2])
    [] node[1] = "double" -> Double(node[2])
    [] node[1] = "string" -> Quoted(node[2])

Blanks(level) == IF pretty THEN [i \in 1 .. level * indent |-> indent_char] ELSE <<>>
NewLine == IF pretty THEN <<"LF">> ELSE <<>>
Colon == IF pretty THEN <<" ", ":", " ">> ELSE <<":">>

(* What comes between the brackets: each item on a line of its own, and a  *)
(* comma after all but the last.                                           *)
Lines(items) ==
  FlattenSeq([i \in DOMAIN items |->
    (IF i = 1 THEN NewLine ELSE <<>>) \o items[i]
      \o (IF i < Len(items) THEN <<",">> ELSE <<>>) \o NewLine])

(* dump_node, dump_array and dump_object                                   *)
RECURSIVE DumpNode(_, _)
DumpNode(level, node) ==
  CASE node[1] = "array" ->
         LET Item(i) == Blanks(level + 1) \o DumpNode(level + 1, node[2][i])
         IN  IF node[2] = <<>> THEN <<"[", "]">>
             ELSE <<"[">> \o Lines([i \in DOMAIN node[2] |-> Item(i)]) \o Blanks(level) \o <<"]">>
    [] node[1] = "object" ->
         LET Item(i) == Blanks(level + 1) \o Quoted(node[2][i][1]) \o Colon
                          \o DumpNode(level + 1, node[2][i][2])
         IN  <<"{">> \o Lines([i \in DOMAIN node[2] |-> Item(i)]) \o Blanks(level) \o <<"}">>
    [] OTHER -> Scalar(node)

-----------------------------------------------------------------------------

(* json_generator_set_root, which copies the tree, and take_root           *)
SetRoot(node) == root' = node /\ UNCHANGED <<pretty, indent, indent_char, output>>

SetPretty(is) == pretty' = is /\ UNCHANGED <<root, indent, indent_char, output>>
SetIndent(n) == indent' = n /\ UNCHANGED <<root, pretty, indent_char, output>>
SetIndentChar(c) == indent_char' = c /\ UNCHANGED <<root, pretty, indent, output>>

(* json_generator_to_data, and to_gstring on an empty string               *)
ToData ==
  /\ output' = IF root = <<>> THEN <<>> ELSE DumpNode(0, root)
  /\ UNCHANGED <<root, pretty, indent, indent_char>>
=============================================================================
