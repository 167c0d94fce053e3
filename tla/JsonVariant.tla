----------------------------- MODULE JsonVariant -----------------------------
(***************************************************************************)
(* json-glib/json-gvariant.c: GVariant to JSON and back.                   *)
(*                                                                         *)
(* A signature is the sequence of its characters, and a variant a pair     *)
(* <<signature, data>>.  An array, a maybe, a tuple and a dictionary entry *)
(* hold the sequence of their children.  Nodes are those of JsonGenerator. *)
(* The conversion back walks the signature with a cursor, as the code's    *)
(* const gchar **signature does.                                           *)
(***************************************************************************)
EXTENDS JsonGenerator, JsonScanner, FiniteSets

VARIABLES
  variant,    \* what the last conversion back gave
  asked,      \* the signature it was asked for, NULL for none
  given       \* history: the variant the root was made of

conversion == <<variant, asked, given>>

(* The integer types, by the number of bits left of their width, and those *)
(* that are signed.  JSON has the one of 64.                               *)
Bits == "y" :> 3 @@ "n" :> 4 @@ "q" :> 4 @@ "i" :> 5 @@ "u" :> 5 @@ "h" :> 5 @@ "x" :> 6 @@ "t" :> 6
Ints == DOMAIN Bits
Signed == {"n", "i", "h", "x"}
Basic == Ints \cup {"b", "d", "s", "o", "g"}

Wrap(c, n) ==
  LET w == 2 ^ Bits[c]
      m == n % w
  IN  IF c \in Signed /\ m >= w \div 2 THEN m - w ELSE m

-----------------------------------------------------------------------------
(* GVariant to JSON. *)

(* gvariant_simple_to_string.  A double is printed by %f and is left out.  *)
SimpleToString(v) ==
  LET c == v[1][1]
  IN  CASE c = "b" -> IF v[2] THEN <<"t", "r", "u", "e">> ELSE <<"f", "a", "l", "s", "e">>
        [] c \in Ints -> Decimal(v[2])
        [] c \in {"s", "o", "g"} -> v[2]

(* json_gvariant_serialize *)
RECURSIVE ToJson(_)
ToJson(v) ==
  LET c == v[1][1]
      Member(e) == <<SimpleToString(e[2][1]), ToJson(e[2][2])>>
  IN  CASE c = "b" -> <<"boolean", v[2]>>
        [] c \in Ints -> <<"int", Wrap("x", v[2])>>
        [] c = "d" -> <<"double", v[2]>>
        [] c \in {"s", "o", "g"} -> <<"string", v[2]>>
        [] c = "m" -> IF v[2] = <<>> THEN <<"null">> ELSE ToJson(v[2][1])
        [] c = "v" -> ToJson(v[2][1])
        [] c = "{" -> <<"object", <<Member(v)>>>>
        [] c = "a" /\ v[1][2] = "{" -> <<"object", [i \in DOMAIN v[2] |-> Member(v[2][i])]>>
        [] OTHER -> <<"array", [i \in DOMAIN v[2] |-> ToJson(v[2][i])]>>

-----------------------------------------------------------------------------
(* JSON to GVariant. *)

Failed(e) == <<<<"error">>, e>>
Fail == Failed("INVALID_DATA")
Nothing == Failed(NULL)    \* NULL and no error
Bad(v) == v[1] = <<"error">>

(* The first child that could not be converted ends the conversion.        *)
Built(type, children) ==
  IF \E i \in DOMAIN children : Bad(children[i])
    THEN SelectSeq(children, Bad)[1]
    ELSE <<type, children>>

(* signature_get_next_complete_type: where the type that starts here ends *)
RECURSIVE Complete(_, _)
Complete(sig, at) ==
  LET Count(S, n) == Cardinality({i \in at .. n : sig[i] \in S})
      Closed(n) == Count({"(", "{"}, n) = Count({")", "}"}, n)
  IN  CASE sig[at] \in {"(", "{"} -> Min({n \in at .. Len(sig) : Closed(n)})
        [] sig[at] \in {"a", "m"} -> Complete(sig, at + 1)
        [] OTHER -> at

(* json_to_gvariant_get_next_class, "c" for a dictionary                  *)
ClassOf == "boolean" :> "b" @@ "int" :> "x" @@ "double" :> "d" @@ "string" :> "s"
             @@ "array" :> "a" @@ "object" :> "c" @@ "null" :> "m"
NextClass(node, sig, at) ==
  IF sig = NULL THEN ClassOf[node[1]]
  ELSE IF sig[at] = "a" /\ sig[at + 1] = "{" THEN "c" ELSE sig[at]

KindFor(c) == CASE c = "b" -> "boolean" [] c = "d" -> "double" [] c \in Ints -> "int" [] c \in {"s", "o", "g"} -> "string"
                [] c \in {"a", "("} -> "array" [] c \in {"c", "{"} -> "object"

(* g_ascii_strtoll and the like take what they can from the start.         *)
Trim(s) == LET n == SelectInSeq(s, LAMBDA c : c \notin Blank) IN IF n = 0 THEN <<>> ELSE SubSeq(s, n, Len(s))
Digits(s) ==
  LET sign == IF s # <<>> /\ s[1] \in {"-", "+"} THEN 1 ELSE 0
      n == Max({sign} \cup {i \in sign + 1 .. Len(s) : AllDigits(SubSeq(s, sign + 1, i))})
  IN  IF n = sign THEN <<>> ELSE SubSeq(s, 1, n)
Value(ds) == LET n == FoldLeft(LAMBDA k, c : 10 * k + DigitValue[c], 0, SelectSeq(ds, LAMBDA c : c \in Digit))
             IN  IF ds[1] = "-" THEN -n ELSE n
OutOfRange(c, n) == IF c \in {"u", "t"} THEN n > 2 * MaxInt + 1 \/ n < -(2 * MaxInt + 1)
                    ELSE n > MaxInt \/ n < -MaxInt - 1

IntAsJson(s, c) ==    \* mutant: a number read from a string keeps the type JSON has
  IF Digits(s) = <<>> \/ OutOfRange(c, Value(Digits(s))) THEN Fail
  ELSE <<<<"x">>, Wrap("x", Value(Digits(s)))>>
IntFromString(s, c) ==
  IF Digits(s) = <<>> \/ OutOfRange(c, Value(Digits(s))) THEN Fail
  ELSE <<<<c>>, Wrap(c, Value(Digits(s)))>>

(* gvariant_simple_from_string *)
SimpleFromString(s, c) ==
  CASE c = "b" -> IF s = <<"t", "r", "u", "e">> THEN <<<<c>>, TRUE>>
                  ELSE IF s = <<"f", "a", "l", "s", "e">> THEN <<<<c>>, FALSE>> ELSE Fail
    [] c \in Ints -> IntFromString(Trim(s), c)
    [] c = "d" -> LET n == Parsed(Trim(s))
                  IN  IF n = 0 THEN Fail ELSE <<<<c>>, FloatValue(SubSeq(Trim(s), 1, n))>>
    [] c \in {"s", "o", "g"} -> <<<<"s">>, s>>

(* What GLib takes for an object path, and for a signature.                *)
IsObjectPath(s) == s = <<"/">> \/ (Len(s) = 2 /\ s[1] = "/" /\ s[2] \in Letter)
IsSignature(s) == ToSet(s) \subseteq Basic

(* The cases of json_to_gvariant_recurse for what is not a container; the  *)
(* setters of GLib refuse a string that is no path, or no signature.       *)
Leaf(node, c) ==
  IF node[1] = "string" /\ c \notin {"o", "g"} THEN SimpleFromString(node[2], c)
  ELSE IF c = "d" /\ node[1] = "int" THEN <<<<c>>, Decimal(node[2])>>
  ELSE IF node[1] # KindFor(c) THEN Fail
  ELSE CASE c \in Ints -> <<<<c>>, Wrap(c, node[2])>>
         [] c = "o" /\ ~ IsObjectPath(node[2]) -> Nothing
         [] c = "g" /\ ~ IsSignature(node[2]) -> Nothing
         [] OTHER -> <<<<c>>, node[2]>>

(* The type of the items of the array or maybe that starts at at, and the  *)
(* last character of its own.  A cursor that is NULL stays where it is.    *)
ItemOf(sig, at) == IF sig = NULL THEN <<"v">> ELSE SubSeq(sig, at + 1, Complete(sig, at + 1))
LastOf(sig, at) == IF sig = NULL THEN at ELSE Complete(sig, at)

(* parse_dict_entry_signature: the entry that starts at at, and its value  *)
EntryOf(sig, at) == IF sig = NULL THEN <<"{", "s", "v", "}">> ELSE SubSeq(sig, at, Complete(sig, at))
ValueOf(entry) == SubSeq(entry, 3, Complete(entry, 3))

(* Each of these gives what it has converted, and where it leaves the      *)
(* cursor: on the last character of the type, for recurse to step over.    *)
RECURSIVE Recurse(_, _, _), Elements(_, _, _, _, _)

Member(entry, member) ==
  LET key == SimpleFromString(member[1], entry[2])
      value == Recurse(member[2], ValueOf(entry), 1)[1]
  IN  IF Bad(key) THEN key ELSE Built(entry, <<key, value>>)

(* json_to_gvariant_maybe *)
Maybe(node, sig, at) ==
  LET item == ItemOf(sig, at)
      value == IF node[1] = "null" THEN <<>> ELSE <<Recurse(node, item, 1)[1]>>
  IN  <<Built(<<"m">> \o item, value), LastOf(sig, at)>>

(* json_to_gvariant_array *)
Array(node, sig, at) ==
  LET item == ItemOf(sig, at)
  IN  <<Built(<<"a">> \o item, [i \in DOMAIN node[2] |-> Recurse(node[2][i], item, 1)[1]]),
        LastOf(sig, at)>>

(* json_to_gvariant_dictionary and json_to_gvariant_dict_entry             *)
Dictionary(node, sig, at) ==
  LET entry == EntryOf(sig, at + 1)
  IN  <<Built(<<"a">> \o entry, [i \in DOMAIN node[2] |-> Member(entry, node[2][i])]),
        LastOf(sig, at)>>
DictEntry(node, sig, at) ==
  <<IF Len(node[2]) # 1 THEN Fail ELSE Member(EntryOf(sig, at), node[2][1]), LastOf(sig, at)>>

NoSurplus(array, got) == FALSE    \* mutant: elements the tuple has no place for are ignored
Surplus(array, got) == Len(array) > Len(got)

(* json_to_gvariant_tuple, with the elements got so far                    *)
Elements(array, got, start, sig, at) ==
  IF sig[at] = ")"
    THEN <<IF Surplus(array, got) THEN Fail ELSE <<SubSeq(sig, start, at), got>>, at>>
  ELSE IF Len(array) = Len(got) THEN <<Fail, at>>
  ELSE LET one == Recurse(array[Len(got) + 1], sig, at)
       IN  IF Bad(one[1]) THEN one
           ELSE Elements(array, Append(got, one[1]), start, sig, one[2])

(* json_to_gvariant_recurse, and the type json_node_assert_type wants      *)
Recurse(node, sig, at) ==
  LET c == NextClass(node, sig, at)
      wrong == c \in {"c", "{", "a", "("} /\ node[1] # KindFor(c)
      found == CASE wrong -> <<Fail, at>>
                 [] c = "v" -> <<Built(<<c>>, <<Recurse(node, NULL, 1)[1]>>), at>>
                 [] c = "m" -> Maybe(node, sig, at)
                 [] c = "a" /\ ~ wrong -> Array(node, sig, at)
                 [] c = "c" /\ ~ wrong -> Dictionary(node, sig, at)
                 [] c = "{" /\ ~ wrong -> DictEntry(node, sig, at)
                 [] c = "(" /\ ~ wrong -> Elements(node[2], <<>>, at, sig, at + 1)
                 [] OTHER -> <<Leaf(node, c), at>>
  IN  <<found[1], found[2] + 1>>

(* g_variant_type_string_is_valid, of the types the model has              *)
RECURSIVE IsValid(_), AreValid(_)
AreValid(sig) ==
  sig = <<>> \/ \E n \in DOMAIN sig : IsValid(SubSeq(sig, 1, n)) /\ AreValid(SubSeq(sig, n + 1, Len(sig)))
IsValid(sig) ==
  /\ sig # <<>>
  /\ LET others == Tail(sig)
     IN  CASE sig[1] \in {"a", "m"} -> IsValid(others)
           [] sig[1] = "(" -> Last(sig) = ")" /\ AreValid(Front(others))
           [] sig[1] = "{" -> /\ Last(sig) = "}" /\ Len(sig) > 3
                              /\ sig[2] \in Basic /\ IsValid(Front(Tail(others)))
           [] OTHER -> Len(sig) = 1 /\ sig[1] \in Basic \cup {"v"}

-----------------------------------------------------------------------------

ConversionInit == variant = NULL /\ asked = NULL /\ given = NULL

(* json_gvariant_serialize, and the first half of serialize_data           *)
Serialize(v) ==
  /\ SetRoot(ToJson(v))
  /\ given' = v /\ UNCHANGED <<variant, asked>>

(* json_gvariant_deserialize of the root                                   *)
Deserialize(sig) ==
  /\ asked' = sig
  /\ variant' = (IF sig # NULL /\ ~ IsValid(sig) THEN Failed("INVALID_ARGUMENT")
                 ELSE Recurse(root, sig, 1)[1])
  /\ UNCHANGED <<given, generator>>
=============================================================================
