---------------------------- MODULE JsonRoundTrip ----------------------------
(***************************************************************************)
(* Text out and in.  Either a client makes a tree, or gives one to be made *)
(* of a variant, and has it generated and scanned back, or converts it to  *)
(* a variant; or has an object written to one, or made of one; or any      *)
(* text, chosen character by character as the scanner comes to it, is      *)
(* scanned.                                                                *)
(***************************************************************************)
EXTENDS JsonGObject

CONSTANTS
  Trees, Variants, Signatures,
  Objects, Documents, BoxedTypes,    \* objects, trees to make some of, types
                                     \* of nodes that boxed ones may be
  MaxIndent, IndentChars,
  Alphabets      \* for the text that is not generated: pairs of the
                 \* characters, and how many of them the text may have

VARIABLES
  alphabet,      \* of the text, or NULL when it is a tree's
  got            \* history: the tokens of a tree's text

conversions == <<conversion, gobjects>>
vars == <<generator, scanner, conversions, alphabet, got>>

Init ==
  /\ GeneratorInit /\ ConversionInit /\ GObjectInit
  /\ strict \in BOOLEAN
  /\ alphabet \in Alphabets \cup {NULL}
  /\ Input(<<>>, alphabet # NULL)
  /\ got = <<>>

-----------------------------------------------------------------------------
(* A tree. *)

Making == alphabet = NULL /\ output = <<>> /\ asked = NULL /\ object = NULL
Made(A) == Making /\ A /\ UNCHANGED <<scanner, alphabet, got>>
Registered == serializers # <<>> \/ deserializers # {}    \* it matters to objects only
LaidOut(A) == Made(root = <<>> /\ ~ Registered /\ A /\ UNCHANGED conversions)

NewTree == LaidOut(\E t \in Trees : SetRoot(t))
BePretty == LaidOut(~ pretty /\ SetPretty(TRUE))
NewIndent == LaidOut(pretty /\ \E n \in 0 .. MaxIndent : SetIndent(n))
NewIndentChar == LaidOut(pretty /\ \E c \in IndentChars : SetIndentChar(c))
NewVariant == Made(root = <<>> /\ ~ Registered /\ (\E v \in Variants : Serialize(v)) /\ UNCHANGED gobjects)

Plain == ~ pretty /\ strict    \* neither matters to conversions
Convert ==
  /\ Plain /\ dumped = NULL
  /\ Made(root # <<>> /\ (\E sig \in Signatures \cup {NULL} : Deserialize(sig)) /\ UNCHANGED gobjects)

Register ==
  /\ Plain
  /\ Made(root = <<>> /\ UNCHANGED <<generator, conversion>>
            /\ \E type \in BoxedTypes : RegisterSerialize(type) \/ RegisterDeserialize(type))
DumpObject == Plain /\ Made(root = <<>> /\ (\E o \in Objects : GObjectSerialize(o)) /\ UNCHANGED conversion)
MakeObject ==
  /\ Plain
  /\ Made(/\ IF root = <<>> THEN \E t \in Documents : SetRoot(t) ELSE dumped # NULL /\ UNCHANGED generator
          /\ \E c \in Classes : GObjectDeserialize(c, root')
          /\ UNCHANGED conversion)

(* json_generator_to_data, and the text given to a scanner                 *)
Generate ==
  /\ Making /\ root # <<>> /\ dumped = NULL
  /\ ToData
  /\ rest' = output'
  /\ UNCHANGED <<strict, open, place, tokens, mode, str, code, conversions, alphabet, got>>

-----------------------------------------------------------------------------
(* A text. *)

(* Where four digits are looked for, they come together.                   *)
Fits(c) == IF mode \in {"unicode", "low"} THEN c \notin Digit \cup {"a", "b", "e", "f"}
           ELSE c \notin Quad

Supply ==
  /\ open /\ rest = <<>> /\ mode # "idle" /\ Len(read) < alphabet[2]
  /\ \E c \in alphabet[1] : Fits(c) /\ rest' = <<c>>
  /\ UNCHANGED <<strict, open, place, tokens, mode, str, code, generator, conversions, alphabet, got>>

EndOfText ==
  /\ open /\ rest = <<>> /\ mode # "idle"
  /\ open' = FALSE
  /\ UNCHANGED <<strict, rest, place, tokens, mode, str, code, generator, conversions, alphabet, got>>

(* The parser takes the next token, or looks at it, until there is an      *)
(* error.                                                                  *)
Scanned ==
  /\ alphabet # NULL \/ output # <<>>
  /\ token.token # "ERROR"
  /\ Scanner
  /\ got' = (IF alphabet = NULL /\ token' # token
             THEN Append(got, <<token'.token, token'.value>>) ELSE got)
  /\ UNCHANGED <<generator, conversions, alphabet>>

(* A failed load, or a conversion, is the end.                             *)
Stop == (token.token = "ERROR" \/ asked # NULL \/ variant # NULL \/ object # NULL) /\ UNCHANGED vars

Next ==
  \/ NewTree \/ NewVariant \/ BePretty \/ NewIndent \/ NewIndentChar
  \/ Convert \/ Generate \/ Register \/ DumpObject \/ MakeObject
  \/ Supply \/ EndOfText \/ Scanned \/ Stop

Spec == Init /\ [][Next]_vars

-----------------------------------------------------------------------------
(* What a token may be made of, after ECMA 404, by ways to split it.       *)

IsNumber(s) ==
  LET n == Len(s)
      Part(i, j) == SubSeq(s, i, j)
      IsInt(d) == AllDigits(d) /\ (d[1] = "0" => Len(d) = 1)
      IsFraction(f) == f = <<>> \/ (f[1] = "." /\ AllDigits(Tail(f)))
      IsExponent(e) == e = <<>> \/ /\ e[1] = "e"
                                   /\ \E k \in {2, 3} : /\ AllDigits(SubSeq(e, k, Len(e)))
                                                        /\ k = 3 => e[2] \in {"+", "-"}
  IN  \E a \in 0 .. 1, b \in 1 .. n, c \in 1 .. n :
        /\ Part(1, a) \in {<<>>, <<"-">>} /\ IsInt(Part(a + 1, b))
        /\ c >= b /\ IsFraction(Part(b + 1, c)) /\ IsExponent(Part(c + 1, n))

(* The characters a piece of a quoted string may stand for                 *)
Means(p) ==
  CASE Len(p) = 1 -> p[1]
    [] Len(p) = 2 -> Simple[p[2]]
    [] Len(p) = 3 -> Decoded(p[3])
    [] Len(p) = 6 -> "PAIR"
IsPiece(p) ==
  \/ Len(p) = 1 /\ p[1] \notin Refused \cup {"\"", "\\"}
  \/ Len(p) = 2 /\ p[1] = "\\" /\ p[2] \in DOMAIN Simple
  \/ Len(p) = 3 /\ SubSeq(p, 1, 2) = <<"\\", "u">> /\ p[3] \in Quad \ (Surrogate \cup {"0g"})
  \/ p = <<"\\", "u", "d83d", "\\", "u", "de00">>

RECURSIVE Meanings(_)
Meanings(s) ==
  IF s = <<>> THEN {<<>>}
  ELSE UNION {{<<Means(SubSeq(s, 1, n))>> \o m : m \in Meanings(SubSeq(s, n + 1, Len(s)))} :
                n \in {k \in 1 .. Len(s) : k \in {1, 2, 3, 6} /\ IsPiece(SubSeq(s, 1, k))}}

Source(t) == SubSeq(read, t.from + 1, t.upto)
IsQuoted(s) == Len(s) > 1 /\ s[1] = "\"" /\ Last(s) = "\""
Inner(s) == SubSeq(s, 2, Len(s) - 1)

Right(t) ==
  LET s == Source(t)
      strings == IF IsQuoted(s) THEN {CString(m) : m \in Meanings(Inner(s))} ELSE {}
  IN  CASE t.token = "INT" ->
             /\ IsNumber(s) /\ ~ IsFloat(s)
             /\ Decimal(t.value) = s \/ s = <<"-", "0">> \/ t.value \in {MaxInt, -MaxInt - 1}
        [] t.token = "FLOAT" -> IsNumber(s) /\ IsFloat(s) /\ Double(t.value) \in {s, s \o <<".", "0">>}
        [] t.token = "STRING" ->
             IF s[1] = "'" THEN ~ strict /\ t.value = CString(Inner(s))
             ELSE IF strict THEN t.value \in strings
             ELSE strings # {} => t.value \in strings
        [] t.token = "ERROR" -> ~ IsNumber(s) /\ strings = {}
        [] s \in DOMAIN Symbols -> t.token = Symbols[s]
        [] OTHER -> t.token \notin Range(Symbols)

(* Whatever the text, and whether a token is taken or looked at before: a  *)
(* number has the form and the value of ECMA 404, a string the characters  *)
(* its escapes stand for, as far as the first NUL, a word its meaning; and *)
(* the scanner finds no error in a number or a string that is well formed. *)
Lexed == Right(token) /\ Right(next)

Column(s) ==
  LET lines == {i \in DOMAIN s : s[i] = "LF"}
  IN  FoldLeft(LAMBDA n, c : n + Width(c), 0, SubSeq(s, Max({0} \cup lines) + 1, Len(s)))
At(t) ==
  LET s == SubSeq(read, 1, t.upto)
  IN  /\ t.line = 1 + Len(SelectSeq(s, LAMBDA c : c = "LF"))
      /\ t.position - Column(s) \in (IF t.token = "ERROR" THEN {0, 1} ELSE {0})

(* The line and the column of a token are those of the place it ends at,   *)
(* also when it was looked at before, or follows a comment of many lines.  *)
Positions == At(token) /\ At(next)

RECURSIVE TokensOf(_)
Between(items) == FlattenSeq([i \in DOMAIN items |-> IF i = 1 THEN items[i] ELSE <<<<",", NULL>>>> \o items[i]])
TokensOf(t) ==
  CASE t[1] = "null" -> <<<<"NULL", NULL>>>>
    [] t[1] = "boolean" -> <<<<IF t[2] THEN "TRUE" ELSE "FALSE", NULL>>>>
    [] t[1] = "int" -> <<<<"INT", t[2]>>>>
    [] t[1] = "double" -> <<<<"FLOAT", t[2]>>>>
    [] t[1] = "string" -> <<<<"STRING", t[2]>>>>
    [] t[1] = "array" -> <<<<"[", NULL>>>> \o Between([i \in DOMAIN t[2] |-> TokensOf(t[2][i])])
                           \o <<<<"]", NULL>>>>
    [] t[1] = "object" ->
         <<<<"{", NULL>>>>
           \o Between([i \in DOMAIN t[2] |-> <<<<"STRING", t[2][i][1]>>, <<":", NULL>>>>
                                               \o TokensOf(t[2][i][2])])
           \o <<<<"}", NULL>>>>

(* What the generator prints, laid out in any way, scans back as the tree: *)
(* the same tokens with the same values, then the end.                     *)
RoundTrip == got # <<>> => IsPrefix(got, Append(TokensOf(root), <<"EOF", NULL>>))

-----------------------------------------------------------------------------

InRange(c, n) == n = Wrap(c, n)
RECURSIVE WellFormed(_)
WellFormed(v) ==
  LET c == v[1][1]
      types == FlattenSeq([i \in DOMAIN v[2] |-> v[2][i][1]])
      All == \A i \in DOMAIN v[2] : WellFormed(v[2][i])
      Each(type) == \A i \in DOMAIN v[2] : v[2][i][1] = type
  IN  CASE c = "b" -> v[2] \in BOOLEAN
        [] c \in Ints -> InRange(c, v[2])
        [] c = "o" -> IsObjectPath(v[2])
        [] c = "g" -> IsSignature(v[2])
        [] c \in {"d", "s"} -> TRUE
        [] c = "v" -> Len(v[2]) = 1 /\ All
        [] c = "m" -> Len(v[2]) < 2 /\ Each(Tail(v[1])) /\ All
        [] c = "a" -> Each(Tail(v[1])) /\ All
        [] c = "(" -> v[1] = <<"(">> \o types \o <<")">> /\ All
        [] c = "{" -> v[1] = <<"{">> \o types \o <<"}">> /\ Len(v[2]) = 2 /\ Len(v[2][1][1]) = 1 /\ All

Natural == "boolean" :> <<"b">> @@ "int" :> <<"x">> @@ "double" :> <<"d">> @@ "string" :> <<"s">>
             @@ "array" :> <<"a", "v">> @@ "object" :> <<"a", "{", "s", "v", "}">> @@ "null" :> <<"m", "v">>

(* A conversion to a variant gives exactly the type that was asked for,    *)
(* all the way down, or the one that goes with the node; or it gives none, *)
(* with an error, unless what it refused is a path or a signature.         *)
Conforms ==
  variant # NULL =>
    IF variant = Nothing THEN asked # NULL /\ ToSet(asked) \cap {"o", "g"} # {}
    ELSE Bad(variant) \/ /\ variant[1] = (IF asked = NULL THEN Natural[root[1]] ELSE asked)
                         /\ WellFormed(variant)

RECURSIVE SameShape(_, _)
SameShape(t, u) ==
  CASE t[1] \in {"array", "object"} ->
         /\ t[1] = u[1] /\ Len(t[2]) = Len(u[2])
         /\ \A i \in DOMAIN t[2] : IF t[1] = "array" THEN SameShape(t[2][i], u[2][i])
                                   ELSE SameShape(t[2][i][2], u[2][i][2])
    [] t[1] = "null" -> u[1] = "null"
    [] OTHER -> u[1] \notin {"array", "object", "null"}

(* A variant that went to JSON comes back as it was, asked for by its      *)
(* type; a tree that went to a variant without a signature comes back as   *)
(* it was, and with any signature no element or member is lost or made up. *)
NothingLost ==
  (variant # NULL /\ ~ Bad(variant)) =>
    /\ (given # NULL /\ asked = given[1]) => variant = given
    /\ asked = NULL => ToJson(variant) = root
    /\ SameShape(ToJson(variant), root)
=============================================================================
