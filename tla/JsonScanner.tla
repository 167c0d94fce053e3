----------------------------- MODULE JsonScanner -----------------------------
(***************************************************************************)
(* JsonScanner (json-glib/json-scanner.c): characters to tokens, one token *)
(* of lookahead, with the line and the position each token ends at.        *)
(*                                                                         *)
(* One action takes one character, or looks at the next one and decides.   *)
(* The text is given, or it is open: then its characters are chosen as the *)
(* scanner comes to them.  A character stands for those that are treated   *)
(* alike; the four hexadecimal digits of an escape are one character.      *)
(***************************************************************************)
EXTENDS Integers, SequencesExt

CONSTANTS
  NULL,
  MaxInt    \* G_MAXINT64, where g_ascii_strtoll saturates

ASSUME ScannerAssumption == MaxInt \in Nat

Letter == {"a", "b", "e", "f", "l", "n", "r", "s", "t", "u", "v"}    \* G_CSET_a_2_z
OctDigit == {"0", "1", "2", "3", "4", "5", "6", "7"}
Digit == OctDigit \cup {"8", "9"}
Blank == {" ", "TAB", "LF"}                          \* TAB stands for CR too
Refused == {"TAB", "LF", "FF", "BS"}                 \* not allowed as such in a string
Surrogate == {"d83d", "de00"}                        \* a high one and a low one
Quad == Surrogate \cup {"0061", "0001", "007f", "0000", "0g"}    \* 0g: not four digits

Decoded(q) == CASE q = "0061" -> "a" [] q = "0001" -> "CTL" [] q = "007f" -> "DEL"
                [] q = "0000" -> "NUL"
Simple == [c \in {"\"", "\\", "/", "n", "t", "b", "f"} |->
             CASE c = "n" -> "LF" [] c = "t" -> "TAB" [] c = "b" -> "BS" [] c = "f" -> "FF"
               [] OTHER -> c]
Symbols == <<"t", "r", "u", "e">> :> "TRUE" @@ <<"f", "a", "l", "s", "e">> :> "FALSE"
             @@ <<"n", "u", "l", "l">> :> "NULL" @@ <<"v", "a", "r">> :> "VAR"

VARIABLES
  strict,
  rest,             \* of the text, as far as it is known
  open,             \* more characters may come
  read,             \* history: the characters taken
  from,             \* history: how many before the token being scanned
  line, position,   \* what line_p and position_p point at
  token, next,      \* scanner->token, next_token, each with its value and place
  caller,           \* "get" or "peek", whose token it is
  mode,             \* where json_scanner_get_token_ll is, or "idle"
  str,              \* gstring
  code              \* an escape begun, or the error found

text == <<strict, rest, open>>
place == <<read, line, position>>
tokens == <<token, next, from, caller>>
scanner == <<text, place, tokens, mode, str, code>>

None == [token |-> "NONE", value |-> NULL, line |-> 1, position |-> 0, from |-> 0, upto |-> 0]

(* json_scanner_new and json_scanner_input_text *)
Input(s, more) ==
  /\ rest = s /\ open = more /\ read = <<>> /\ from = 0
  /\ line = 1 /\ position = 0
  /\ token = None /\ next = None /\ caller = "get"
  /\ mode = "idle" /\ str = <<>> /\ code = NULL

-----------------------------------------------------------------------------

Known == rest # <<>> \/ ~ open
AtEnd == rest = <<>> /\ ~ open

(* json_scanner_peek_next_char; 0 at the end of the text.                  *)
Look == IF rest = <<>> THEN "0" ELSE Head(rest)
Sees(S) == rest # <<>> /\ Look \in S
SeesNone(S) == Known /\ ~ Sees(S)

Width(c) == IF c \notin Quad THEN 1 ELSE IF c = "0g" THEN 2 ELSE 4

(* json_scanner_get_char *)
TakeSameLine ==    \* mutant: newlines not counted
  /\ rest # <<>> /\ rest' = Tail(rest) /\ read' = Append(read, Look)
  /\ position' = position + Width(Look)
  /\ UNCHANGED <<strict, open, line>>
Take ==
  /\ rest # <<>> /\ rest' = Tail(rest) /\ read' = Append(read, Look)
  /\ IF Look = "LF" THEN line' = line + 1 /\ position' = 0
     ELSE position' = position + Width(Look) /\ UNCHANGED line
  /\ UNCHANGED <<strict, open>>

Stay == UNCHANGED <<text, place>>
PastEnd == position' = position + 1 /\ UNCHANGED <<text, read, line>>

Go(m, s, c) == mode' = m /\ str' = s /\ code' = c /\ UNCHANGED tokens
Add(c) == Append(str, c)

(* json_scanner_get_token_i stores a token where its caller wants it.      *)
Return(t, v) ==
  LET found == [token |-> t, value |-> v, line |-> line', position |-> position',
                from |-> from, upto |-> Len(read')]
  IN  /\ token' = (IF caller = "get" THEN found ELSE token)
      /\ next' = (IF caller = "peek" THEN found ELSE next)
      /\ mode' = "idle" /\ str' = <<>> /\ code' = NULL
      /\ UNCHANGED <<from, caller>>

(* ... or goes on, after a blank or a comment.                             *)
Skip ==
  /\ mode' = "start" /\ str' = <<>> /\ code' = NULL
  /\ from' = Len(read')
  /\ UNCHANGED <<token, next, caller>>

Error(e) == Return("ERROR", e)
Unterminated(e) == AtEnd /\ PastEnd /\ Error(e)

(* g_string_free; users see the value as far as its first NUL.             *)
CString(s) == IF Contains(s, "NUL") THEN SubSeq(s, 1, SelectInSeq(s, LAMBDA c : c = "NUL") - 1)
              ELSE s

-----------------------------------------------------------------------------

Call(who) == mode' = "start" /\ caller' = who /\ from' = Len(read)

PeekHere ==    \* mutant: the lookahead is counted from the start of the text
  /\ mode = "idle" /\ next.token = "NONE"
  /\ Call("peek") /\ line' = 1 /\ position' = 0
  /\ UNCHANGED <<text, read, token, next, str, code>>

(* json_scanner_peek_next_token *)
PeekNextToken ==
  /\ mode = "idle" /\ next.token = "NONE"
  /\ Call("peek") /\ line' = token.line /\ position' = token.position
  /\ UNCHANGED <<text, read, token, next, str, code>>

(* json_scanner_get_next_token, from the lookahead if there is one.        *)
GetPeeked ==
  /\ mode = "idle" /\ next.token # "NONE"
  /\ token' = next /\ next' = None
  /\ UNCHANGED <<text, place, from, caller, mode, str, code>>

GetNextToken ==
  /\ mode = "idle" /\ next.token = "NONE"
  /\ Call("get") /\ line' = token.line /\ position' = token.position
  /\ UNCHANGED <<text, read, token, next, str, code>>

(* A first character.  A slash starts a comment, without strictness, and a *)
(* quote a string.                                                         *)
Lax == IF strict THEN {} ELSE {"'", "/"}
Starts == Letter \cup Digit \cup {"-", "\""} \cup Lax

ScanEnd == mode = "start" /\ AtEnd /\ Stay /\ Return("EOF", NULL)

ScanChar ==
  /\ mode = "start" /\ rest # <<>> /\ Look \notin Starts
  /\ Take
  /\ IF Look \in Blank THEN Skip ELSE Return(Look, NULL)

ScanStart ==
  /\ mode = "start" /\ Sees(Starts)
  /\ Take
  /\ Go(CASE Look \in Letter -> "letter" [] Look \in Digit -> "number"
          [] Look = "-" -> "minus" [] Look = "\"" -> "string"
          [] Look = "'" -> "single quoted" [] Look = "/" -> "slash",
        IF Look \in Letter \cup Digit \cup {"-"} THEN <<Look>> ELSE <<>>, NULL)

-----------------------------------------------------------------------------
(* Words.  strchr finds the 0 of the end in every set of characters, so a  *)
(* letter alone is an identifier there, and a token of its own elsewhere.  *)

Word(s) == IF s \in DOMAIN Symbols THEN Return(Symbols[s], NULL) ELSE Return("IDENTIFIER", s)

ScanLetter ==
  /\ mode = "letter"
  /\ \/ Sees(Letter) /\ Take /\ Go("word", Add(Look), NULL)
     \/ AtEnd /\ Stay /\ Word(str)
     \/ rest # <<>> /\ ~ Sees(Letter) /\ Stay /\ Return(str[1], NULL)

ScanWord ==
  /\ mode = "word"
  /\ \/ Sees(Letter) /\ Take /\ Go("word", Add(Look), NULL)
     \/ SeesNone(Letter) /\ Stay /\ Word(str)

-----------------------------------------------------------------------------
(* Comments.  The one that starts with a single slash ends at the next     *)
(* slash: cpair_comment_single is "//\n", and its second character is what *)
(* the code looks for.                                                     *)

ScanSlash ==
  /\ mode = "slash"
  /\ \/ Sees({"*"}) /\ Take /\ Go("comment", <<>>, NULL)
     \/ SeesNone({"*"}) /\ Stay /\ Go("slashed", <<>>, NULL)

ScanComment ==
  /\ mode = "comment"
  /\ \/ rest # <<>> /\ Take /\ Go(IF Look = "*" THEN "star" ELSE "comment", <<>>, NULL)
     \/ Unterminated("UNEXP_EOF_IN_COMMENT")

ScanStar ==
  /\ mode = "star"
  /\ \/ Sees({"/"}) /\ Take /\ Skip
     \/ SeesNone({"/"}) /\ Stay /\ Go("comment", <<>>, NULL)

ScanSlashed ==
  /\ mode = "slashed"
  /\ \/ Sees({"/"}) /\ Take /\ Skip
     \/ rest # <<>> /\ ~ Sees({"/"}) /\ Take /\ Go("slashed", <<>>, NULL)
     \/ Unterminated("UNEXP_EOF_IN_COMMENT")

-----------------------------------------------------------------------------
(* Strings. *)

ScanSingleQuoted ==
  /\ mode = "single quoted"
  /\ \/ Sees({"'"}) /\ Take /\ Return("STRING", CString(str))
     \/ rest # <<>> /\ ~ Sees({"'"}) /\ Take /\ Go("single quoted", Add(Look), NULL)
     \/ Unterminated("UNEXP_EOF_IN_STRING")

(* A control character leaves the loop before the string is marked as      *)
(* ended, so the error reported is that of an unterminated string.         *)
ScanString ==
  /\ mode = "string"
  /\ \/ Sees({"\""}) /\ Take /\ Return("STRING", CString(str))
     \/ Sees({"\\"}) /\ Take /\ Go("escape", str, NULL)
     \/ Sees(Refused) /\ Take /\ Go("unclosed", str, NULL)
     \/ rest # <<>> /\ ~ Sees(Refused \cup {"\"", "\\"}) /\ Take /\ Go("string", Add(Look), NULL)
     \/ Unterminated("UNEXP_EOF_IN_STRING")

ScanUnclosed == mode = "unclosed" /\ PastEnd /\ Error("UNEXP_EOF_IN_STRING")

(* After an error one more character is taken, whatever it is.             *)
Broken(e) == Go("broken", <<>>, e)
ScanBroken ==
  /\ mode = "broken"
  /\ \/ rest # <<>> /\ Take /\ Error(code)
     \/ Unterminated("UNEXP_EOF_IN_STRING")

Escapable == DOMAIN Simple \cup {"u"} \cup OctDigit

ScanEscape ==
  /\ mode = "escape"
  /\ \/ Sees(DOMAIN Simple) /\ Take /\ Go("string", Add(Simple[Look]), NULL)
     \/ Sees({"u"}) /\ Take /\ Go("unicode", str, NULL)
     \/ Sees(OctDigit) /\ ~ strict /\ Take /\ Go("octal", str, <<Look>>)
     \/ rest # <<>> /\ ~ Sees(Escapable) /\ ~ strict /\ Take /\ Go("string", Add(Look), NULL)
     \/ rest # <<>> /\ ~ Sees(DOMAIN Simple \cup {"u"}) /\ strict /\ Take /\ Broken("UNKNOWN_ESCAPE")
     \/ Unterminated("UNEXP_EOF_IN_STRING")

(* Up to three octal digits; which character they name does not matter,    *)
(* unless it is 0.                                                         *)
ScanOctal ==
  /\ mode = "octal"
  /\ IF Sees(OctDigit) /\ Len(code) < 3
     THEN Take /\ Go("octal", str, Append(code, Look))
     ELSE /\ Len(code) = 3 \/ Known
          /\ Stay /\ Go("string", Add(IF ToSet(code) = {"0"} THEN "NUL" ELSE "OCT"), NULL)

(* json_scanner_get_unichar, after a look at the first digit.              *)
ScanUnicode ==
  /\ mode = "unicode"
  /\ \/ Sees(Quad \ (Surrogate \cup {"0g"})) /\ Take /\ Go("string", Add(Decoded(Look)), NULL)
     \/ Sees(Surrogate) /\ Take /\ Go("pair", str, Look)
     \/ Sees({"0g"}) /\ Take /\ Broken("MALFORMED_UNICODE")
     \/ SeesNone(Quad) /\ Stay /\ Broken("MALFORMED_UNICODE")

ScanPair ==
  /\ mode \in {"pair", "pair escape"}
  /\ LET want == IF mode = "pair" THEN "\\" ELSE "u"
     IN  \/ Sees({want}) /\ Take /\ Go(IF mode = "pair" THEN "pair escape" ELSE "low", str, code)
         \/ SeesNone({want}) /\ Stay /\ Broken("MALFORMED_SURROGATE_PAIR")

AnyPair(high, low) == low \in Surrogate    \* mutant: the order is not checked

(* decode_utf16_surrogate_pair *)
IsPair(high, low) == high = "d83d" /\ low = "de00"

ScanLow ==
  /\ mode = "low"
  /\ \/ rest # <<>> /\ IsPair(code, Look) /\ Take /\ Go("string", Add("PAIR"), NULL)
     \/ Sees(Quad \ {"0g"}) /\ ~ IsPair(code, Look) /\ Take /\ Broken("MALFORMED_SURROGATE_PAIR")
     \/ rest # <<>> /\ ~ Sees(Quad \ {"0g"}) /\ Take /\ Broken("MALFORMED_UNICODE")
     \/ AtEnd /\ Stay /\ Broken("MALFORMED_UNICODE")

-----------------------------------------------------------------------------
(* Numbers. *)

IsFloat(s) == Contains(s, ".") \/ Contains(s, "e")
LeadingZero == SelectSeq(str, LAMBDA c : c # "-")[1] = "0"
AllDigits(s) == s # <<>> /\ ToSet(s) \subseteq Digit

(* What g_ascii_strtod reads of s: all of it, or up to a second point or a *)
(* second or empty exponent.                                               *)
Parsed(s) ==
  LET Part(i, j) == SubSeq(s, i, j)
      Sign(i) == IF i <= Len(s) /\ s[i] \in {"+", "-"} THEN 1 ELSE 0
      Reads(n) ==
        \E i, j \in 1 .. n :
          /\ i <= j /\ AllDigits(Part(1 + Sign(1), i))
          /\ j = i \/ (s[i + 1] = "." /\ AllDigits(Part(i + 2, j)))
          /\ n = j \/ (s[j + 1] = "e" /\ AllDigits(Part(j + 2 + Sign(j + 2), n)))
  IN  Max({0} \cup {n \in 1 .. Len(s) : Reads(n)})

DigitValue == "0" :> 0 @@ "1" :> 1 @@ "2" :> 2 @@ "3" :> 3 @@ "4" :> 4
                @@ "5" :> 5 @@ "6" :> 6 @@ "7" :> 7 @@ "8" :> 8 @@ "9" :> 9
Clamp(n) == IF n > MaxInt THEN MaxInt ELSE IF n < -MaxInt - 1 THEN -MaxInt - 1 ELSE n
IntValue(s) ==
  LET Number(ds) == FoldLeft(LAMBDA n, c : 10 * n + DigitValue[c], 0, ds)
  IN  Clamp(IF s[1] = "-" THEN -Number(Tail(s)) ELSE Number(s))

(* A float is known by the text g_ascii_dtostr gives it.                   *)
FloatValue(s) == IF IsSuffix(<<".", "0">>, s) THEN SubSeq(s, 1, Len(s) - 2) ELSE s

NumberRead(s) == Return(IF IsFloat(s) THEN "FLOAT" ELSE "INT",
                        IF IsFloat(s) THEN FloatValue(s) ELSE IntValue(s))

NumberUnchecked == NumberRead(str)    \* mutant: endptr ignored
NumberDone ==
  IF Parsed(str) = Len(str) THEN NumberRead(str)
  ELSE Error(IF str[Parsed(str) + 1] = "e" THEN "NON_DIGIT_IN_CONST" ELSE "DIGIT_RADIX")

ScanMinus ==
  /\ mode = "minus"
  /\ \/ Sees(Digit) /\ Take /\ Go("number", Add(Look), NULL)
     \/ SeesNone(Digit) /\ Stay /\ Error("NON_DIGIT_IN_CONST")

InNumber == Digit \cup {"e", "."} \cup (IF IsFloat(str) /\ Last(str) = "e" THEN {"+", "-"} ELSE {})

ScanNumber ==
  /\ mode = "number"
  /\ \/ /\ Sees(InNumber) /\ Take
        /\ IF Look = "." THEN Go("point", str, NULL)
           ELSE IF Look \in Digit /\ LeadingZero /\ ~ IsFloat(str) THEN Error("LEADING_ZERO")
           ELSE Go("number", Add(Look), NULL)
     \/ SeesNone(InNumber) /\ Stay /\ NumberDone

ScanPoint ==
  /\ mode = "point"
  /\ \/ Sees(Digit) /\ Stay /\ Go("number", Add("."), NULL)
     \/ SeesNone(Digit) /\ Stay /\ Error("FLOAT_MALFORMED")

Scan ==
  \/ ScanEnd \/ ScanChar \/ ScanStart \/ ScanLetter \/ ScanWord
  \/ ScanSlash \/ ScanComment \/ ScanStar \/ ScanSlashed
  \/ ScanSingleQuoted \/ ScanString \/ ScanUnclosed \/ ScanBroken
  \/ ScanEscape \/ ScanOctal \/ ScanUnicode \/ ScanPair \/ ScanLow
  \/ ScanMinus \/ ScanNumber \/ ScanPoint

Scanner == PeekNextToken \/ GetPeeked \/ GetNextToken \/ Scan
=============================================================================
