--------------------------- MODULE MCJsonRoundTrip ---------------------------
(***************************************************************************)
(* Small instances of JsonRoundTrip: nodes of every kind, strings with     *)
(* every kind of character, numbers at the ends of their range, containers *)
(* that are empty, nested and of two items; variants of every class;       *)
(* objects of four classes; and the texts over six alphabets.              *)
(***************************************************************************)
EXTENDS JsonRoundTrip

Str(s) == <<"string", s>>
Arr(s) == <<"array", s>>
Obj(s) == <<"object", s>>
A == <<"a">>
B == <<"b">>

Strings == {<<>>, A, <<"1">>, <<"-", "9">>, <<"9", "9">>, <<" ", "1", "a">>, <<"1", ".", "5">>,
            <<"t", "r", "u", "e">>, <<"/">>, <<"/", "a">>, <<"s", "i">>}
Odd == {<<c, "a">> : c \in {"\"", "\\", "/", "'", "LF", "TAB", "BS", "FF", "CTL", "DEL", "PAIR"}}
Numbers == {<<"int", n>> : n \in {0, 1, 7, 8, 20, MaxInt, -1, -8, -9, -MaxInt - 1}}
Doubles == {<<"double", d>> : d \in {<<"0">>, <<"1", "0">>, <<"-", "1">>, <<"0", ".", "1">>,
                                      <<"1", "e", "+", "9">>, <<"-", "9", ".", "1", "e", "-", "9">>}}
Flat == {<<"null">>} \cup {<<"boolean", b>> : b \in BOOLEAN} \cup Numbers \cup Doubles
          \cup {Str(s) : s \in Strings}
Few == {<<"null">>, <<"int", 8>>, <<"double", <<"1">>>>, Str(<<"1">>)}
Nested == {Arr(<<>>), Obj(<<>>), Arr(<<Arr(<<>>)>>), Arr(<<Obj(<<>>), Obj(<<>>)>>),
           Obj(<<<<A, Obj(<<>>)>>>>), Obj(<<<<A, Arr(<<<<"int", 1>>, <<"int", 9>>>>)>>>>)}
            \cup {Arr(<<x>>) : x \in Few} \cup {Obj(<<<<A, x>>>>) : x \in Few}
            \cup {Arr(<<x, y>>) : x, y \in Few} \cup {Obj(<<<<A, x>>, <<<<"1">>, y>>>>) : x, y \in Few}
            \cup {Arr(<<Obj(<<<<<<"1">>, x>>>>), Arr(<<x>>)>>) : x \in Few}

MCTrees == Flat \cup Nested \cup {Str(s) : s \in Odd} \cup {Obj(<<<<s, Str(s)>>>>) : s \in Odd}

(* Signatures, and variants by their children. *)
V(c, x) == <<<<c>>, x>>
Many(type, s) == <<<<"a">> \o type, s>>
Some(type, s) == <<<<"m">> \o type, s>>
Both(x, y) == <<<<"(">> \o x[1] \o y[1] \o <<")">>, <<x, y>>>>
Entry(x, y) == <<<<"{">> \o x[1] \o y[1] \o <<"}">>, <<x, y>>>>
Box(x) == <<<<"v">>, <<x>>>>

IntValues == UNION {{V(c, n) : n \in IF c \in Signed THEN {-(2 ^ (Bits[c] - 1)), -1, 2 ^ (Bits[c] - 1) - 1}
                                     ELSE {0, 2 ^ (Bits[c] - 1), 2 ^ Bits[c] - 1}} : c \in Ints}
Simples == IntValues \cup {V("b", TRUE), V("b", FALSE), V("d", <<"1">>), V("s", A), V("s", <<"1">>),
                           V("o", <<"/", "a">>), V("g", <<"s", "i">>)}
Parts == {V("y", 7), V("n", -1), V("b", TRUE), V("s", A), V("d", <<"1">>)}
Inferred == {V("x", 1), V("s", A), V("b", FALSE), V("d", <<"1">>), Some(<<"v">>, <<>>), Many(<<"v">>, <<>>)}
Dicts == {Many(<<"{">> \o k[1] \o v[1] \o <<"}">>, <<Entry(k, v)>>) :
            k \in {V("s", A), V("y", 7), V("n", -1), V("b", TRUE)}, v \in Parts}
MCVariants ==
  Simples \cup Dicts
    \cup {Many(x[1], s) : x \in Parts, s \in {<<>>}} \cup {Many(x[1], <<x, x>>) : x \in Parts}
    \cup {Some(x[1], <<>>) : x \in Parts} \cup {Some(x[1], <<x>>) : x \in Parts}
    \cup {Both(x, y) : x, y \in Parts} \cup {Entry(V("s", A), x) : x \in Parts \cup Dicts}
    \cup {Box(x) : x \in Inferred} \cup {Many(<<"v">>, <<Box(x), Box(y)>>) : x, y \in Inferred}
    \cup {Both(Some(<<"s">>, <<>>), Both(Many(<<"s">>, <<V("s", A)>>), x)) : x \in Parts}
    \cup {Both(d, V("b", TRUE)) : d \in Dicts} \cup {Many(d[1], <<d, d>>) : d \in Dicts}
    \cup {Some(d[1], <<d>>) : d \in Dicts} \cup {Both(Box(V("x", 9)), V("i", 9)), <<<<"(", ")">>, <<>>>>}

MCSignatures == {v[1] : v \in MCVariants} \cup {<<"a", "o">>, <<"(", "g", ")">>, <<"a", "a", "i">>,
  <<"m", "m", "s">>, <<"s", "s">>, <<"(", "i">>, <<"a", "{", "v", "s", "}">>, <<>>, <<"{", "s", "}">>}

(* Classes: one of integers, one of everything else, one that cares for a  *)
(* property itself, and one of properties that cannot be got or set.       *)
RW == {"READABLE", "WRITABLE"}
Prop(name, type, default) ==
  [name |-> name, type |-> type, class |-> NULL, flags |-> RW, default |-> default, initial |-> default,
   range |-> -(2 ^ 6) .. 2 ^ 6, own |-> FALSE]
IntProp(i, type) == Prop(<<DigitOf[i]>>, type, 1)
Path == <<"a", "-", "b">>
Q == <<"q">>
MCProperties ==
  "ints" :> [i \in 1 .. 8 |-> IntProp(i, <<"char", "uchar", "int", "uint", "long", "ulong", "int64", "uint64">>[i])]
  @@ "all" :> <<
       [Prop(A, "int", 1) EXCEPT !.range = 0 .. 7],
       [Prop(Path, "string", NULL) EXCEPT !.initial = B],
       Prop(B, "boolean", FALSE), Prop(<<"d">>, "double", <<"0">>),
       [Prop(<<"e">>, "enum", 1) EXCEPT !.range = {1, 2}], [Prop(<<"f">>, "flags", 0) EXCEPT !.range = 0 .. 3],
       Prop(<<"s">>, "strv", <<>>), Prop(<<"x">>, "boxed", NULL),
       [Prop(<<"o">>, "object", NULL) EXCEPT !.class = "own"]>>
  @@ "own" :> <<
       [Prop(A, "int", 1) EXCEPT !.own = TRUE],
       [Prop(Path, "int", 1) EXCEPT !.own = TRUE, !.flags = RW \cup {"CONSTRUCT_ONLY"}],
       [Prop(Q, "string", <<>>) EXCEPT !.flags = RW \cup {"CONSTRUCT_ONLY"}],
       [Prop(<<"o">>, "object", NULL) EXCEPT !.class = "shut", !.flags = RW \cup {"CONSTRUCT_ONLY"}]>>
  @@ "shut" :> <<
       [Prop(A, "int", 1) EXCEPT !.flags = {"READABLE"}], [Prop(B, "int", 1) EXCEPT !.flags = {"WRITABLE"}],
       [Prop(Path, "int", 1) EXCEPT !.flags = RW \cup {"CONSTRUCT_ONLY"}, !.range = 0 .. 7], Prop(<<"x">>, "boxed", NULL)>>

MCNamedValues == A :> 1 @@ B :> 2

With(o, n, v) == [o EXCEPT ![2][n] = v]
MCObjects ==
  UNION {{With(Instance("ints"), <<DigitOf[i]>>, Cast(MCProperties["ints"][i].type, v)) : v \in {0, 2, 15, 31, -1, -4, -32}} :
           i \in 1 .. 8}
    \cup {With(Instance("all"), A, v) : v \in {0, 7}} \cup {With(Instance("all"), Path, v) : v \in {A, NULL}}
    \cup {With(With(Instance("all"), B, TRUE), <<"d">>, <<"0", ".", "1">>)}
    \cup {With(With(Instance("all"), <<"e">>, 2), <<"f">>, v) : v \in {1, 3}}
    \cup {With(With(Instance("all"), <<"s">>, s), <<"x">>, v) : s \in {<<A>>, <<<<>>, A>>}, v \in {1, 2, NULL}}
    \cup {With(With(Instance("own"), A, v), Path, w) : v, w \in {1, 5}} \cup {With(Instance("own"), Q, A)}
    \cup {With(With(Instance("shut"), A, v), Path, w) : v \in {1, 2}, w \in {1, 3}}
    \cup {With(Instance("all"), <<"o">>, With(With(Instance("own"), <<"o">>, With(Instance("shut"), n, 3)), A, v)) :
             n \in {A, B, Path, <<"x">>}, v \in {1, 6}}

(* Objects with one member of every kind, and pairs in either order that   *)
(* name one property or two, or none, with values it takes and does not.   *)
PropertyNames == UNION {{MCProperties[c][i].name : i \in DOMAIN MCProperties[c]} : c \in DOMAIN MCProperties}
Under == <<"a", "_", "b">>
FewNames == {A, Path, Under, Q, <<"u">>}
FewNodes == {<<"int", 2>>, <<"int", 8>>, Str(B), Arr(<<<<"int", 3>>>>), <<"null">>}
MCDocuments ==
  {Obj(<<>>)}
    \cup {Obj(<<<<n, x>>>>) : n \in PropertyNames,
            x \in Flat \cup {Arr(<<>>), Arr(<<Str(A), <<"int", 1>>, <<"null">>, Str(B)>>), Arr(<<<<"int", 3>>>>),
                            Obj(<<<<A, <<"int", 3>>>>>>), Obj(<<<<A, Str(B)>>, <<Path, <<"int", 9>>>>>>)}}
    \cup {Obj(<<<<n, Str(s)>>>>) : n \in {<<"e">>, <<"f">>},
            s \in {<<"b", "|", "a">>, <<" ", "a", " ", "|", " ", "b">>, <<"a", "|", "u">>, <<"a", "|", "|", "b">>, <<"|", "a">>}}
    \cup {t \in {Obj(<<p, q>>) : p, q \in FewNames \X FewNodes} : t[2][1][1] # t[2][2][1]}

MCAlphabets == {
  <<{"0", "1", "-", "+", ".", "e"}, 5>>,
  <<{"1", "-", ".", "e"}, 6>>,
  <<{"\"", "\\", "u", "n", "LF", "CTL", "0"} \cup Quad, 5>>,
  <<{"\"", "\\", "u"} \cup Surrogate, 8>>,
  <<{"/", "*", "LF", "a", "'"}, 6>>,
  <<{"n", "u", "l", " ", "["}, 5>>}
=============================================================================
