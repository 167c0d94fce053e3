----------------------------- MODULE JsonGObject -----------------------------
(***************************************************************************)
(* json-glib/json-gobject.c and json-gboxed.c: GObjects to JSON and back,  *)
(* by their properties, and the registry of functions for boxed types.     *)
(*                                                                         *)
(* An object is a pair of its class and the values of its properties by    *)
(* name.  What may fail to give a value gives a sequence of at most one.   *)
(* Nodes are those of JsonGenerator; what GLib and the program's classes   *)
(* do themselves is taken from how this code calls them.                   *)
(***************************************************************************)
EXTENDS JsonVariant

CONSTANTS
  Classes,
  Properties,     \* the GParamSpecs of each class, in order: records of
                  \* name, type, class, flags, default, range, what a new
                  \* object has there (initial), and whether the class's
                  \* own JsonSerializable functions care for it (own)
  NamedValues     \* the names and nicks of enum and flags values

VARIABLES
  object,         \* what the last deserialization gave, or NULL
  dumped,         \* history: the object the root was made of
  serializers,    \* boxed_serialize: the node types for the one boxed type
  deserializers   \* boxed_deserialize

gobjects == <<object, dumped, serializers, deserializers>>

(* Integer types, scaled down to 6 bits for 64. *)
Size == "char" :> 3 @@ "uchar" :> 3 @@ "int" :> 5 @@ "uint" :> 5 @@ "enum" :> 5 @@ "flags" :> 5
          @@ "long" :> 6 @@ "ulong" :> 6 @@ "int64" :> 6 @@ "uint64" :> 6
Unsigned == {"uchar", "uint", "flags", "ulong", "uint64"}

Cast(type, n) ==
  LET w == 2 ^ Size[type]
      m == n % w
  IN  IF type \in Unsigned \/ m < w \div 2 THEN m ELSE m - w

(* g_object_class_find_property: NULL, or the GParamSpec of a name, which  *)
(* may be written with underscores.                                        *)
Canonical(name) == [i \in DOMAIN name |-> IF name[i] = "_" THEN "-" ELSE name[i]]
Find(c, name) ==
  LET found == SelectSeq(Properties[c], LAMBDA p : p.name = Canonical(name))
  IN  IF found = <<>> THEN NULL ELSE found[1]

(* g_object_new without properties, and g_object_set_property, which       *)
(* refuses what is out of the range of the property.                       *)
Instance(c) ==
  <<c, [n \in {Properties[c][i].name : i \in DOMAIN Properties[c]} |-> Find(c, n).initial]>>
Valid(p, v) == p.type \in DOMAIN Size => v \in p.range
SetProperty(o, p, v) == IF Valid(p, v) THEN [o EXCEPT ![2][p.name] = v] ELSE o

(* A class's own JsonSerializable functions: here, for an integer.         *)
OwnNode(v) == <<"array", <<<<"int", v>>>>>>
OwnValue(p, node) ==
  IF p.own /\ node[1] = "array" /\ Len(node[2]) = 1 /\ node[2][1][1] = "int"
  THEN <<node[2][1][2]>> ELSE <<>>

-----------------------------------------------------------------------------
(* Boxed types. *)

NodeType(node) == IF node[1] \in {"array", "object", "null"} THEN node[1] ELSE "value"

(* The functions a program registers: a number as a member, or an element. *)
BoxedNode(type, v) ==
  IF type = "object" THEN <<"object", <<<<<<"a">>, <<"int", v>>>>>>>> ELSE <<"array", <<<<"int", v>>>>>>
BoxedValue(node) ==
  LET inner == IF node[2] = <<>> THEN <<"null">>
               ELSE IF node[1] = "array" THEN node[2][1] ELSE node[2][1][2]
  IN  IF inner[1] = "int" THEN inner[2] ELSE NULL

(* json_boxed_register_serialize_func: one that is there already stays,    *)
(* a new one goes before those of the same type.                           *)
RegisterSerialize(type) ==
  /\ serializers' = (IF Contains(serializers, type) THEN serializers ELSE <<type>> \o serializers)
  /\ UNCHANGED <<object, dumped, deserializers>>

(* json_boxed_register_deserialize_func                                    *)
RegisterDeserialize(type) ==
  /\ deserializers' = deserializers \cup {type}
  /\ UNCHANGED <<object, dumped, serializers>>

(* json_boxed_can_serialize and json_boxed_serialize: the first there is   *)
BoxedSerialize(v) == IF serializers = <<>> \/ v = NULL THEN <<>> ELSE <<BoxedNode(serializers[1], v)>>

-----------------------------------------------------------------------------
(* Objects to JSON. *)

AsInt(type, v) == Cast("int", v)    \* mutant: every integer is got as a gint
Number(type, v) == Cast("int64", v)

RECURSIVE Dump(_)

(* json_serialize_pspec *)
SerializePspec(p, v) ==
  CASE p.type \in DOMAIN Size -> <<<<"int", Number(p.type, v)>>>>
    [] p.type \in {"boolean", "double", "string"} -> <<<<p.type, v>>>>
    [] p.type = "strv" -> <<<<"array", [i \in DOMAIN v |-> <<"string", v[i]>>]>>>>
    [] p.type = "boxed" -> BoxedSerialize(v)
    [] p.type = "object" -> <<IF v = NULL THEN <<"null">> ELSE Dump(v)>>

(* json_gobject_dump: what has its default value is left out.              *)
Dump(o) ==
  LET NodeOf(p) ==
        LET v == o[2][p.name]
        IN  CASE "READABLE" \notin p.flags -> <<>>
              [] p.own -> <<OwnNode(v)>>
              [] v = p.default -> <<>>
              [] OTHER -> SerializePspec(p, v)
      Entry(p) == IF NodeOf(p) = <<>> THEN <<>> ELSE <<<<p.name, NodeOf(p)[1]>>>>
  IN  <<"object", FlattenSeq([i \in DOMAIN Properties[o[1]] |-> Entry(Properties[o[1]][i])])>>

-----------------------------------------------------------------------------
(* JSON to objects. *)

(* enum_from_string: a number at the start counts.                         *)
EnumFromString(s) ==
  LET ds == Digits(Trim(s))
  IN  IF ds # <<>> THEN <<Cast("enum", Value(ds))>>
      ELSE IF s \in DOMAIN NamedValues THEN <<NamedValues[s]>> ELSE <<>>

(* The names between the bars; a bar right after a bar is not seen.        *)
RECURSIVE Pieces(_, _)
Pieces(s, at) ==
  LET bar == Min({i \in at .. Len(s) : s[i] = "|"} \cup {Len(s) + 1})
      piece == Reverse(Trim(Reverse(Trim(SubSeq(s, 1, bar - 1)))))
  IN  <<piece>> \o (IF bar > Len(s) THEN <<>> ELSE Pieces(SubSeq(s, bar + 1, Len(s)), 2))

(* flags_from_string; the values are powers of two                         *)
FlagsFromString(s) ==
  LET ds == Digits(Trim(s))
      names == ToSet(Pieces(s, 1)) \ {<<>>}
  IN  IF ds # <<>> THEN <<Cast("flags", Value(ds))>>
      ELSE IF names \subseteq DOMAIN NamedValues
           THEN <<SumSet({NamedValues[n] : n \in names})>> ELSE <<>>

(* The cases of json_deserialize_pspec for a value node                    *)
FromValue(p, node) ==
  CASE p.type \in {"boolean", "string", "double"} /\ node[1] = p.type -> <<node[2]>>
    [] p.type = "double" /\ node[1] = "int" -> <<Decimal(node[2])>>
    [] p.type \in DOMAIN Size /\ node[1] = "int" -> <<Cast(p.type, node[2])>>
    [] p.type = "enum" /\ node[1] = "string" -> EnumFromString(node[2])
    [] p.type = "flags" /\ node[1] = "string" -> FlagsFromString(node[2])
    [] OTHER -> <<>>

RECURSIVE NewObject(_, _)

(* json_deserialize_pspec *)
DeserializePspec(p, node) ==
  LET strings == SelectSeq(node[2], LAMBDA x : x[1] = "string")
  IN  CASE p.type = "boxed" /\ NodeType(node) \in deserializers -> <<BoxedValue(node)>>
        [] node[1] = "object" -> IF p.type = "object" THEN <<NewObject(p.class, node[2])>> ELSE <<>>
        [] node[1] = "array" -> IF p.type = "strv" THEN <<[i \in DOMAIN strings |-> strings[i][2]]>> ELSE <<>>
        [] node[1] = "null" -> IF p.type \in {"string", "object"} THEN <<NULL>> ELSE <<>>
        [] OTHER -> FromValue(p, node)

IsConstructOnly(p) == p # NULL /\ "CONSTRUCT_ONLY" \in p.flags

UntilUnknown(c, members) ==    \* mutant: the loop ends at a member that is no property
  LET unknown == {i \in DOMAIN members : Find(c, members[i][1]) = NULL}
  IN  SubSeq(members, 1, Min(unknown \cup {Len(members) + 1}) - 1)
(* members_left: those that are not construct-only properties              *)
MembersLeft(c, members) == SelectSeq(members, LAMBDA m : ~ IsConstructOnly(Find(c, m[1])))

(* json_gobject_new: first g_object_new with the construct-only ones, of   *)
(* which the first member for each counts; then the others in order, each  *)
(* by the class's own function, and when that fails by the default one.    *)
NewObject(c, members) ==
  LET Writable(p) == p # NULL /\ "WRITABLE" \in p.flags
      Constructing(m) == LET p == Find(c, m[1])
                         IN  Writable(p) /\ IsConstructOnly(p) /\ DeserializePspec(p, m[2]) # <<>>
      first == SelectSeq(members, Constructing)
      Again(i) == \E j \in 1 .. i - 1 : Canonical(first[j][1]) = Canonical(first[i][1])
      Construct(o, i) == LET p == Find(c, first[i][1])
                         IN  IF Again(i) THEN o ELSE SetProperty(o, p, DeserializePspec(p, first[i][2])[1])
      Set(o, m) ==
        LET p == Find(c, m[1])
            found == OwnValue(p, m[2]) \o DeserializePspec(p, m[2])
        IN  IF ~ Writable(p) THEN o
            ELSE IF found = <<>> THEN o ELSE SetProperty(o, p, found[1])
  IN  FoldLeft(Set, FoldLeft(Construct, Instance(c), [i \in DOMAIN first |-> i]), MembersLeft(c, members))

-----------------------------------------------------------------------------

GObjectInit == object = NULL /\ dumped = NULL /\ serializers = <<>> /\ deserializers = {}

(* json_gobject_serialize *)
GObjectSerialize(o) ==
  /\ SetRoot(Dump(o))
  /\ dumped' = o /\ UNCHANGED <<object, serializers, deserializers>>

(* json_gobject_deserialize of an object node                              *)
GObjectDeserialize(c, node) ==
  /\ object' = NewObject(c, node[2])
  /\ UNCHANGED <<dumped, serializers, deserializers>>

-----------------------------------------------------------------------------

(* Whether a property of a value goes to JSON and back: it can be read and *)
(* set; if it has its default value, new objects have it too; a boxed one  *)
(* needs functions both ways for the same type of node; and what the class *)
(* cares for itself is not set when the object is constructed, before its  *)
(* functions can be called.                                                *)
Returning(p, v) ==
  /\ {"READABLE", "WRITABLE"} \subseteq p.flags
  /\ IF p.own THEN ~ IsConstructOnly(p)
     ELSE \/ v = p.default /\ p.initial = v
          \/ v # p.default /\ (p.type = "boxed" => v # NULL /\ serializers # <<>> /\ serializers[1] \in deserializers)

RECURSIVE Same(_, _)
Same(o, n) ==
  /\ o[1] = n[1]
  /\ \A i \in DOMAIN Properties[o[1]] :
       LET p == Properties[o[1]][i]
           v == o[2][p.name]
           w == n[2][p.name]
       IN  Returning(p, v) => IF p.type = "object" /\ v # NULL THEN w # NULL /\ Same(v, w) ELSE w = v

(* An object that went to JSON comes back with its values, whatever its    *)
(* class, all the way down: numbers of every width, nested objects, what   *)
(* is set at construction only and what is left out as a default.          *)
Restored ==
  (object # NULL /\ dumped # NULL) => (object[1] = dumped[1] => Same(dumped, object))

Holds(p, v) ==
  CASE p.type \in DOMAIN Size -> v \in p.range /\ v = Cast(p.type, v)
    [] p.type = "object" -> v = NULL \/ v[1] = p.class
    [] OTHER -> TRUE

(* The value of a property, given what each member has for it.             *)
Resulting(p, offers) ==
  LET gives == {i \in DOMAIN offers : offers[i] # <<>>}
      takes == {i \in gives : Valid(p, offers[i][1])}
      setting == IF "WRITABLE" \notin p.flags THEN {}
                 ELSE IF IsConstructOnly(p) THEN {i \in takes : i = Min(gives)} ELSE takes
  IN  IF setting = {} THEN p.initial ELSE offers[Max(setting)][1]

(* Each property of a new object is set by its own members, whatever the   *)
(* others are, fail to give or are not known at all, and whatever order    *)
(* they come in: it has the value of the last that gives one the property  *)
(* takes, of the first when it is for construction only, and is left as it *)
(* was made when there is none.  And it holds a value of its type.         *)
EachByItself ==
  object # NULL =>
    \A k \in DOMAIN Properties[object[1]] :
      LET p == Properties[object[1]][k]
          Given(m) ==
            IF Canonical(m[1]) # p.name THEN <<>>
            ELSE (IF IsConstructOnly(p) THEN <<>> ELSE OwnValue(p, m[2])) \o DeserializePspec(p, m[2])
          value == object[2][p.name]
      IN  /\ value = Resulting(p, [i \in DOMAIN root[2] |-> Given(root[2][i])])
          /\ Holds(p, value)
=============================================================================
