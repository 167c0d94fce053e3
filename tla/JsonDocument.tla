---------------------------- MODULE JsonDocument ----------------------------
(***************************************************************************)
(* What a JsonBuilder promises, without a heap: the calls it accepts spell *)
(* a JSON text, and the tree it returns is the value that text denotes.    *)
(* Values are nested records; a container that is still open leaves a Hole *)
(* in its parent and is put there, whole, when it is closed.  (The code    *)
(* does it the other way round: it links the empty container into its      *)
(* parent first and fills it through the shared pointer.)                  *)
(***************************************************************************)
EXTENDS Sequences, SequencesExt, Integers

CONSTANTS Name, Scalar, NULL,
          Hole    \* the place of a container that is still open

VARIABLES
  open,   \* the open containers, outermost first
  done,   \* the finished value, or NULL
  got,    \* what the last get_root returned, or NULL
  held    \* the values the client has at hand; the client's own business

vars == <<open, done, got, held>>

SameKey(items, n) == {i \in DOMAIN items : n # NULL /\ items[i].name = n}

(* A member named twice keeps its first place and its last value. *)
With(items, n, v) ==
  IF SameKey(items, n) = {}
  THEN Append(items, [name |-> n, item |-> v])
  ELSE [i \in DOMAIN items |->
          IF i \in SameKey(items, n) THEN [name |-> n, item |-> v] ELSE items[i]]

(* A value may come next: the innermost container is an array, or an       *)
(* object whose next member has been named.                                *)
Ready == open # <<>> /\ (Last(open).kind = "array" \/ Last(open).key # NULL)

Stored(v) ==
  Append(Front(open), [kind  |-> Last(open).kind, key |-> NULL,
                       items |-> With(Last(open).items, Last(open).key, v)])

Filled(frames, v) ==
  Append(Front(frames),
         [Last(frames) EXCEPT !.items =
            [i \in DOMAIN @ |-> IF @[i].item = Hole
                                THEN [@[i] EXCEPT !.item = v] ELSE @[i]]])

-----------------------------------------------------------------------------

Init == open = <<>> /\ done = NULL /\ got = NULL /\ held = {}

Begin(k) ==
  /\ done = NULL
  /\ open = <<>> \/ Ready
  /\ open' = Append(IF open = <<>> THEN open ELSE Stored(Hole),
                    [kind |-> k, key |-> NULL, items |-> <<>>])
  /\ UNCHANGED <<done, got>>

End(k) ==
  /\ open # <<>>
  /\ Last(open).kind = k /\ Last(open).key = NULL
  /\ LET v == [kind |-> k, items |-> Last(open).items]
     IN  IF Len(open) = 1
         THEN open' = <<>> /\ done' = v
         ELSE open' = Filled(Front(open), v) /\ UNCHANGED done
  /\ UNCHANGED got

Member(n) ==
  /\ open # <<>>
  /\ Last(open).kind = "object" /\ Last(open).key = NULL
  /\ open' = [open EXCEPT ![Len(open)].key = n]
  /\ UNCHANGED <<done, got>>

Add(v) == Ready /\ open' = Stored(v) /\ UNCHANGED <<done, got>>

GetRoot == got' = done /\ UNCHANGED <<open, done>>

Reset == open' = <<>> /\ done' = NULL /\ UNCHANGED got

Client == UNCHANGED <<open, done, got>>

Next ==
  \/ \E k \in {"object", "array"} : Begin(k) \/ End(k)
  \/ \E n \in Name : Member(n)
  \/ \E v \in Scalar \cup held : Add(v)
  \/ GetRoot \/ Reset \/ Client

Spec == Init /\ [][Next]_vars
=============================================================================
