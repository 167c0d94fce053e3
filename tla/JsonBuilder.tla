---------------------------- MODULE JsonBuilder ----------------------------
(***************************************************************************)
(* JsonBuilder (json-glib/json-builder.c): a tree is built by a sequence   *)
(* of calls that a stack of open containers keeps well formed.  A call     *)
(* that does not fit fails its g_return_val_if_fail, returns NULL and      *)
(* changes nothing: it is a step that is not enabled.                      *)
(*                                                                         *)
(* The client shares memory with the builder.  get_root gives it a new     *)
(* node on the builder's own container, and add_value takes any node of    *)
(* the client's, so the same container may sit in several trees.           *)
(***************************************************************************)
EXTENDS JsonHeap, SequencesExt

CONSTANTS
  Hole,        \* see JsonDocument
  MaxHandles   \* bound on the client's references to one container

VARIABLES
  heap,        \* every JsonObject and JsonArray
  stack,       \* priv->stack, its head last
  root,        \* the container of priv->root, or NULL
  immutable,   \* priv->immutable, construct-only
  handed,      \* references the client holds on each container
  got          \* what the last get_root returned

vars == <<heap, stack, root, immutable, handed, got>>

Modes == {"OBJECT", "ARRAY", "MEMBER"}
(* The member name is set exactly while a member waits for its value.      *)
Frame == {f \in [cont : Cont, mode : Modes, name : Name \cup {NULL}] :
            f.mode = "MEMBER" <=> f.name # NULL}

Top == Last(stack)
Open == {stack[i].cont : i \in DOMAIN stack}

TypeOK ==
  /\ heap \in [Cont -> Cell]
  /\ stack \in Seq(Frame)
  /\ root \in Cont \cup {NULL}
  /\ immutable \in BOOLEAN
  /\ handed \in [Cont -> Nat]
  /\ got \in Cont \cup {NULL}

Init ==
  /\ heap = NewHeap
  /\ stack = <<>>
  /\ root = NULL
  /\ immutable \in BOOLEAN
  /\ handed = [c \in Cont |-> 0]
  /\ got = NULL

-----------------------------------------------------------------------------

(* json_builder_is_valid_add_mode *)
ValidAddMode == stack # <<>> /\ Top.mode \in {"MEMBER", "ARRAY"}

HasRoom == Len(heap[Top.cont].items) < MaxItems

(* The switch every add and begin function ends in: the value goes into    *)
(* the innermost container, and a pending member name is used up.          *)
Attached(h, x) == Store(h, Top.cont, Top.name, x)

Popped == Front(stack)

AfterAddKeepingMode ==    \* mutant: the name is freed, the mode stays
  IF Top.mode = "MEMBER"
  THEN Append(Popped, [cont |-> Top.cont, mode |-> "MEMBER", name |-> NULL])
  ELSE stack

AfterAdd ==
  IF Top.mode = "MEMBER"
  THEN Append(Popped, [cont |-> Top.cont, mode |-> "OBJECT", name |-> NULL])
  ELSE stack

(* The new container has one reference for the stack entry and, unless it  *)
(* is outermost, one for the node linked into the enclosing container.     *)
Begin(k, c) ==
  LET mode == IF k = "object" THEN "OBJECT" ELSE "ARRAY"
      frame == [cont |-> c, mode |-> mode, name |-> NULL]
  IN
  /\ Fresh(heap, c)
  /\ root = NULL
  /\ stack = <<>> \/ (ValidAddMode /\ HasRoom)
  /\ IF stack = <<>>
     THEN /\ heap' = Alloc(heap, c, k, 1)
          /\ stack' = <<frame>>
     ELSE /\ heap' = Attached(Alloc(heap, c, k, 2), c)
          /\ stack' = Append(AfterAdd, frame)
  /\ UNCHANGED <<root, immutable, handed, got>>

BeginObject(c) == Begin("object", c)
BeginArray(c) == Begin("array", c)

(* What an immutable builder does to every container it closes and every   *)
(* node it is given.                                                       *)
SealNever(h, c) == h    \* mutant: the immutable property is ignored
SealIfImmutable(h, c) == IF immutable THEN Seal(h, c) ELSE h

(* The outermost container goes to priv->root, with a reference for the    *)
(* root node; the stack entry gives its reference up.                      *)
EndedNoRef(h, c) == Release(h, One(c))    \* mutant: json_object_ref forgotten
Ended(h, c) == Release(IF Len(stack) = 1 THEN AddRef(h, c) ELSE h, One(c))

End(mode) ==
  /\ stack # <<>>
  /\ Top.mode = mode
  /\ heap' = Ended(SealIfImmutable(heap, Top.cont), Top.cont)
  /\ stack' = Popped
  /\ root' = IF Len(stack) = 1 THEN Top.cont ELSE root
  /\ UNCHANGED <<immutable, handed, got>>

EndObject == End("OBJECT")
EndArray == End("ARRAY")

SetMemberName(n) ==
  /\ stack # <<>>
  /\ Top.mode = "OBJECT"
  /\ stack' = Append(Popped, [cont |-> Top.cont, mode |-> "MEMBER", name |-> n])
  /\ UNCHANGED <<heap, root, immutable, handed, got>>

(* add_int_value, add_double_value, add_boolean_value, add_string_value,   *)
(* add_null_value *)
AddScalar(s) ==
  /\ ValidAddMode /\ HasRoom
  /\ heap' = Attached(heap, s)
  /\ stack' = AfterAdd
  /\ UNCHANGED <<root, immutable, handed, got>>

(* json_builder_add_value with a node of the client's that holds c: the    *)
(* builder takes the node over, and seals it if the tree is immutable.     *)
AddValue(c) ==
  /\ ValidAddMode /\ HasRoom
  /\ handed[c] > 0
  /\ heap' = Attached(SealIfImmutable(heap, c), c)
  /\ stack' = AfterAdd
  /\ handed' = [handed EXCEPT ![c] = @ - 1]
  /\ UNCHANGED <<root, immutable, got>>

(* json_builder_get_root: json_node_copy shares the container of r.        *)
Return(r) ==
  /\ IF r = NULL
     THEN UNCHANGED <<heap, handed>>
     ELSE /\ handed[r] < MaxHandles
          /\ heap' = AddRef(heap, r)
          /\ handed' = [handed EXCEPT ![r] = @ + 1]
  /\ got' = r
  /\ UNCHANGED <<stack, root, immutable>>

GetRootEarly ==    \* mutant: returns the tree under construction
  Return(IF stack # <<>> THEN stack[1].cont ELSE root)
GetRoot == Return(root)

(* json_builder_free_all_state: every stack entry and the root go.         *)
Reset ==
  /\ heap' = Release(heap, [c \in Cont |->
                Cardinality({i \in DOMAIN stack : stack[i].cont = c})
                + IF root = c THEN 1 ELSE 0])
  /\ stack' = <<>>
  /\ root' = NULL
  /\ UNCHANGED <<immutable, handed, got>>

(* The client makes a container of its own, empty or around one item.      *)
ClientNew(c, k, items) ==
  /\ Fresh(heap, c)
  /\ \A i \in DOMAIN items : items[i].item \in Cont => handed[items[i].item] > 0
  /\ heap' = [Alloc(heap, c, k, 1) EXCEPT ![c].items = items]
  /\ handed' = [d \in Cont |->
        IF d = c THEN 1
        ELSE IF \E i \in DOMAIN items : items[i].item = d THEN handed[d] - 1
        ELSE handed[d]]
  /\ UNCHANGED <<stack, root, immutable, got>>

(* json_node_unref, json_node_seal on a node of the client's.              *)
ClientUnref(c) ==
  /\ handed[c] > 0
  /\ heap' = Release(heap, One(c))
  /\ handed' = [handed EXCEPT ![c] = @ - 1]
  /\ UNCHANGED <<stack, root, immutable, got>>

ClientSeal(c) ==
  /\ handed[c] > 0
  /\ heap' = Seal(heap, c)
  /\ UNCHANGED <<stack, root, immutable, handed, got>>

ClientItems == {<<>>} \cup {<<[name |-> NULL, item |-> x]>> : x \in Item}

Next ==
  \/ \E c \in Cont : \/ BeginObject(c) \/ BeginArray(c)
                     \/ AddValue(c) \/ ClientUnref(c) \/ ClientSeal(c)
                     \/ \E items \in ClientItems : ClientNew(c, "array", items)
  \/ EndObject \/ EndArray \/ GetRoot \/ Reset
  \/ \E n \in Name : SetMemberName(n)
  \/ \E s \in Scalar : AddScalar(s)

Spec == Init /\ [][Next]_vars

-----------------------------------------------------------------------------
(* Safety. *)

(* Every reference count is exactly the number of holders: the stack entry *)
(* (json_builder_state_free drops it), the root node, the slots of live    *)
(* containers, and the client.  So the begin functions' json_object_ref,   *)
(* the json_node_take_object of end_object and the pops of free_all_state  *)
(* balance, on every path: nothing leaks, and nothing that is still        *)
(* pointed to is freed.                                                    *)
RefsExact ==
  \A c \in Cont :
    heap[c].refs = Cardinality({i \in DOMAIN stack : stack[i].cont = c})
                   + (IF root = c THEN 1 ELSE 0) + handed[c] + Edges(heap, Live(heap), c)

(* A sealed container holds only sealed containers: json_object_seal and   *)
(* json_array_seal reach everything below, whatever was linked in, at      *)
(* whatever time, by begin, end and add_value.                             *)
SealedClosed ==
  \A c \in Cont : heap[c].sealed => \A d \in Children(heap, c) : heap[d].sealed

(* The tree an immutable builder has finished is immutable all the way     *)
(* down, which its assertion in json_builder_get_root (json-builder.c:319) *)
(* checks of the root node alone.                                          *)
SealedTree ==
  immutable /\ root # NULL => \A c \in Reach(heap, root) : heap[c].sealed

(* A container that is still being filled cannot be reached through any    *)
(* reference the client has: begin_* returns the builder, and get_root     *)
(* returns NULL while anything is open.  Its only holders are its own      *)
(* stack entry and the slot of the entry below.                            *)
OpenPrivate ==
  /\ root # NULL => stack = <<>>
  /\ \A c \in Cont : handed[c] > 0 => Reach(heap, c) \cap Open = {}

(* The builder never changes a container once it is sealed: a sealed one   *)
(* is never open, although add_value seals nodes in the middle of a build. *)
SealedFrozen ==
  [][\A c \in Cont : heap[c].sealed =>
       heap'[c].sealed /\ heap'[c].items = heap[c].items]_vars

-----------------------------------------------------------------------------
(* The builder implements JsonDocument. *)

(* The value a container denotes. *)
Val[c \in Cont] ==
  [kind  |-> heap[c].kind,
   items |-> [i \in DOMAIN heap[c].items |->
                [heap[c].items[i] EXCEPT !.item = IF @ \in Cont THEN Val[@] ELSE @]]]

(* The value so far of the i-th open container: the container open inside  *)
(* it is a hole.                                                           *)
OpenVal(i) ==
  LET c == stack[i].cont
      inner == IF i < Len(stack) THEN stack[i + 1].cont ELSE NULL
      Part(x) == IF x = inner THEN Hole ELSE IF x \in Cont THEN Val[x] ELSE x
  IN  [kind  |-> heap[c].kind,
       key   |-> stack[i].name,
       items |-> [j \in DOMAIN heap[c].items |->
                    [heap[c].items[j] EXCEPT !.item = Part(@)]]]

Doc == INSTANCE JsonDocument WITH
         open <- [i \in DOMAIN stack |-> OpenVal(i)],
         done <- IF root = NULL THEN NULL ELSE Val[root],
         got  <- IF got = NULL THEN NULL ELSE Val[got],
         held <- {Val[c] : c \in {d \in Cont : handed[d] > 0}}

(* The tree get_root returns is the value the accepted calls spell, and    *)
(* NULL until the last container is closed; and it stays that value,       *)
(* whatever is built afterwards with the parts it shares.                  *)
Document == Doc!Spec
=============================================================================
