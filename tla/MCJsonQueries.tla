---------------------------- MODULE MCJsonQueries ----------------------------
(***************************************************************************)
(* What asks of a tree without changing it, for TLC: a JsonReader over the *)
(* tree of MCJsonReader, and the equality and the hashes of small trees,   *)
(* the one while nothing happens in the other.                             *)
(***************************************************************************)
EXTENDS MCJsonReader, JsonCompare

MCValues == {<<"int", 1>>, <<"double", 1>>}

NoReader == source = NULL /\ members = <<>> /\ error = NULL
NoTree == \A c \in Container : kind[c] = "array" /\ items[c] = <<>> /\ ~ immutable[c]

QueriesInit == Init /\ CompareInit
QueriesNext ==
  \/ NoTree /\ Next /\ UNCHANGED containers
  \/ NoReader /\ CompareNext /\ UNCHANGED vars

QueriesSpec == QueriesInit /\ [][QueriesNext]_<<vars, containers>>
=============================================================================
