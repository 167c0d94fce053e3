----------------------------- MODULE MCJsonLoad -----------------------------
(***************************************************************************)
(* A small instance of JsonLoad: a document of two blocks, one that is not *)
(* JSON, and an empty one.                                                 *)
(***************************************************************************)
EXTENDS JsonLoad

MCLength == [d \in Documents |-> CASE d = "good" -> 2 [] d = "bad" -> 1 [] d = "empty" -> 0]
=============================================================================
