---------------------------- MODULE MCJsonObject ----------------------------
(* JsonObject for TLC: addresses, names and nodes are interchangeable.     *)
EXTENDS JsonObject

Symmetry ==
  Permutations(Name) \cup Permutations(Node) \cup Permutations(Key) \cup Permutations(Link)
=============================================================================
