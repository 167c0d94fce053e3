----------------------------- MODULE MCJsonNode -----------------------------
(* JsonNode for TLC: the nodes and the containers are interchangeable.     *)
EXTENDS JsonNode

Symmetry == Permutations(Node) \cup Permutations(Container)
=============================================================================
