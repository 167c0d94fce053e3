--------------------------- MODULE MCJsonBuilder ---------------------------
(* JsonBuilder for TLC: three containers, so that a tree nests twice or    *)
(* shares one; the identifiers are interchangeable.                        *)
EXTENDS JsonBuilder

Symmetry == Permutations(Cont) \cup Permutations(Name)
=============================================================================
