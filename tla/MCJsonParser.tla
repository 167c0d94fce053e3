---------------------------- MODULE MCJsonParser ----------------------------
(* JsonParser for TLC; and what asks for fairness, or asserts.             *)
EXTENDS JsonParser

(* Every load returns.                                                     *)
Returns == state # "idle" ~> state = "idle"

(* "Sanity check." (json-parser.c:1532, asserted by json_parser_get_root   *)
(* and json_parser_steal_root)                                             *)
SanityCheck == state = "idle" /\ root # NULL /\ immutable => nodes[root].sealed
=============================================================================
