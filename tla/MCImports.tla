----------------------------- MODULE MCImports ------------------------------
(* Priorities, addresses and filters for Imports. *)
EXTENDS Imports

CONSTANTS d, x, y, z

\* The default is the least preferred one, x and y tie, z is preferred to both.
MCPrio == [i \in Interfaces |-> CASE i = d -> 0 [] i = z -> 2 [] OTHER -> 1]
MCAddr == [i \in Interfaces |-> CASE i = d -> 0 [] i = x -> 1 [] i = y -> 2 [] i = z -> 3]
MCFlags == [i \in Interfaces |-> CASE i = x -> "strong" [] i = z -> "weak" [] OTHER -> "ignore"]
=============================================================================
