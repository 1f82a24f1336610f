------------------------- MODULE MCQueryDispatcher --------------------------
(* An instance of QueryDispatcher for TLC: one caller comes back while the *)
(* query it gave up on may still be queued.                                *)
EXTENDS QueryDispatcher

CONSTANTS c1, c2

MCMaxQueries == [c \in {c1, c2} |-> IF c = c1 THEN 2 ELSE 1]
=============================================================================
