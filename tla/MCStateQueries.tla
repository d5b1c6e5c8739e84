---------------------------- MODULE MCStateQueries -----------------------------
(* A small instance of StateQueries for TLC.                               *)
EXTENDS StateQueries

CONSTANTS score, title

MCTypeOf == [x \in Variables |-> IF x = score THEN "INT32" ELSE "STRING"]
===============================================================================
