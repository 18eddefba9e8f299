----------------------------- MODULE MCAnnIndex -----------------------------
(* A small instance of AnnIndex for TLC: the second snapshot adds a chunk, *)
(* and the two builders want different graphs.                             *)
EXTENDS AnnIndex

CONSTANTS s1, s2, c1, c2, b1, b2, h1, h2

Members == [s \in {s1, s2} |-> IF s = s1 THEN {c1} ELSE {c1, c2}]

Specs == [b \in {b1, b2} |-> IF b = b1 THEN h1 ELSE h2]
=============================================================================
