---------------------------- MODULE MCFilterGraph ----------------------------
(* Three nodes, of which one may not be connected to another.                 *)
EXTENDS FilterGraph, TLC
CONSTANTS n1, n2, n3

Inputs == (n1 :> 0) @@ (n2 :> 2) @@ (n3 :> 1)

SomeMatches == {<<n1, n2>>, <<n2, n3>>, <<n3, n2>>}
=============================================================================
