------------------------------ MODULE MCContexts ------------------------------
(* Two modules, of which the second makes device links for a profile that the *)
(* first refuses, and a profile that both refuse.                             *)
EXTENDS Contexts, TLC
CONSTANTS a, b, p, q, r

SomeLinks == {<<a, p>>, <<b, p>>, <<b, q>>}
=============================================================================
