-------------------------- MODULE MCObserverSignals --------------------------
(***************************************************************************)
(* Instances of ObserverSignals for TLC.                                   *)
(***************************************************************************)
EXTENDS ObserverSignals, TLC

CONSTANTS a, b, c, h

\* a is observed by b and c, b forwards to c.
Tree == {<<a, b, Forward>>, <<a, c, h>>, <<b, c, h>>}
==============================================================================
