---------------------------- MODULE MCGattFacade ----------------------------
(* Model-checking instance of GattFacade: two caller threads, two session  *)
(* ids, so that two callers can race on one session and a second session   *)
(* can be opened after the first is closed or leaked.                      *)
EXTENDS GattFacade, TLC

CONSTANTS c1, c2

MCCallers == {c1, c2}

\* Callers are interchangeable model values.
CallerSymmetry == Permutations(MCCallers)
=============================================================================
