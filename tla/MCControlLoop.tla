---------------------------- MODULE MCControlLoop ----------------------------
(***************************************************************************)
(* ControlLoop on a small instance: the stick reports the 16-bit extremes, *)
(* the values on either side of the threshold, and rest.                   *)
(***************************************************************************)
EXTENDS ControlLoop

\* -32768 and 32767: the negation edges; -8000 and 7999: the threshold
\* boundary from both sides; 0: the stick at rest.
MCEventValues == {-32768, -8000, 0, 7999, 32767}

\* Three events: enough for two changes to slot 0 between the two reads.
MCMaxEvents == 3

=============================================================================
