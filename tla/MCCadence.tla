----------------------------- MODULE MCCadence ------------------------------
(* Cadence with two ticks for a millisecond and sleeps from 3 ms to 12 ms. *)
EXTENDS Cadence

MCStarts == {0, 1, 100, 127}
MCSleeps == {6, 7, 9, 24}
MCValues == {"off", "on"}
MCCalls == {0, 1}
=============================================================================
