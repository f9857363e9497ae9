--------------------------- MODULE MCCaptureStore ---------------------------
(* CaptureStore with two game threads and two consumers on a store of      *)
(* four slots limited to three captures.                                   *)
EXTENDS CaptureStore

CONSTANTS p1, p2, c1, c2, s1, s2

MCProducers == {p1, p2}
MCConsumers == {c1, c2}
MCSamples == {s1, s2}
=============================================================================
