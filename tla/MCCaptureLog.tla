---------------------------- MODULE MCCaptureLog ----------------------------
(* CaptureLog with two file names, one header line and two captures.       *)
EXTENDS CaptureLog

MCHeaderKeys == <<"observer_version">>
=============================================================================
