------------------------------ MODULE Switches ------------------------------
(* The part of validate_config (src/src/validation.rs) that relates the    *)
(* four switches of a configuration: what is recorded, and whether the     *)
(* proposal experiment runs.                                               *)

MSwitchesWithoutPoll(poll, codec, application, experiment) ==
  /\ application => codec
  /\ experiment => application

SwitchesAgree(poll, codec, application, experiment) ==
  /\ application => codec /\ poll
  /\ experiment => application
  /\ codec => poll
=============================================================================
