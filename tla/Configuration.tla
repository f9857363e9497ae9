--------------------------- MODULE Configuration ----------------------------
(***************************************************************************)
(* What a configuration file means: src/src/config.rs from the text of the *)
(* file to a Config, validation.rs and watch.rs from a Config to leave to  *)
(* install.  A file is a sequence of lines that ConfigValues has read: a   *)
(* key, and the set of its value, {} when the parser of that key refuses   *)
(* the text.  A signature or a label is its length.                        *)
(***************************************************************************)
EXTENDS Integers, Sequences, SequencesExt, FiniteSetsExt, Functions, Switches

CONSTANTS
  MaxConfigBytes, \* MAX_CONFIG_BYTES, in lines
  OffsetSpan      \* values of a usize

ASSUME ConfigurationAssumption == MaxConfigBytes \in Nat /\ OffsetSpan \in Nat

CaptureCapacity == 256
CompactBufferLen == 105
Version == "13.0.5"
Abi == "void_u8_ptr_v1"
Serializer == \h16e2c50
Reviewed == (4..44) \cup (88..92) \* offsets of reviewed rule bytes

Default ==
  [enabled |-> FALSE, mode |-> "disabled", expected_game_version |-> Version,
   serializer_text_offset |-> 0, expected_prologue |-> 0,
   caller_text_offset |-> 0, expected_callsite |-> 0,
   reviewed_abi |-> "", reviewed_buffer_len |-> 0,
   evidence_reviewed |-> FALSE, offline_test_acknowledged |-> FALSE,
   capture_offsets |-> <<>>, run_label |-> 10, max_dumps |-> 32,
   poll_global_team_attack |-> FALSE, observe_rule_codec |-> FALSE,
   observe_rule_application |-> FALSE]

Keys == DOMAIN Default

\* The types of Config: a Vec<u8> that is only compared, or a label, is its length.
Field(key) ==
  CASE key \in {"mode", "expected_game_version", "reviewed_abi"} -> STRING
    [] key = "capture_offsets" -> Seq(0..255)
    [] key \in {"serializer_text_offset", "expected_prologue", "caller_text_offset",
               "expected_callsite", "reviewed_buffer_len", "run_label", "max_dumps"}
         -> 0..(OffsetSpan - 1)
    [] OTHER -> BOOLEAN

Comment == [key |-> "#", value |-> {}]

\* What parse demands of a value beyond its syntax.
Readable(key, v) ==
  CASE key = "mode" -> v \in {"disabled", "observe", "proposal_experiment"}
    [] key = "capture_offsets" -> IsInjective(v) /\ Range(v) \subseteq Reviewed
    [] key = "run_label" -> v \in 1..48
    [] OTHER -> TRUE

\* One line, after what was read before it; a blank one is skipped.
ReadLine(read, l) ==
  IF l = Comment THEN read
  ELSE {[config |-> [r.config EXCEPT ![l.key] = v], seen |-> r.seen \cup {l.key}] :
          r \in {s \in read : l.key \in Keys \ s.seen},
          v \in {x \in l.value : Readable(l.key, x)}}

\* What was read after the first i lines: the loop of parse.
Read(contents) ==
  LET read[i \in 0..Len(contents)] ==
        IF i = 0 THEN {[config |-> Default, seen |-> {}]}
        ELSE ReadLine(read[i - 1], contents[i])
  IN read

Parse(contents) ==
  {c \in {r.config : r \in Read(contents)[Len(contents)]} :
     Len(contents) =< MaxConfigBytes /\ c.max_dumps \in 1..256}

MHeld(file) == SubSeq(file, 1, Min({Len(file), MaxConfigBytes}))

\* load reads one byte more than is allowed, and no further.
Held(file) == SubSeq(file, 1, Min({Len(file), MaxConfigBytes + 1}))

Load(file) == Parse(Held(file))

-----------------------------------------------------------------------------
(* validate_config *)

Sound(offset, length) ==
  /\ offset # 0 /\ offset % 4 = 0
  /\ length \in 16..64 /\ length % 4 = 0

End(offset, length) == {offset + length} \cap 0..(OffsetSpan - 1)

MApart(c) ==
  \E targetEnd \in End(c.serializer_text_offset, c.expected_prologue),
     callerEnd \in End(c.caller_text_offset, c.expected_callsite) :
    c.caller_text_offset < c.serializer_text_offset \/ c.caller_text_offset >= targetEnd

Apart(c) ==
  \E targetEnd \in End(c.serializer_text_offset, c.expected_prologue),
     callerEnd \in End(c.caller_text_offset, c.expected_callsite) :
    c.serializer_text_offset >= callerEnd \/ c.caller_text_offset >= targetEnd

Validated(c, live) ==
  /\ c.enabled /\ c.mode # "disabled"
  /\ live = Version /\ c.expected_game_version = live
  /\ c.evidence_reviewed /\ c.offline_test_acknowledged
  /\ c.reviewed_abi = Abi /\ c.reviewed_buffer_len = CompactBufferLen
  /\ c.max_dumps \in 1..CaptureCapacity
  /\ SwitchesAgree(c.poll_global_team_attack, c.observe_rule_codec,
                   c.observe_rule_application, c.mode = "proposal_experiment")
  /\ Len(c.capture_offsets) \in 1..46
  /\ IsInjective(c.capture_offsets) /\ Range(c.capture_offsets) \subseteq Reviewed
  /\ Sound(c.serializer_text_offset, c.expected_prologue)
  /\ Sound(c.caller_text_offset, c.expected_callsite)
  /\ Apart(c)

\* validate_source refuses to watch for any other capture.
Watchable(c) ==
  c.poll_global_team_attack =>
    c.serializer_text_offset = Serializer /\ c.capture_offsets = <<17>>

\* The configurations that main and install let through.
Admitted(file) == {c \in Load(file) : Validated(c, Version) /\ Watchable(c)}
=============================================================================
