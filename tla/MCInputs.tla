------------------------------ MODULE MCInputs ------------------------------
(* Inputs with the characters that each parser tells apart, two example    *)
(* configurations of src/config and, for each key, values on both sides of *)
(* every condition; code of six instructions, and addresses of five bits.  *)
EXTENDS Inputs

Typed(plus) ==
  [line |-> {"k", Equals, Quote, Backslash, Hash, Space},
   integer |-> {"0", "1", "f", "x", Underscore} \cup plus,
   hex |-> {"0", "A", "x", Colon} \cup plus]

Unsigned == Typed({})
Signs == Typed({Plus})

AllKinds ==
  {"line", "integer", "hex", "file", "code", "codec", "branch", "page", "region",
   "mapping", "row", "site", "session"}
OnlyIntegers == {"integer"}

Line(k, v) == [key |-> k, value |-> {v}]

\* application_batch and proposal_experiment, but for the mode and the label.
Batch(mode) ==
  <<Line("enabled", TRUE), Line("mode", mode), Line("expected_game_version", Version),
    Line("serializer_text_offset", Serializer), Line("expected_prologue", 32),
    Line("caller_text_offset", \h169462c), Line("expected_callsite", 32),
    Line("reviewed_abi", Abi), Line("reviewed_buffer_len", 105),
    Line("evidence_reviewed", TRUE), Line("offline_test_acknowledged", TRUE),
    Line("capture_offsets", <<17>>), Line("run_label", 19), Line("max_dumps", 256),
    Line("poll_global_team_attack", TRUE), Line("observe_rule_codec", TRUE),
    Line("observe_rule_application", TRUE)>>

\* One with no watcher, whose offsets are the user's own.
Plain == SubSeq(Batch("observe"), 1, 14)

MCFiles == {Batch("observe"), Batch("proposal_experiment"), Plain}

Switch == {{TRUE}, {FALSE}}
Offsets == {{0}, {Serializer - 4}, {Serializer + 4}, {Serializer + 2}, {OffsetSpan - 4}}
Lengths == {{0}, {12}, {18}, {64}, {68}}

MCWritings ==
  [k \in Keys |->
     CASE k = "mode" -> {{"disabled"}, {"observe"}, {"proposal_experiment"}}
       [] k = "expected_game_version" -> {{Version}, {"13.0.4"}}
       [] k = "serializer_text_offset" -> {{0}, {\h169462c - 4}, {\h169462c + 4}, {OffsetSpan - 4}}
       [] k = "caller_text_offset" -> Offsets
       [] k \in {"expected_prologue", "expected_callsite"} -> Lengths
       [] k = "reviewed_abi" -> {{Abi}, {"other"}}
       [] k = "reviewed_buffer_len" -> {{104}, {105}}
       [] k = "capture_offsets" -> {{<<>>}, {<<17, 17>>}, {<<3>>}, {<<44, 88>>}, {<<17>>}}
       [] k = "run_label" -> {{0}, {19}, {49}}
       [] k = "max_dumps" -> {{0}, {1}, {256}, {257}}
       [] OTHER -> Switch]

MCCode == {[bl |-> FALSE, imm |-> 0], [bl |-> TRUE, imm |-> 2], [bl |-> TRUE, imm |-> 6]}

MCRates == 1..20
MCRegionSizes == 4..20
=============================================================================
