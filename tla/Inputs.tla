------------------------------- MODULE Inputs -------------------------------
(***************************************************************************)
(* Everything the plugin is given and checks before it hooks anything: the *)
(* configuration file and the texts in it, the live code of the game, the  *)
(* addresses it computes, the game's rule codec, the rate at which it will *)
(* be called.  A behaviour takes one input and changes it step by step, as *)
(* a user edits a file or an update patches the game.                      *)
(***************************************************************************)
EXTENDS ConfigValues, Configuration, Addresses, ReviewedSites, Codec, LogVolume

CONSTANTS
  Kinds,     \* the kinds of input looked at
  Alphabet,  \* the characters typed into a "line", an "integer", a "hex"
  MaxLength, \* bound: characters of a text
  Files,     \* the example configurations
  Writings,  \* for each key of a configuration, what may be written after it
  MaxEdits,  \* bound: edits of a file
  Code,      \* what an instruction of the game may be
  Rates      \* calls of each hooked function between two passes

\* What the parsers of the values make of a line: a key, and one value of its
\* type or none.
IsLine(l) ==
  /\ l = [key |-> l.key, value |-> l.value]
  /\ l.key \in Keys => l.value \subseteq Field(l.key)
  /\ \A v, w \in l.value : v = w

ASSUME InputsAssumption ==
  /\ MaxLength \in Nat /\ MaxEdits \in Nat
  /\ DOMAIN Alphabet = {"line", "integer", "hex"}
  /\ \A f \in Files : f \in Seq(Range(f)) /\ \A l \in Range(f) : IsLine(l)
  /\ DOMAIN Writings = Keys
  /\ \A k \in Keys : \A v \in Writings[k] : IsLine([key |-> k, value |-> v])
  /\ Code \subseteq [bl : BOOLEAN, imm : 0..(BlSpan - 1)]

VARIABLES kind, input

vars == <<kind, input>>

\* A review of the game's code: two signatures of two instructions, apart, and
\* not at the start of text.
Review(text, s, c) ==
  [config |-> [serializer |-> 4 * s, prologue |-> SubSeq(text, s + 1, s + 2),
               caller |-> 4 * c, callsite |-> SubSeq(text, c + 1, c + 2)],
   text |-> text, patched |-> FALSE]

Init ==
  /\ kind \in Kinds
  /\ \/ kind \in DOMAIN Alphabet /\ input = <<>>
     \/ kind = "file" /\ input \in [file : Files, edits : {0}]
     \/ kind = "code" /\ input \in {Review(t, p[1], p[2]) :
          t \in [1..6 -> Code], p \in {q \in (1..4) \X (1..4) : q[1] - q[2] \notin -1..1}}
     \/ kind = "codec" /\ input = [encoder |-> ReviewedEncoder, decoder |-> ReviewedDecoder]
     \/ kind = "branch" /\ input \in [offset : Words, imm : 0..(BlSpan - 1)]
     \/ kind = "page" /\ input \in [pc : 0..(Word \div 4), imm : 0..(AdrpSpan - 1)]
     \/ kind = "region" /\ input \in [text : Words, rodata : Words]
     \/ kind = "mapping" /\ input \in [address : Words, minimum : {0, 1, Word \div 2},
                                      start : Words, size : Words]
     \/ kind = "row" /\ input \in [from : Words, at : Words]
     \/ kind = "site" /\ input \in 1..Len(Sites)
     \/ kind = "session" /\ input \in Rates

Type ==
  /\ kind \in DOMAIN Alphabet
  /\ Len(input) < MaxLength
  /\ \E c \in Alphabet[kind] : input' = Append(input, c)
  /\ UNCHANGED kind

Edit(file) ==
  /\ input.edits < MaxEdits
  /\ input' = [file |-> file, edits |-> input.edits + 1]
  /\ UNCHANGED kind

Settings(file) == {i \in DOMAIN file : file[i].key \in Keys}

Omit ==
  kind = "file" /\ \E i \in DOMAIN input.file : Edit(RemoveAt(input.file, i))

Rewrite ==
  kind = "file" /\ \E i \in Settings(input.file) :
    \E v \in Writings[input.file[i].key] \cup {{}} : Edit([input.file EXCEPT ![i].value = v])

Add ==
  kind = "file" /\ \E k \in Keys : \E v \in Writings[k] :
    Edit(Append(input.file, [key |-> k, value |-> v]))

Misspell ==
  kind = "file" /\ \E i \in Settings(input.file) :
    Edit([input.file EXCEPT ![i] = [key |-> "unknown", value |-> {}]])

Annotate == kind = "file" /\ Edit(<<Comment>> \o input.file)

\* The game is not quite the one that was reviewed.
Patch ==
  /\ kind = "code" /\ ~input.patched
  /\ \E i \in DOMAIN input.text, w \in Code :
       input' = [input EXCEPT !.text[i] = w, !.patched = TRUE]
  /\ UNCHANGED kind

Miswire ==
  /\ kind = "codec" /\ input.encoder = ReviewedEncoder /\ input.decoder = ReviewedDecoder
  /\ \/ \E w \in EncoderFaults : input' = [input EXCEPT !.encoder = w]
     \/ \E w \in DecoderFaults : input' = [input EXCEPT !.decoder = w]
  /\ UNCHANGED kind

Next == Type \/ Omit \/ Rewrite \/ Add \/ Misspell \/ Annotate \/ Patch \/ Miswire

Spec == Init /\ [][Next]_vars

-----------------------------------------------------------------------------
(* Correctness: texts *)

(* "comments_inside_strings_are_not_removed": the scan for comments treats *)
(* backslashes as escapes and the string parser refuses them, yet the two  *)
(* agree on every line.  A line whose key is a name is read as a string    *)
(* exactly if it says one, up to its comment, and as that string.          *)
LinesReadAsWritten ==
  kind = "line" =>
    UNION {ParseString(e[2]) :
             e \in {f \in Entry(input) : All(f[1], Alphabet[kind] \ (Special \ {Space}))}}
      = {SubSeq(input, w[2] + 1, w[3] - 1) :
           w \in {x \in Written(input) : Trim(SubSeq(input, 1, x[1] - 1)) # <<>>}}

(* An integer is read exactly from the texts that write one, with single   *)
(* separators and no sign, and as the one they write; one that does not    *)
(* fit in its type is refused and never wraps.                             *)
IntegersReadAsWritten == kind = "integer" => ParseUsize(input) = Denoted(input)

(* Whatever separators stand between them, the bytes of a signature that   *)
(* was read spell the digits of the text again, two for each byte.         *)
HexReadAsWritten ==
  kind = "hex" =>
    \A bytes \in DecodeHex(input) :
      LET n == Nibbles(input) IN
      /\ Len(n) = 2 * Len(bytes)
      /\ \A i \in DOMAIN n : n[i] \in DOMAIN Digit
      /\ \A i \in DOMAIN bytes :
           Digit[n[2 * i - 1]] = bytes[i] \div 16 /\ Digit[n[2 * i]] = bytes[i] % 16

-----------------------------------------------------------------------------
(* Correctness: configuration files *)

\* What validate_config takes from nobody but the user.
Consent ==
  {"enabled", "mode", "evidence_reviewed", "offline_test_acknowledged", "reviewed_abi",
   "reviewed_buffer_len", "capture_offsets", "serializer_text_offset",
   "expected_prologue", "caller_text_offset", "expected_callsite"}

Optional == {"poll_global_team_attack", "observe_rule_codec", "observe_rule_application"}

(* Nothing is hooked but what the file asks for: in a configuration that   *)
(* is let through, every line of the file says what the configuration has, *)
(* whatever its size and the order, repetition or spelling of its keys;    *)
(* every attestation and offset was written, and what records was too.     *)
AdmittedAsWritten ==
  kind = "file" => \A c \in Admitted(input.file) :
    LET lines == Range(input.file) \ {Comment}
        written == {l.key : l \in lines}
    IN /\ written \subseteq Keys
       /\ \A l \in lines : l.value = {c[l.key]}
       /\ Consent \cup {k \in Optional : c[k]} \subseteq written

Bytes(offset, length) == offset..(offset + length - 1)

Usable(c) ==
  /\ c.max_dumps \in 1..CaptureCapacity
  /\ c.capture_offsets # <<>> /\ IsInjective(c.capture_offsets)
  /\ Range(c.capture_offsets) \subseteq 0..(CompactBufferLen - 1)
  /\ LET entry == Bytes(c.serializer_text_offset, c.expected_prologue)
         call == Bytes(c.caller_text_offset, c.expected_callsite)
     IN entry \cap call = {} /\ entry \cup call \subseteq 1..(OffsetSpan - 1)
  /\ c.observe_rule_codec \/ c.observe_rule_application \/ c.mode = "proposal_experiment"
       => c.poll_global_team_attack

(* A configuration that is let through can be carried out: the capture     *)
(* fits its stores and its buffer, names no byte twice, the two places in  *)
(* the code are different bytes below the end of memory, and whatever is   *)
(* recorded has the watcher that ends it.                                  *)
AdmittedIsUsable == kind = "file" => \A c \in Admitted(input.file) : Usable(c)

-----------------------------------------------------------------------------
(* Correctness: addresses and code *)

\* The integer of the smallest size that a field of span values may stand for.
Signed(n, span) ==
  CHOOSE k \in -(span \div 2)..(span \div 2 - 1) : k % span = n

(* Computed with unbounded integers: every address that the wrapping and   *)
(* checked arithmetic lets through is the right one, and none is refused   *)
(* that a signed word can hold; a byte or a table that may be read lies    *)
(* inside its mapping; a row is the one whose place it is.                 *)
AddressesExact ==
  /\ kind = "branch" =>
       BlTarget(input.offset, input.imm) =
         {t \in 0..(Word \div 2 - 1) :
            input.offset < Word \div 2 /\ t = input.offset + 4 * Signed(input.imm, BlSpan)}
  /\ kind = "page" =>
       AdrpPage(input.pc, input.imm) =
         {t \in 0..(Word \div 2 - 1) :
            t = (input.pc \div Page + Signed(input.imm, AdrpSpan)) * Page}
  /\ kind = "region" => \A size \in Region(input.text, input.rodata) :
       input.text + size = input.rodata /\ size > 0 /\ input.text > 0
  /\ kind = "mapping" =>
       LET mapping == Bytes(input.start, input.size)
           bytes == Bytes(input.address, TableBytes)
           allowed == mapping \subseteq Words /\ input.start + input.size < Word
                        /\ input.address >= input.minimum
       IN /\ Mapped(input.address, input.minimum, input.start, input.size)
               <=> allowed /\ input.minimum > 0 /\ input.address \in mapping
          /\ TableMapped(input.address, input.minimum, input.start, input.size)
               <=> allowed /\ bytes \subseteq mapping
  /\ kind = "row" =>
       /\ Row(input.from, input.at) =
            {k \in 0..(Rows - 1) : input.at = input.from + k * Stride}
       /\ ParticipantSlot(input.from, input.at) =
            {k \in 0..(Rows - 1) : input.at = input.from + Base + k * Stride}

(* The function that is hooked is the one the reviewed caller calls: in    *)
(* code that is let through, the prologue is at the place of the hook and  *)
(* at no other, the call site likewise, and what it begins with is a call  *)
(* of exactly that place.                                                  *)
TargetIsTheOneCalled ==
  kind = "code" /\ SignaturesValid(input.config, input.text) =>
    LET Starts(signature) ==
          {i \in 1..(Len(input.text) - Len(signature) + 1) :
             \A j \in DOMAIN signature : input.text[i + j - 1] = signature[j]}
        caller == 1 + input.config.caller \div 4
        entry == 1 + input.config.serializer \div 4
    IN /\ Starts(input.config.prologue) = {entry}
       /\ Starts(input.config.callsite) = {caller}
       /\ input.text[caller].bl
       /\ caller + Signed(input.text[caller].imm, BlSpan) = entry

(* The constants of the reviewed executable agree with each other: see     *)
(* SiteReviewed, CallReviewed and GlobalsReviewed.                         *)
ReviewedSitesAgree ==
  kind = "site" =>
    /\ SiteReviewed(input)
    /\ input \in DOMAIN SubmitCallSites => CallReviewed(input)
    /\ GlobalsReviewed

-----------------------------------------------------------------------------
(* Correctness: the codec and the log *)

(* "These routines touch only their two argument objects": the self-test   *)
(* lets the reviewed codec pass and refuses it with any one wire crossed,  *)
(* with the Team Attack bit made of any other bit of the rule, with any    *)
(* other byte changed, or with the cursor moved by another distance.       *)
SelfTestDetects ==
  kind = "codec" =>
    (SelfTest(input.encoder, input.decoder)
       <=> /\ Equivalent(input.encoder) = ReviewedEncoder
           /\ input.decoder = ReviewedDecoder)

(* The longest session whose stores fill and whose state changes at every  *)
(* pass leaves a log that the strict reader accepts, if no hooked function *)
(* is called more often than Rates.                                        *)
LogFits == kind = "session" => SessionBytes(input) =< MaxLogBytes
=============================================================================
