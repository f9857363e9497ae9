----------------------------- MODULE Addresses ------------------------------
(***************************************************************************)
(* The address arithmetic that stands between a configuration and a read   *)
(* of the game's memory or a patch of its code: src/src/validation.rs,     *)
(* watch.rs, application.rs, the queries of probe.rs.  Addresses are words *)
(* of Word values, a signed word has half of them on either side of zero.  *)
(* A function that may fail returns the set of its result, or {}.          *)
(***************************************************************************)
EXTENDS Integers, Sequences, FiniteSets

CONSTANTS
  Word,              \* values of a usize
  BlSpan,            \* values of the immediate of BL: 2^26
  AdrpSpan,          \* values of the immediate of ADRP: 2^21
  Page,              \* 4096
  RegionSizes,       \* 64..128 MiB
  TableBytes,        \* bytes read from a mapped table: 16
  Base, Stride, Rows \* of the participants in a session: 0xa798, 0x1350, 16

ASSUME AddressesAssumption ==
  /\ {Word, BlSpan, AdrpSpan, Page, Stride, Rows, TableBytes} \subseteq Nat \ {0}
  /\ Base \in Nat /\ RegionSizes \subseteq Nat \ {0}
  /\ \A n \in {Word, BlSpan, AdrpSpan} : n % 2 = 0

Words == 0..(Word - 1)

CheckedAdd(a, b) == {a + b} \cap Words
CheckedSub(a, b) == {a - b} \cap Words

\* A value of a field of span values, as its two's complement.
AsSigned(n, span) == IF n < span \div 2 THEN n ELSE n - span

\* try_from of an i64 for a usize and back: the same half of the words.
Narrow(n) == {n} \cap 0..(Word \div 2 - 1)

MBlTargetUnsigned(offset, imm) ==
  IF Narrow(offset) = {} THEN {}
  ELSE Narrow(((imm * 64) \div 16) + offset)

\* (imm << 6) as i32 >> 4, added to the offset of the instruction.
BlTarget(offset, imm) ==
  IF Narrow(offset) = {} THEN {}
  ELSE Narrow((AsSigned(imm * 64, 64 * BlSpan) \div 16) + offset)

\* ((imm << 11) as i32 >> 11) pages from the page of the instruction.
AdrpPage(pc, imm) ==
  Narrow(pc - (pc % Page) + (AsSigned(imm * 2048, 2048 * AdrpSpan) \div 2048) * Page)

\* validate_region: the size of the text, when it is one.
Region(text, rodata) ==
  {size \in CheckedSub(rodata, text) : text # 0 /\ text % 4 = 0 /\ size \in RegionSizes}

\* validate_mapping, but for the permission and the type.
Mapped(address, minimum, start, size) ==
  /\ minimum # 0 /\ address >= minimum
  /\ address >= start
  /\ \E end \in CheckedAdd(start, size) : address < end

\* validate_table_mapping, likewise.
TableMapped(address, minimum, start, size) ==
  /\ address >= minimum /\ address >= start
  /\ \E end \in CheckedAdd(start, size), past \in CheckedAdd(address, TableBytes) :
       past =< end

\* received_slot, and participant_slot with the base of the participants.
Row(from, at) ==
  {delta \div Stride : delta \in {d \in CheckedSub(at, from) :
                                    d % Stride = 0 /\ d \div Stride < Rows}}

ParticipantSlot(session, source) ==
  UNION {Row(from, source) : from \in CheckedAdd(session, Base)}

-----------------------------------------------------------------------------
(* The signatures of validate_signatures: text and signatures are          *)
(* sequences of instructions, an instruction is the immediate of a BL or   *)
(* "other".  Offsets are multiples of 4 (validate_config).                 *)

Slice(text, offset, length) ==
  IF offset + length > Len(text) THEN {} ELSE {SubSeq(text, offset + 1, offset + length)}

Places(text, signature) ==
  {i \in 0..(Len(text) - Len(signature)) : Slice(text, i, Len(signature)) = {signature}}

MPresent(text, offset, signature) ==
  Slice(text, offset \div 4, Len(signature)) = {signature}

\* The signature is at its offset, and at no other aligned address.
Present(text, offset, signature) ==
  /\ Slice(text, offset \div 4, Len(signature)) = {signature}
  /\ Cardinality(Places(text, signature)) = 1

\* The instruction at the start of the call site branches to the serializer.
SignaturesValid(c, text) ==
  /\ Present(text, c.serializer, c.prologue)
  /\ Present(text, c.caller, c.callsite)
  /\ c.callsite[1].bl
  /\ BlTarget(c.caller, c.callsite[1].imm) = {c.serializer}
=============================================================================
