----------------------------- MODULE InputsProofs -----------------------------
(***************************************************************************)
(* The checks of addresses and code for any word, spans, page, regions and *)
(* rows, and for any reviewed code.                                        *)
(***************************************************************************)
EXTENDS Inputs, FiniteSetTheorems, SequenceTheorems, TLAPS

-----------------------------------------------------------------------------
(* Arithmetic *)

(* The types of the constants, and that the spans are even.                *)
LEMMA Widths ==
  /\ Word \in Nat \ {0} /\ BlSpan \in Nat \ {0} /\ AdrpSpan \in Nat \ {0}
  /\ Page \in Nat \ {0} /\ Stride \in Nat \ {0} /\ Rows \in Nat \ {0}
  /\ TableBytes \in Nat \ {0} /\ Base \in Nat /\ RegionSizes \subseteq Nat \ {0}
  /\ Word % 2 = 0 /\ BlSpan % 2 = 0 /\ AdrpSpan % 2 = 0
BY AddressesAssumption

(* The division of an integer with its remainder.                          *)
LEMMA DivMod ==
  ASSUME NEW a \in Int, NEW d \in Nat \ {0}
  PROVE  a \div d \in Int /\ a % d \in 0..(d - 1) /\ a = (a \div d) * d + (a % d)
OBVIOUS

(* A quotient is the only one with a remainder of its divisor.             *)
LEMMA DivUnique ==
  ASSUME NEW d \in Nat \ {0}, NEW q \in Int, NEW r \in 0..(d - 1)
  PROVE  (q * d + r) \div d = q /\ (q * d + r) % d = r
OBVIOUS

(* Two integers of one span with the same residue are the same.            *)
LEMMA ResidueUnique ==
  ASSUME NEW span \in Nat \ {0}, span % 2 = 0,
         NEW j \in -(span \div 2)..(span \div 2 - 1),
         NEW k \in -(span \div 2)..(span \div 2 - 1), j % span = k % span
  PROVE  j = k
OBVIOUS

(* The shifts of the code compute the value of a two's complement field.   *)
LEMMA SignedIs ==
  ASSUME NEW span \in Nat \ {0}, span % 2 = 0, NEW n \in 0..(span - 1)
  PROVE  AsSigned(n, span) = Signed(n, span) /\ AsSigned(n, span) \in Int
<1> DEFINE k == AsSigned(n, span)
           S == -(span \div 2)..(span \div 2 - 1)
<1>1. k \in S
  BY DEF AsSigned
<1>2. k % span = n
  <2>1. CASE n < span \div 2
    BY <2>1 DEF AsSigned
  <2>2. CASE ~(n < span \div 2)
    <3>1. k = n - span
      BY <2>2 DEF AsSigned
    <3>2. (-1 * span + n) % span = n
      BY DivUnique
    <3> QED
      BY <3>1, <3>2
  <2> QED
    BY <2>1, <2>2
<1> HIDE DEF k
<1>3. \A j \in S : j % span = n => j = k
  BY <1>1, <1>2, ResidueUnique
<1>4. (CHOOSE j \in S : j % span = n) = k
  BY <1>1, <1>2, <1>3
<1>5. Signed(n, span) = k
  BY <1>4 DEF Signed
<1>6. k \in Int
  BY <1>1
<1> QED
  BY <1>5, <1>6 DEF k

(* imm << 6, as a signed word, >> 4.                                       *)
LEMMA BlShift ==
  ASSUME NEW span \in Nat \ {0}, span % 2 = 0, NEW n \in 0..(span - 1)
  PROVE  AsSigned(n * 64, 64 * span) \div 16 = 4 * AsSigned(n, span)
<1>1. n * 64 < (64 * span) \div 2 <=> n < span \div 2
  OBVIOUS
<1>2. CASE n < span \div 2
  BY <1>1, <1>2 DEF AsSigned
<1>3. CASE ~(n < span \div 2)
  <2>1. AsSigned(n * 64, 64 * span) = n * 64 - 64 * span
    BY <1>1, <1>3 DEF AsSigned
  <2>2. AsSigned(n, span) = n - span
    BY <1>3 DEF AsSigned
  <2>3. (n * 64 - 64 * span) \div 16 = 4 * (n - span)
    OBVIOUS
  <2> QED
    BY <2>1, <2>2, <2>3
<1> QED
  BY <1>2, <1>3

(* imm << 11, as a signed word, >> 11.                                     *)
LEMMA AdrpShift ==
  ASSUME NEW span \in Nat \ {0}, span % 2 = 0, NEW n \in 0..(span - 1)
  PROVE  AsSigned(n * 2048, 2048 * span) \div 2048 = AsSigned(n, span)
<1>1. n * 2048 < (2048 * span) \div 2 <=> n < span \div 2
  OBVIOUS
<1>2. CASE n < span \div 2
  BY <1>1, <1>2 DEF AsSigned
<1>3. CASE ~(n < span \div 2)
  <2>1. AsSigned(n * 2048, 2048 * span) = n * 2048 - 2048 * span
    BY <1>1, <1>3 DEF AsSigned
  <2>2. AsSigned(n, span) = n - span
    BY <1>3 DEF AsSigned
  <2>3. (n * 2048 - 2048 * span) \div 2048 = n - span
    OBVIOUS
  <2> QED
    BY <2>1, <2>2, <2>3
<1> QED
  BY <1>2, <1>3

-----------------------------------------------------------------------------
(* Addresses *)

(* bl_target computes the target of a branch in the lower half of the      *)
(* words, and refuses every other.                                         *)
LEMMA BlExact ==
  ASSUME NEW offset \in Nat, NEW imm \in 0..(BlSpan - 1)
  PROVE  BlTarget(offset, imm) =
           {t \in 0..(Word \div 2 - 1) :
              offset < Word \div 2 /\ t = offset + 4 * Signed(imm, BlSpan)}
<1> DEFINE s == Signed(imm, BlSpan)
<1>1. AsSigned(imm * 64, 64 * BlSpan) \div 16 = 4 * s /\ s \in Int
  <2>1. AsSigned(imm, BlSpan) = s /\ s \in Int
    BY Widths, SignedIs
  <2>2. AsSigned(imm * 64, 64 * BlSpan) \div 16 = 4 * AsSigned(imm, BlSpan)
    BY Widths, BlShift
  <2> QED
    BY ONLY <2>1, <2>2
<1> HIDE DEF s
<1>2. offset \in Nat /\ Word \div 2 \in Nat
  BY Widths
<1>3. BlTarget(offset, imm) = IF Narrow(offset) = {} THEN {} ELSE Narrow(4 * s + offset)
  BY <1>1 DEF BlTarget
<1>4. Narrow(offset) = {} <=> ~(offset < Word \div 2)
  BY <1>2 DEF Narrow
<1>5. Narrow(4 * s + offset) = {t \in 0..(Word \div 2 - 1) : t = offset + 4 * s}
  BY <1>1, <1>2 DEF Narrow
<1>6. CASE offset < Word \div 2
  BY <1>3, <1>4, <1>5, <1>6 DEF s
<1>7. CASE ~(offset < Word \div 2)
  BY <1>3, <1>4, <1>7 DEF s
<1> QED
  BY <1>6, <1>7

(* adrp_page likewise, for the page that an ADRP names.                    *)
LEMMA AdrpExact ==
  ASSUME NEW pc \in Nat, NEW imm \in 0..(AdrpSpan - 1)
  PROVE  AdrpPage(pc, imm) =
           {t \in 0..(Word \div 2 - 1) : t = (pc \div Page + Signed(imm, AdrpSpan)) * Page}
<1> DEFINE s == Signed(imm, AdrpSpan)
           q == pc \div Page
<1>0. AdrpSpan \in Nat \ {0} /\ AdrpSpan % 2 = 0 /\ imm \in 0..(AdrpSpan - 1)
  BY Widths
<1>1. AsSigned(imm * 2048, 2048 * AdrpSpan) \div 2048 = s /\ s \in Int
  <2>1. AsSigned(imm * 2048, 2048 * AdrpSpan) \div 2048 = AsSigned(imm, AdrpSpan)
    BY <1>0, AdrpShift
  <2>2. AsSigned(imm, AdrpSpan) = Signed(imm, AdrpSpan) /\ AsSigned(imm, AdrpSpan) \in Int
    BY <1>0, SignedIs
  <2> QED
    BY <2>1, <2>2
<1>2. q \in Int /\ pc % Page \in Int /\ pc = q * Page + (pc % Page) /\ Page \in Int
  BY Widths, DivMod
<1>3. AdrpPage(pc, imm) = Narrow(pc - (pc % Page) + s * Page)
  BY <1>1 DEF AdrpPage
<1> HIDE DEF s, q
<1>4. pc - (pc % Page) + s * Page = (q + s) * Page
  BY <1>1, <1>2
<1>5. AdrpPage(pc, imm) = Narrow((q + s) * Page)
  BY <1>3, <1>4
<1>6. (q + s) * Page \in Int
  BY <1>1, <1>2
<1>7. Narrow((q + s) * Page) = {t \in 0..(Word \div 2 - 1) : t = (q + s) * Page}
  BY <1>6 DEF Narrow
<1> QED
  BY <1>5, <1>7 DEF q, s

(* validate_region lets through the distance from text to rodata only.     *)
LEMMA RegionExact ==
  ASSUME NEW text \in Words, NEW rodata \in Words, NEW size \in Region(text, rodata)
  PROVE  text + size = rodata /\ size > 0 /\ text > 0
BY Widths DEF Region, CheckedSub, Words

(* validate_mapping: the byte is in a mapping that does not wrap around.   *)
LEMMA MappedExact ==
  ASSUME NEW address \in Words, NEW minimum \in Words, NEW start \in Words, NEW size \in Words
  PROVE  /\ Mapped(address, minimum, start, size)
              <=> /\ Bytes(start, size) \subseteq Words /\ start + size < Word
                  /\ address >= minimum /\ minimum > 0
                  /\ address \in Bytes(start, size)
         /\ TableMapped(address, minimum, start, size)
              <=> /\ Bytes(start, size) \subseteq Words /\ start + size < Word
                  /\ address >= minimum
                  /\ Bytes(address, TableBytes) \subseteq Bytes(start, size)
<1>1. /\ address \in Nat /\ minimum \in Nat /\ start \in Nat /\ size \in Nat
      /\ Word \in Nat \ {0} /\ TableBytes \in Nat \ {0} /\ address < Word
  BY Widths DEF Words
<1>2. \A a, b \in Nat : \A P : P \in CheckedAdd(a, b) <=> P = a + b /\ a + b < Word
  BY <1>1 DEF CheckedAdd, Words
<1>3. start + size < Word => Bytes(start, size) \subseteq Words
  BY <1>1 DEF Bytes, Words
<1>4. Mapped(address, minimum, start, size)
        <=> /\ minimum # 0 /\ address >= minimum /\ address >= start
            /\ start + size < Word /\ address < start + size
  BY <1>1, <1>2 DEF Mapped
<1>5. TableMapped(address, minimum, start, size)
        <=> /\ address >= minimum /\ address >= start /\ start + size < Word
            /\ address + TableBytes < Word /\ address + TableBytes =< start + size
  BY <1>1, <1>2 DEF TableMapped
<1>6. address \in Bytes(start, size) <=> address >= start /\ address < start + size
  BY <1>1 DEF Bytes
<1>7. Bytes(address, TableBytes) \subseteq Bytes(start, size)
        <=> address >= start /\ address + TableBytes =< start + size
  <2>1. address \in Bytes(address, TableBytes)
          /\ address + TableBytes - 1 \in Bytes(address, TableBytes)
    BY <1>1 DEF Bytes
  <2> QED
    BY <1>1, <2>1 DEF Bytes
<1>8. minimum # 0 <=> minimum > 0
  BY <1>1
<1>9. start + size < Word /\ address + TableBytes =< start + size
        => address + TableBytes < Word
  BY <1>1
<1> QED
  BY <1>3, <1>4, <1>5, <1>6, <1>7, <1>8, <1>9

(* received_slot finds the row that begins at an address, if one does.     *)
LEMMA RowExact ==
  ASSUME NEW from \in Words, NEW at \in Words
  PROVE  Row(from, at) = {k \in 0..(Rows - 1) : at = from + k * Stride}
<1>1. /\ from \in Nat /\ at \in Nat /\ at < Word /\ Word \in Nat \ {0}
      /\ Stride \in Nat \ {0} /\ Rows \in Nat \ {0}
  BY Widths DEF Words
<1>2. ASSUME NEW k \in Row(from, at)
      PROVE  k \in 0..(Rows - 1) /\ at = from + k * Stride
  <2>1. PICK d \in CheckedSub(at, from) :
          d % Stride = 0 /\ d \div Stride < Rows /\ k = d \div Stride
    BY <1>2 DEF Row
  <2>2. d = at - from /\ d \in Nat
    BY <1>1, <2>1 DEF CheckedSub, Words
  <2>3. d = (d \div Stride) * Stride + (d % Stride) /\ d \div Stride \in Int
    BY <1>1, <2>2, DivMod
  <2>4. d \div Stride >= 0
    BY <1>1, <2>2
  <2>5. d = k * Stride
    BY <1>1, <2>1, <2>3
  <2> QED
    BY <1>1, <2>1, <2>2, <2>3, <2>4, <2>5
<1>3. ASSUME NEW k \in 0..(Rows - 1), at = from + k * Stride
      PROVE  k \in Row(from, at)
  <2> DEFINE d == k * Stride
  <2>1. d \in Nat
    BY <1>1
  <2>2. d \in CheckedSub(at, from)
    <3>1. at = from + d
      BY <1>3
    <3> HIDE DEF d
    <3>2. at - from = d /\ d < Word
      BY <1>1, <2>1, <3>1
    <3> QED
      BY <1>1, <2>1, <3>2 DEF CheckedSub, Words
  <2>3. (k * Stride + 0) \div Stride = k /\ (k * Stride + 0) % Stride = 0
    BY <1>1, DivUnique
  <2>4. d % Stride = 0 /\ d \div Stride = k
    BY <2>1, <2>3
  <2>5. k < Rows
    BY <1>1
  <2> HIDE DEF d
  <2> QED
    BY <2>2, <2>4, <2>5 DEF Row
<1> QED
  BY <1>2, <1>3

(* participant_slot: the same from the base of the participants.           *)
LEMMA ParticipantExact ==
  ASSUME NEW session \in Words, NEW source \in Words
  PROVE  ParticipantSlot(session, source) =
           {k \in 0..(Rows - 1) : source = session + Base + k * Stride}
<1>1. session \in Nat /\ source \in Nat /\ source < Word /\ Base \in Nat
      /\ Stride \in Nat \ {0} /\ Rows \in Nat \ {0} /\ Word \in Nat \ {0}
  BY Widths DEF Words
<1>2. CASE session + Base < Word
  <2>1. session + Base \in Words
    BY <1>1, <1>2 DEF Words
  <2>2. CheckedAdd(session, Base) = {session + Base}
    BY <2>1 DEF CheckedAdd
  <2>3. ParticipantSlot(session, source) = Row(session + Base, source)
    BY <2>2 DEF ParticipantSlot
  <2> QED
    BY <2>1, <2>3, RowExact
<1>3. CASE ~(session + Base < Word)
  <2>1. CheckedAdd(session, Base) = {}
    BY <1>1, <1>3 DEF CheckedAdd, Words
  <2>2. ParticipantSlot(session, source) = {}
    BY <2>1 DEF ParticipantSlot
  <2>3. ASSUME NEW k \in 0..(Rows - 1)
        PROVE  source # session + Base + k * Stride
    <3>1. k * Stride \in Nat
      BY <1>1
    <3> QED
      BY <1>1, <1>3, <3>1
  <2> QED
    BY <2>2, <2>3
<1> QED
  BY <1>2, <1>3

-----------------------------------------------------------------------------
(* Addresses are given once: what is edited is a text, a file, the code of *)
(* the game or its codec.                                                  *)

AddressInputs ==
  /\ kind = "branch" => input \in [offset : Words, imm : 0..(BlSpan - 1)]
  /\ kind = "page" => input \in [pc : 0..(Word \div 4), imm : 0..(AdrpSpan - 1)]
  /\ kind = "region" => input \in [text : Words, rodata : Words]
  /\ kind = "mapping" => input \in [address : Words, minimum : {0, 1, Word \div 2},
                                    start : Words, size : Words]
  /\ kind = "row" => input \in [from : Words, at : Words]

(* The kinds that a step may change, and that no step changes the kind.    *)
LEMMA StepKind ==
  ASSUME Next
  PROVE  kind' = kind /\ kind \in {"line", "integer", "hex", "file", "code", "codec"}
<1>1. DOMAIN Alphabet = {"line", "integer", "hex"}
  BY InputsAssumption
<1>2. CASE Type
  BY <1>1, <1>2 DEF Type
<1>3. CASE Omit
  BY <1>3 DEF Omit, Edit
<1>4. CASE Rewrite
  BY <1>4 DEF Rewrite, Edit
<1>5. CASE Add
  BY <1>5 DEF Add, Edit
<1>6. CASE Misspell
  BY <1>6 DEF Misspell, Edit
<1>7. CASE Annotate
  BY <1>7 DEF Annotate, Edit
<1>8. CASE Patch
  BY <1>8 DEF Patch
<1>9. CASE Miswire
  BY <1>9 DEF Miswire
<1> QED
  BY <1>2, <1>3, <1>4, <1>5, <1>6, <1>7, <1>8, <1>9 DEF Next

(* Every address stays what it was given as.                               *)
LEMMA AddressInputsHold == Spec => []AddressInputs
<1>1. Init => AddressInputs
  <2>1. DOMAIN Alphabet = {"line", "integer", "hex"}
    BY InputsAssumption
  <2> QED
    BY <2>1 DEF Init, AddressInputs
<1>2. AddressInputs /\ [Next]_vars => AddressInputs'
  <2> SUFFICES ASSUME AddressInputs, [Next]_vars PROVE AddressInputs'
    OBVIOUS
  <2>1. CASE Next
    BY <2>1, StepKind DEF AddressInputs
  <2>2. CASE UNCHANGED vars
    BY <2>2 DEF vars, AddressInputs
  <2> QED
    BY <2>1, <2>2
<1> QED
  BY <1>1, <1>2, PTL DEF Spec

(* Every address that the plugin computes is the right one, whatever the   *)
(* width of a word, of an immediate and of a page, and however the         *)
(* participants are laid out: no wrapping, no sign and no rounding is      *)
(* lost.                                                                   *)
THEOREM Addressed == Spec => []AddressesExact
<1>1. AddressInputs => AddressesExact
  <2> SUFFICES ASSUME AddressInputs PROVE AddressesExact
    OBVIOUS
  <2>1. ASSUME kind = "branch"
        PROVE  BlTarget(input.offset, input.imm) =
                 {t \in 0..(Word \div 2 - 1) :
                    input.offset < Word \div 2
                      /\ t = input.offset + 4 * Signed(input.imm, BlSpan)}
    <3>1. input.offset \in Words /\ input.imm \in 0..(BlSpan - 1)
      BY <2>1 DEF AddressInputs
    <3>2. input.offset \in Nat
      BY <3>1, Widths DEF Words
    <3> QED
      BY <3>1, <3>2, BlExact
  <2>2. ASSUME kind = "page"
        PROVE  AdrpPage(input.pc, input.imm) =
                 {t \in 0..(Word \div 2 - 1) :
                    t = (input.pc \div Page + Signed(input.imm, AdrpSpan)) * Page}
    <3>1. input.pc \in 0..(Word \div 4) /\ input.imm \in 0..(AdrpSpan - 1)
      BY <2>2 DEF AddressInputs
    <3>2. input.pc \in Nat
      BY <3>1, Widths
    <3> QED
      BY <3>1, <3>2, AdrpExact
  <2>3. ASSUME kind = "region", NEW size \in Region(input.text, input.rodata)
        PROVE  input.text + size = input.rodata /\ size > 0 /\ input.text > 0
    <3>1. input.text \in Words /\ input.rodata \in Words
      BY <2>3 DEF AddressInputs
    <3> QED
      BY <2>3, <3>1, RegionExact
  <2>4. ASSUME kind = "mapping"
        PROVE  LET mapping == Bytes(input.start, input.size)
                   bytes == Bytes(input.address, TableBytes)
                   allowed == mapping \subseteq Words /\ input.start + input.size < Word
                                /\ input.address >= input.minimum
               IN /\ Mapped(input.address, input.minimum, input.start, input.size)
                       <=> allowed /\ input.minimum > 0 /\ input.address \in mapping
                  /\ TableMapped(input.address, input.minimum, input.start, input.size)
                       <=> allowed /\ bytes \subseteq mapping
    <3>1. /\ input.address \in Words /\ input.start \in Words /\ input.size \in Words
          /\ input.minimum \in {0, 1, Word \div 2}
      BY <2>4 DEF AddressInputs
    <3>2. input.minimum \in Words
      <4>1. Word \in Nat \ {0} /\ Word % 2 = 0
        BY Widths
      <4>2. {0, 1, Word \div 2} \subseteq 0..(Word - 1)
        BY <4>1
      <4> QED
        BY <3>1, <4>2 DEF Words
    <3> QED
      BY <3>1, <3>2, MappedExact
  <2>5. ASSUME kind = "row"
        PROVE  /\ Row(input.from, input.at) =
                    {k \in 0..(Rows - 1) : input.at = input.from + k * Stride}
               /\ ParticipantSlot(input.from, input.at) =
                    {k \in 0..(Rows - 1) : input.at = input.from + Base + k * Stride}
    <3>1. input.from \in Words /\ input.at \in Words
      BY <2>5 DEF AddressInputs
    <3> QED
      BY <3>1, RowExact, ParticipantExact
  <2> QED
    BY <2>1, <2>2, <2>3, <2>4, <2>5 DEF AddressesExact
<1> QED
  BY <1>1, AddressInputsHold, PTL

-----------------------------------------------------------------------------
(* Code *)

Starts(text, signature) ==
  {i \in 1..(Len(text) - Len(signature) + 1) :
     \A j \in DOMAIN signature : text[i + j - 1] = signature[j]}

(* A signature is at a place if and only if it is there byte by byte.      *)
LEMMA PlaceIsStart ==
  ASSUME NEW text \in Seq(Code), NEW signature \in Seq(Code),
         NEW i \in 0..(Len(text) - Len(signature))
  PROVE  Slice(text, i, Len(signature)) = {signature} <=> i + 1 \in Starts(text, signature)
<1> DEFINE n == Len(signature)
           part == SubSeq(text, i + 1, i + n)
<1>1. /\ n \in Nat /\ i \in Nat /\ Len(text) \in Nat /\ i + n =< Len(text)
      /\ DOMAIN signature = 1..n
  OBVIOUS
<1>2. Slice(text, i, n) = {part}
  BY <1>1 DEF Slice
<1>3. part \in Seq(Code) /\ Len(part) = n /\ \A j \in 1..n : part[j] = text[i + j]
  BY <1>1
<1> HIDE DEF part
<1>4. part = signature <=> \A j \in 1..n : part[j] = signature[j]
  <2>1. Len(part) = Len(signature)
    BY <1>3
  <2> QED
    BY ONLY <2>1, <1>3, SeqEqual
<1>5. i + 1 \in 1..(Len(text) - n + 1)
  BY <1>1
<1>6. \A j \in 1..n : (i + 1) + j - 1 = i + j
  BY <1>1
<1>7. i + 1 \in Starts(text, signature) <=> \A j \in 1..n : text[i + j] = signature[j]
  BY <1>1, <1>5, <1>6 DEF Starts
<1> QED
  BY <1>2, <1>3, <1>4, <1>7

(* present_once leaves one place for a signature, the one it was given.    *)
LEMMA PresentExact ==
  ASSUME NEW text \in Seq(Code), NEW signature \in Seq(Code), NEW s \in Nat,
         Present(text, 4 * s, signature)
  PROVE  Starts(text, signature) = {s + 1} /\ s + Len(signature) =< Len(text)
<1> DEFINE n == Len(signature)
<1>1. (4 * s) \div 4 = s /\ n \in Nat /\ Len(text) \in Nat
  OBVIOUS
<1>2. Slice(text, s, n) = {signature} /\ Cardinality(Places(text, signature)) = 1
  BY <1>1 DEF Present
<1>3. s + n =< Len(text)
  BY <1>1, <1>2 DEF Slice
<1>4. s \in Places(text, signature)
  BY <1>1, <1>2, <1>3 DEF Places
<1>5. Places(text, signature) \subseteq 0..(Len(text) - n)
  BY DEF Places
<1>6. IsFiniteSet(Places(text, signature))
  <2>1. 0 \in Int /\ Len(text) - n \in Int
    BY <1>1
  <2>2. IsFiniteSet(0..(Len(text) - n))
    BY <2>1, FS_Interval
  <2> QED
    BY <1>5, <2>2, FS_Subset
<1>7. PICK x : Places(text, signature) = {x}
  BY <1>2, <1>6, FS_Singleton
<1>8. Places(text, signature) = {s}
  BY <1>4, <1>7
<1>9. ASSUME NEW i \in Starts(text, signature)
      PROVE  i = s + 1
  <2>1. i \in 1..(Len(text) - n + 1)
    BY <1>9 DEF Starts
  <2>2. i - 1 \in 0..(Len(text) - n) /\ (i - 1) + 1 = i
    BY <1>1, <2>1
  <2>3. Slice(text, i - 1, n) = {signature}
    BY <1>9, <2>2, PlaceIsStart
  <2>4. i - 1 \in Places(text, signature)
    BY <2>2, <2>3 DEF Places
  <2> QED
    BY <1>8, <2>1, <2>4
<1>10. s + 1 \in Starts(text, signature)
  <2>1. s \in 0..(Len(text) - n)
    BY <1>1, <1>3
  <2> QED
    BY <1>2, <2>1, PlaceIsStart
<1> QED
  BY <1>3, <1>9, <1>10

(* validate_signatures, for code of any length and any two signatures at   *)
(* places of instructions: there is one prologue and one call site, and    *)
(* the call is of the prologue.                                            *)
LEMMA CallExact ==
  ASSUME NEW text \in Seq(Code), NEW c, NEW s \in Nat, NEW r \in Nat,
         c.serializer = 4 * s, c.caller = 4 * r, c.prologue \in Seq(Code),
         c.callsite \in Seq(Code), c.callsite # <<>>,
         SignaturesValid(c, text)
  PROVE  /\ Starts(text, c.prologue) = {s + 1}
         /\ Starts(text, c.callsite) = {r + 1}
         /\ text[r + 1].bl
         /\ (r + 1) + Signed(text[r + 1].imm, BlSpan) = s + 1
<1> DEFINE imm == c.callsite[1].imm
           k == Signed(imm, BlSpan)
<1>1. Starts(text, c.prologue) = {s + 1} /\ Starts(text, c.callsite) = {r + 1}
  BY PresentExact DEF SignaturesValid
<1>2. text[r + 1] = c.callsite[1]
  <2>1. 1 \in DOMAIN c.callsite /\ (r + 1) + 1 - 1 = r + 1
    OBVIOUS
  <2>2. r + 1 \in Starts(text, c.callsite)
    BY <1>1
  <2> QED
    BY <2>1, <2>2 DEF Starts
<1>3. c.callsite[1] \in Code
  OBVIOUS
<1>4. imm \in 0..(BlSpan - 1) /\ BlSpan \in Nat \ {0} /\ BlSpan % 2 = 0
  BY <1>3, InputsAssumption, Widths
<1>5. k \in Int
  BY <1>4, SignedIs
<1>6. 4 * r \in Nat
  OBVIOUS
<1>7. BlTarget(4 * r, imm) = {4 * s}
  BY DEF SignaturesValid
<1> HIDE DEF k, imm
<1>8. BlTarget(4 * r, imm) =
        {t \in 0..(Word \div 2 - 1) : 4 * r < Word \div 2 /\ t = 4 * r + 4 * k}
  BY <1>4, <1>6, BlExact DEF k
<1>9. 4 * s = 4 * r + 4 * k
  BY <1>7, <1>8
<1>10. (r + 1) + k = s + 1
  BY <1>5, <1>9
<1> QED
  BY <1>1, <1>2, <1>10 DEF k, imm, SignaturesValid

(* A review of some code of six instructions, patched or not.              *)
Signatures == [serializer : Nat, prologue : Seq(Code), caller : Nat, callsite : Seq(Code)]

CodeInput ==
  /\ input \in [config : Signatures, text : Seq(Code), patched : BOOLEAN]
  /\ \E s, r \in Nat : input.config.serializer = 4 * s /\ input.config.caller = 4 * r
  /\ input.config.callsite # <<>>

CodeInputs == kind = "code" => CodeInput

(* A review of six instructions is one of code.                            *)
LEMMA ReviewIsCode ==
  ASSUME NEW t \in [1..6 -> Code], NEW s \in 1..4, NEW r \in 1..4, input = Review(t, s, r)
  PROVE  CodeInput
<1>1. t \in Seq(Code) /\ Len(t) = 6
  <2>1. \A n \in Nat : \A f : f \in [1..n -> Code] => f \in Seq(Code) /\ Len(f) = n
    OBVIOUS
  <2> QED
    BY <2>1
<1>2. SubSeq(t, s + 1, s + 2) \in Seq(Code)
  BY <1>1
<1>3. SubSeq(t, r + 1, r + 2) \in Seq(Code) /\ Len(SubSeq(t, r + 1, r + 2)) = 2
  BY <1>1
<1>4. SubSeq(t, r + 1, r + 2) # <<>>
  BY <1>3
<1>5. 4 * s \in Nat /\ 4 * r \in Nat /\ s \in Nat /\ r \in Nat
  OBVIOUS
<1>6. /\ input.config.serializer = 4 * s /\ input.config.caller = 4 * r
      /\ input.config.callsite = SubSeq(t, r + 1, r + 2)
  BY DEF Review
<1>7. input \in [config : Signatures, text : Seq(Code), patched : BOOLEAN]
  BY <1>1, <1>2, <1>3, <1>5 DEF Review, Signatures
<1> QED
  BY <1>4, <1>5, <1>6, <1>7 DEF CodeInput

(* The code and what was reviewed of it are code in every state.           *)
LEMMA CodeInputsHold == Spec => []CodeInputs
<1>1. Init => CodeInputs
  <2> SUFFICES ASSUME Init, kind = "code" PROVE CodeInput
    BY DEF CodeInputs
  <2>1. DOMAIN Alphabet = {"line", "integer", "hex"}
    BY InputsAssumption
  <2>2. input \in {Review(t, p[1], p[2]) :
          t \in [1..6 -> Code], p \in {q \in (1..4) \X (1..4) : q[1] - q[2] \notin -1..1}}
    BY <2>1 DEF Init
  <2>3. PICK t \in [1..6 -> Code], p \in (1..4) \X (1..4) : input = Review(t, p[1], p[2])
    BY <2>2
  <2>4. p[1] \in 1..4 /\ p[2] \in 1..4
    BY <2>3
  <2> QED
    BY <2>3, <2>4, ReviewIsCode
<1>2. CodeInputs /\ [Next]_vars => CodeInputs'
  <2> SUFFICES ASSUME CodeInputs, [Next]_vars, kind' = "code" PROVE CodeInput'
    BY DEF CodeInputs
  <2>1. kind = "code"
    BY StepKind DEF vars
  <2>2. CodeInput
    BY <2>1 DEF CodeInputs
  <2>3. CASE UNCHANGED vars
    BY <2>2, <2>3 DEF vars, CodeInput
  <2>4. CASE Patch
    <3>1. PICK i \in DOMAIN input.text, w \in Code :
            input' = [input EXCEPT !.text[i] = w, !.patched = TRUE]
      BY <2>4 DEF Patch
    <3>2. input \in [config : Signatures, text : Seq(Code), patched : BOOLEAN]
      BY <2>2 DEF CodeInput
    <3>3. /\ input'.config = input.config /\ input'.text = [input.text EXCEPT ![i] = w]
          /\ input' \in [config : Signatures, text : Seq(Code), patched : BOOLEAN]
      <4> DEFINE text == [input.text EXCEPT ![i] = w]
      <4>1. text \in Seq(Code)
        BY <3>2
      <4>2. input' = [config |-> input.config, text |-> text, patched |-> TRUE]
        BY <3>1, <3>2
      <4> HIDE DEF text
      <4>3. input.config \in Signatures
        BY <3>2
      <4> QED
        BY <4>1, <4>2, <4>3 DEF text
    <3> QED
      BY <2>2, <3>3 DEF CodeInput
  <2>5. CASE Next /\ ~Patch
    <3>1. DOMAIN Alphabet = {"line", "integer", "hex"}
      BY InputsAssumption
    <3> QED
      BY <2>1, <2>5, <3>1 DEF Next, Type, Omit, Rewrite, Add, Misspell, Annotate, Miswire
  <2> QED
    BY <2>3, <2>4, <2>5
<1> QED
  BY <1>1, <1>2, PTL DEF Spec

(* In code that is let through, whatever an update made of it, the hook is *)
(* put at the one place of the prologue, and that is the function that the *)
(* one call site calls.                                                    *)
THEOREM TargetCalled == Spec => []TargetIsTheOneCalled
<1>1. CodeInputs => TargetIsTheOneCalled
  <2> SUFFICES ASSUME CodeInput, SignaturesValid(input.config, input.text)
               PROVE  LET caller == 1 + input.config.caller \div 4
                          entry == 1 + input.config.serializer \div 4
                      IN /\ Starts(input.text, input.config.prologue) = {entry}
                         /\ Starts(input.text, input.config.callsite) = {caller}
                         /\ input.text[caller].bl
                         /\ caller + Signed(input.text[caller].imm, BlSpan) = entry
    BY DEF CodeInputs, TargetIsTheOneCalled, Starts
  <2>1. PICK s \in Nat, r \in Nat :
          input.config.serializer = 4 * s /\ input.config.caller = 4 * r
    BY DEF CodeInput
  <2>2. /\ input.text \in Seq(Code) /\ input.config.prologue \in Seq(Code)
        /\ input.config.callsite \in Seq(Code) /\ input.config.callsite # <<>>
    BY DEF CodeInput, Signatures
  <2>3. /\ Starts(input.text, input.config.prologue) = {s + 1}
        /\ Starts(input.text, input.config.callsite) = {r + 1}
        /\ input.text[r + 1].bl
        /\ (r + 1) + Signed(input.text[r + 1].imm, BlSpan) = s + 1
    <3> DEFINE text == input.text
               c == input.config
    <3>1. /\ text \in Seq(Code) /\ c.prologue \in Seq(Code) /\ c.callsite \in Seq(Code)
          /\ c.callsite # <<>> /\ c.serializer = 4 * s /\ c.caller = 4 * r
          /\ s \in Nat /\ r \in Nat /\ SignaturesValid(c, text)
      BY <2>1, <2>2
    <3> HIDE DEF text, c
    <3>2. Starts(text, c.prologue) = {s + 1}
      BY <3>1, PresentExact DEF SignaturesValid
    <3>3. Starts(text, c.callsite) = {r + 1}
      BY ONLY <3>1, CallExact
    <3>4. text[r + 1].bl
      BY ONLY <3>1, CallExact
    <3>5. (r + 1) + Signed(text[r + 1].imm, BlSpan) = s + 1
      BY ONLY <3>1, CallExact
    <3> QED
      BY <3>2, <3>3, <3>4, <3>5 DEF text, c
  <2>4. 1 + input.config.caller \div 4 = r + 1 /\ 1 + input.config.serializer \div 4 = s + 1
    BY <2>1
  <2> QED
    BY <2>3, <2>4
<1> QED
  BY <1>1, CodeInputsHold, PTL

-----------------------------------------------------------------------------
(* Configurations *)

(* validate_config is enough by itself: whatever the parser made of a      *)
(* file, as long as the fields have their types, a configuration that      *)
(* validate_config lets through can be carried out.                        *)
THEOREM ValidatedUsable ==
  ASSUME NEW c, NEW live, Validated(c, live),
         c.serializer_text_offset \in 0..(OffsetSpan - 1),
         c.caller_text_offset \in 0..(OffsetSpan - 1), c.capture_offsets \in Seq(Nat)
  PROVE  Usable(c)
<1> DEFINE s == c.serializer_text_offset
           p == c.expected_prologue
           r == c.caller_text_offset
           q == c.expected_callsite
<1>1. OffsetSpan \in Nat
  BY ConfigurationAssumption
<1>2. s \in Nat \ {0} /\ p \in Nat /\ r \in Nat \ {0} /\ q \in Nat
  <2>1. Sound(s, p) /\ Sound(r, q)
    BY Zenon DEF Validated
  <2>2. s \in 0..(OffsetSpan - 1) /\ r \in 0..(OffsetSpan - 1)
    OBVIOUS
  <2> HIDE DEF s, p, r, q
  <2> QED
    BY ONLY <1>1, <2>1, <2>2 DEF Sound
<1>3. Apart(c)
  BY DEF Validated
<1>4. s + p < OffsetSpan /\ r + q < OffsetSpan /\ (s >= r + q \/ r >= s + p)
  BY <1>1, <1>2, <1>3 DEF Apart, End
<1> HIDE DEF s, p, r, q
<1>5. /\ Bytes(s, p) \cap Bytes(r, q) = {}
      /\ Bytes(s, p) \cup Bytes(r, q) \subseteq 1..(OffsetSpan - 1)
  BY <1>1, <1>2, <1>4 DEF Bytes
<1> USE DEF s, p, r, q
<1>6. c.max_dumps \in 1..CaptureCapacity /\ IsInjective(c.capture_offsets)
  BY DEF Validated
<1>7. c.capture_offsets # <<>>
  <2>1. Len(c.capture_offsets) \in 1..46
    BY Zenon DEF Validated
  <2>2. Len(<<>>) = 0 /\ 0 \notin 1..46
    BY EmptySeq
  <2> QED
    BY <2>1, <2>2, Zenon
<1>8. Range(c.capture_offsets) \subseteq 0..(CompactBufferLen - 1)
  <2>1. Reviewed \subseteq 0..(CompactBufferLen - 1)
    BY DEF Reviewed, CompactBufferLen
  <2>2. Range(c.capture_offsets) \subseteq Reviewed
    BY DEF Validated
  <2> QED
    BY <2>1, <2>2
<1>9. c.observe_rule_codec \/ c.observe_rule_application \/ c.mode = "proposal_experiment"
        => c.poll_global_team_attack
  BY DEF Validated, SwitchesAgree
<1> QED
  BY <1>5, <1>6, <1>7, <1>8, <1>9 DEF Usable
=============================================================================
