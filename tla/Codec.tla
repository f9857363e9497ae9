------------------------------- MODULE Codec --------------------------------
(***************************************************************************)
(* The rule codec of the game as src/src/codec.rs reviews it, and the test *)
(* that is run on private buffers before and after its two routines are    *)
(* hooked.  A routine is described by its wiring: which byte or bit of its *)
(* input each byte or bit of its output is made of.  What the test does    *)
(* with the descriptor and the returned register is left out.              *)
(***************************************************************************)
EXTENDS Integers, Sequences, FiniteSetsExt

Scalars == <<1, 2, 4, 5, 6, 7, 8, 10, 11, 12, 14, 19, 20>>
Flags == <<9, 13, 15, 17, 21, 22, 23>>
TeamAttack == 2  \* its place in Flags

Rule == -16..39  \* the 56 bytes around the rule, by offset from it
Stream == 0..63
Length == 14     \* bytes of an encoded rule, the last one holds the flags

Bit(n, k) == (n \div 2^k) % 2

\* A wire of a flag ends at a bit, or at a whole byte that is tested for zero.
Byte == 8
Test(n, k) == IF k = Byte THEN (IF n = 0 THEN 0 ELSE 1) ELSE Bit(n, k)

(* The wiring of a routine: the cell each scalar comes from, the cell and  *)
(* bit each flag comes from, cells that it changes and should not, and how *)
(* far it moves the cursor.  Cells of the stream count from the cursor.    *)
ReviewedEncoder ==
  [scalar |-> Scalars, flag |-> [b \in 1..7 |-> <<Flags[b], Byte>>],
   strayRule |-> {}, strayStream |-> {}, advance |-> Length]

ReviewedDecoder ==
  [scalar |-> [i \in 1..13 |-> i - 1], flag |-> [b \in 1..7 |-> <<13, b - 1>>],
   strayRule |-> {}, strayStream |-> {}, advance |-> Length]

Stray(cell, hit) == IF hit THEN (cell + 1) % 256 ELSE cell

\* m is [rule, stream, position].
Encode(w, m) ==
  [rule |-> [o \in Rule |-> Stray(m.rule[o], o \in w.strayRule)],
   stream |-> [p \in Stream |->
     LET i == p - m.position IN
     CASE i \in 0..12 -> m.rule[w.scalar[i + 1]]
       [] i = 13 -> MapThenSumSet(
                      LAMBDA b : 2^(b - 1) * Test(m.rule[w.flag[b][1]], w.flag[b][2]), 1..7)
       [] OTHER -> Stray(m.stream[p], i \in w.strayStream)],
   position |-> m.position + w.advance]

Decode(w, m) ==
  LET At(i) == m.stream[m.position + i]
      scalarAt == [o \in Rule |-> {i \in 1..13 : Scalars[i] = o}]
      flagAt == [o \in Rule |-> {b \in 1..7 : Flags[b] = o}]
  IN [rule |-> [o \in Rule |->
        IF scalarAt[o] # {} THEN At(w.scalar[CHOOSE i \in scalarAt[o] : TRUE])
        ELSE IF flagAt[o] # {}
          THEN LET wire == w.flag[CHOOSE b \in flagAt[o] : TRUE]
               IN Test(At(wire[1]), wire[2])
        ELSE Stray(m.rule[o], o \in w.strayRule)],
      stream |-> [p \in Stream |-> Stray(m.stream[p], p - m.position \in w.strayStream)],
      position |-> m.position + w.advance]

-----------------------------------------------------------------------------
(* self_test *)

MScalarVector(o, flags) == (o * 17 + flags) % 256

\* The scalars do not depend on the Team Attack bit: flags & !2.
ScalarVector(o, flags) == (o * 17 + flags - 2 * Bit(flags, 1)) % 256

Buffer(S, fill) == [i \in S |-> fill]

\* A rule with the given scalars and flags in a buffer filled with 0xA5.
RuleOf(scalar, flags) ==
  [o \in Rule |->
     IF \E i \in 1..13 : Scalars[i] = o THEN scalar[o]
     ELSE IF \E b \in 1..7 : Flags[b] = o THEN Bit(flags, CHOOSE k \in 0..6 : Flags[k + 1] = o)
     ELSE 165]

RoundTrip(encoder, decoder, flags) ==
  LET source == RuleOf([o \in Rule |-> ScalarVector(o, flags)], flags)
      pos == IF flags % 2 = 0 THEN 7 ELSE 31
      stream == [p \in Stream |->
        LET i == p - pos IN
        CASE i \in 0..12 -> source[Scalars[i + 1]] [] i = 13 -> flags [] OTHER -> 204]
      encoded ==
        Encode(encoder, [rule |-> source, stream |-> Buffer(Stream, 204), position |-> pos])
      decoded ==
        Decode(decoder, [rule |-> Buffer(Rule, 165), stream |-> encoded.stream, position |-> pos])
  IN /\ encoded = [rule |-> source, stream |-> stream, position |-> pos + Length]
     /\ decoded = [rule |-> source, stream |-> stream, position |-> pos + Length]

EveryFlagByte(decoder, flags) ==
  LET stream == [Buffer(Stream, 99) EXCEPT ![20] = flags]
  IN Decode(decoder, [rule |-> Buffer(Rule, 165), stream |-> stream, position |-> 7])
       = [rule |-> RuleOf(Buffer(Rule, 99), flags), stream |-> stream, position |-> 7 + Length]

SelfTest(encoder, decoder) ==
  /\ \A flags \in 0..127 : RoundTrip(encoder, decoder, flags)
  /\ \A flags \in 0..255 : EveryFlagByte(decoder, flags)

-----------------------------------------------------------------------------
(* One wire that is not as reviewed.  The flags of the encoder end at      *)
(* whole bytes of the rule, except for Team Attack, which may be any bit   *)
(* of any of them; those of the decoder at any bit of the stream.          *)

EncoderFlagEnds ==
  [b \in 1..7 |-> (0..24) \X (IF b = TeamAttack THEN 0..Byte ELSE {Byte})]

Rewire(w, scalarEnds, flagEnds) ==
  {[w EXCEPT !.scalar[i] = c] : i \in 1..13, c \in scalarEnds}
    \cup UNION {{[w EXCEPT !.flag[b] = e] : e \in flagEnds[b]} : b \in 1..7}
    \cup {[w EXCEPT !.strayStream = {i}] : i \in (-7..32) \ (0..13)}
    \cup {[w EXCEPT !.advance = n] : n \in {0, 13, 15}}

Equivalent(w) == \* "not zero" and the lowest bit of a flag are the same
  [w EXCEPT !.flag = [b \in 1..7 |->
     IF w.flag[b] = <<Flags[b], 0>> THEN <<Flags[b], Byte>> ELSE w.flag[b]]]

EncoderFaults ==
  Rewire(ReviewedEncoder, 0..24, EncoderFlagEnds)
    \cup {[ReviewedEncoder EXCEPT !.strayRule = {o}] : o \in Rule}

DecoderFaults ==
  Rewire(ReviewedDecoder, 0..13, [b \in 1..7 |-> (0..13) \X (0..7)])
    \cup {[ReviewedDecoder EXCEPT !.strayRule = {o}] :
            o \in {p \in Rule : p \notin {Scalars[i] : i \in 1..13} \cup {Flags[b] : b \in 1..7}}}
=============================================================================
