--------------------------- MODULE ReviewedSites ----------------------------
(***************************************************************************)
(* The constants of the reviewed 13.0.5 executable: the instructions that  *)
(* are patched, the callers that are told apart and the globals that are   *)
(* read (src/src/application.rs, application_probe.rs, watch.rs, codec.rs),*)
(* and the bodies whose every byte is compared before anything is patched  *)
(* (src/src/reviewed/manifest.json).  Offsets are from the start of text.  *)
(***************************************************************************)
EXTENDS Integers, Sequences

MSites == \* the submission hooked one instruction later, at its last one
  <<\h169bf4c, \h169ec00, \h169c3a8, \h169c92c, \h169c93c, \h1685cdc, \h16f056c,
    \h16f0598>>

Sites ==
  <<\h169bf4c, \h169ec00, \h169c3a8, \h169c92c, \h169c93c, \h1685ccc, \h16f056c,
    \h16f0598>>

\* BODIES: where each begins and its length.
Bodies ==
  {<<\h169bef0, 11992>>, <<\h16eb720, 728>>, <<\h16e3ec0, 472>>, <<\h16ea390, 412>>,
   <<\h1685cb0, 48>>, <<\h16f03b0, 76>>, <<\h16f0550, 236>>}

\* ENCODER_OFFSET and DECODER_OFFSET with the bytes of codec_bytes.rs.
CodecBodies == {<<\h16a4920, 572>>, <<\h16a4b60, 548>>}

\* SUBMIT_CALL_SITES: where, and the instruction that must be there.
SubmitCallSites ==
  <<[at |-> \h1687fe8, bytes |-> <<\h32, \hf7, \hff, \h97>>],
    [at |-> \h1690880, bytes |-> <<\h0c, \hd5, \hff, \h97>>],
    [at |-> \h16f52d4, bytes |-> <<\h77, \h42, \hfe, \h97>>],
    [at |-> \h16fa0e4, bytes |-> <<\hf3, \h2e, \hfe, \h97>>]>>

\* submit_origin: the index of the caller a return address belongs to, from 1.
SubmitOrigin(return) ==
  {i \in 1..4 : return = <<\h1687fec, \h1690884, \h16f52d8, \h16fa0e8>>[i]}

\* The immediate of the little-endian instruction, and whether it is a BL.
Immediate(b) == b[1] + 256 * b[2] + 65536 * b[3] + 16777216 * (b[4] % 4)
IsBl(b) == b[4] \div 4 = \h94 \div 4

\* bl_target at the size of the machine, for an offset into text.
Target(at, b) ==
  at + 4 * (IF Immediate(b) < 33554432 THEN Immediate(b) ELSE Immediate(b) - 67108864)

SubmitEntry == \h1685cb0

GlobalOffset == \h530a981
GuardOffset == \h53144d8

\* What the instructions of validate_source compute: the page and the additions
\* of x8, the offset the load is stored at in the serializer's output, and the
\* page and the addition of x20.
GlobalPage == \h5308000
GlobalAdditions == \h768 + \h2214
StoredAt == \h0c
CapturedByte == \h11
GuardPage == \h5314000
GuardAddition == \h4d8

Within(at, length, body) == body[1] =< at /\ at + length =< body[1] + body[2]

(* Every patched instruction, with the two neighbours that must stay as    *)
(* they are, lies in a body that was compared in full; no two patches      *)
(* touch, and none lies in the codec or the serializer, which have hooks   *)
(* of their own.                                                           *)
SiteReviewed(i) ==
  /\ \E b \in Bodies : Within(Sites[i] - 4, 12, b)
  /\ \A j \in 1..Len(Sites) : j = i \/ Sites[j] - Sites[i] \notin -4..4
  /\ \A b \in CodecBodies : ~Within(Sites[i], 4, b)

(* Each reviewed call is a direct BL to the function whose entry is hooked *)
(* further in, and returns to the address that is taken for that caller.   *)
CallReviewed(i) ==
  LET c == SubmitCallSites[i] IN
  /\ IsBl(c.bytes) /\ Target(c.at, c.bytes) = SubmitEntry
  /\ SubmitOrigin(c.at + 4) = {i}
  /\ \E s \in 1..Len(Sites) : Within(Sites[s], 4, <<SubmitEntry, 48>>)

(* The global whose byte is watched is the one the reviewed instructions   *)
(* load for the byte that is captured; the guard likewise.                 *)
GlobalsReviewed ==
  /\ GlobalOffset = GlobalPage + GlobalAdditions + (CapturedByte - StoredAt)
  /\ GuardOffset = GuardPage + GuardAddition
=============================================================================
