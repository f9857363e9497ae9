----------------------------- MODULE LogVolume ------------------------------
(***************************************************************************)
(* How much a session writes at most, in bytes, from the formats of its    *)
(* lines (src/src/probe.rs, capture_log.rs, codec_probe.rs,                *)
(* application.rs): one that polls the global, records everything, fills   *)
(* every store, and whose counts and watched state differ at every pass.   *)
(***************************************************************************)
EXTENDS Integers, FiniteSetsExt

\* HEARTBEAT_MS does not matter here: every pass has its lines.
WatchLimitMs == 20 * 60 * 1000
PassMs == 250
Dumps == 256           \* MAX_DUMPS, and CAPTURE_CAPACITY for the codec
Events == 16 * 64      \* banks of BANK_LIMIT
MaxLogBytes == 2 * 1024 * 1024  \* MAX_LOG_BYTES of tools/compare_dumps.py

MPasses == WatchLimitMs \div (PassMs \div 2)

\* Passes before the limit; a late pass only makes them fewer.
Passes == (WatchLimitMs - 1) \div PassMs

\* The header with a label of 48 characters and signatures of 64 bytes, and the
\* status lines of a session.
Preamble == 2048

\* The lines without the numbers of the counters.
CodecCounts == 53
ApplicationCounts == 110
Watch == 89 + 3        \* stored_dumps is below 1000
DumpWritten == 48
Dump == 11 + 105 * 3
CodecEvent == 155
ApplicationEvent == 328

\* The digits of c, 2c, ... nc together: a number has one more for each power
\* of ten it reaches.
Digits(c, n) ==
  MapThenSumSet(LAMBDA d : n - Min({n, (10^d - 1) \div c}), 0..8)

(* With as many calls of each hooked function and site in every pass: the  *)
(* lines, their times, and their counters; of those, the codec's two       *)
(* functions share a count of losses, and so do the eight sites.           *)
SessionBytes(calls) ==
  Preamble
    + Passes * (CodecCounts + ApplicationCounts + Watch) + 3 * Digits(PassMs, Passes)
    + 2 * Digits(calls, Passes) + Digits(2 * calls, Passes)
    + 8 * Digits(calls, Passes) + Digits(8 * calls, Passes)
    + Digits(calls, Passes)
    + Dumps * (DumpWritten + Dump + CodecEvent) + Events * ApplicationEvent
=============================================================================
