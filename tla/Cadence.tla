------------------------------ MODULE Cadence -------------------------------
(***************************************************************************)
(* When the writer thread logs what it samples: the clock arithmetic of    *)
(* its loop (src/src/probe.rs) and WatchSchedule (src/src/watch.rs), whose *)
(* rule the counts of the codec and of the application hooks follow too.   *)
(* The tick counter is a machine word that may be anywhere when the        *)
(* session begins, and a sleep may last longer than was asked for.         *)
(***************************************************************************)
EXTENDS Integers

CONSTANTS
  TicksPerMs,   \* 19,200
  TickSpan,     \* values of the tick counter: 2^64
  Starts,       \* the counter when the session begins
  Sleeps,       \* ticks from one pass to the next; the sleep asked for or more
  Heartbeat,    \* HEARTBEAT_MS
  Limit,        \* WATCH_LIMIT_MS
  Values, Calls \* what an observation is made of

Observation == [value : Values, calls : Calls]
None == [value |-> "none", calls |-> 0]

ASSUME CadenceAssumption ==
  /\ TicksPerMs \in Nat \ {0} /\ Heartbeat \in Nat \ {0} /\ Limit \in Nat
  /\ TickSpan \in Nat /\ Starts \subseteq 0..(TickSpan - 1)
  /\ Sleeps \subseteq Nat \ {0}
  /\ \A d \in Sleeps : d + Limit * TicksPerMs + TicksPerMs < TickSpan
  /\ Calls \subseteq Nat /\ "none" \notin Values

VARIABLES
  start,    \* start_tick
  ticks,    \* ticks that have really passed since
  last,     \* WatchSchedule.last
  lastMs,   \* WatchSchedule.last_ms
  stopped,  \* the limit was reached and the loop left
  sampled,  \* history: the observation of the last pass
  lineAt,   \* history: ticks at the last line
  lines,    \* history: lines so far
  changes   \* history: passes whose observation differs from the one before

schedule == <<last, lastMs>>
history == <<sampled, lineAt, lines, changes>>
vars == <<start, ticks, stopped, schedule, history>>

Init ==
  /\ start \in Starts
  /\ ticks = 0
  /\ last = None /\ lastMs = 0
  /\ stopped = FALSE
  /\ sampled = None /\ lineAt = 0 /\ lines = 0 /\ changes = 0

\* GetSystemTick after t ticks of the session.
Tick(t) == (start + t) % TickSpan

MElapsedSaturating(t) ==
  IF Tick(t) < start THEN 0 ELSE (Tick(t) - start) \div TicksPerMs

\* wrapping_sub, and only then the conversion.
Elapsed(t) == ((Tick(t) - start) % TickSpan) \div TicksPerMs

SaturatingSub(a, b) == IF a < b THEN 0 ELSE a - b

MValueIsNew(o) == last = None \/ last.value # o.value

IsNew(o) == last # o

ShouldLog(o, ms) == IsNew(o) \/ SaturatingSub(ms, lastMs) >= Heartbeat

\* A pass before the limit samples the state and asks the schedule.
Sampled(t, o) ==
  /\ ~stopped
  /\ Elapsed(t) < Limit
  /\ ticks' = t
  /\ sampled' = o
  /\ changes' = IF sampled = o THEN changes ELSE changes + 1
  /\ UNCHANGED <<start, stopped>>

Log(t, o) ==
  /\ Sampled(t, o)
  /\ ShouldLog(o, Elapsed(t))
  /\ last' = o /\ lastMs' = Elapsed(t)
  /\ lineAt' = t /\ lines' = lines + 1

MSkipAndRemember(t, o) ==
  /\ Sampled(t, o)
  /\ ~ShouldLog(o, Elapsed(t))
  /\ last' = o /\ lastMs' = Elapsed(t)
  /\ UNCHANGED <<lineAt, lines>>

Skip(t, o) ==
  /\ Sampled(t, o)
  /\ ~ShouldLog(o, Elapsed(t))
  /\ UNCHANGED <<schedule, lineAt, lines>>

Stop(t) ==
  /\ ~stopped
  /\ Elapsed(t) >= Limit
  /\ ticks' = t
  /\ stopped' = TRUE
  /\ UNCHANGED <<start, schedule, history>>

Next ==
  \E d \in Sleeps :
    \/ \E o \in Observation : Log(ticks + d, o) \/ Skip(ticks + d, o)
    \/ Stop(ticks + d)

Spec == Init /\ [][Next]_vars

-----------------------------------------------------------------------------
(* Correctness *)

(* Every variable has its type; the time of the last line is one that has  *)
(* been, and there is one exactly when something was logged.               *)
TypeOK ==
  /\ start \in Starts /\ ticks \in Nat /\ stopped \in BOOLEAN
  /\ last \in Observation \cup {None} /\ sampled \in Observation \cup {None}
  /\ lastMs \in 0..(ticks \div TicksPerMs)
  /\ lineAt \in 0..ticks
  /\ {lines, changes} \subseteq Nat
  /\ last = None <=> lines = 0

(* The log shows every change that a pass sees, in whichever part of the   *)
(* observation, and the first pass: after a pass, what was sampled last is *)
(* what was logged last.                                                   *)
LogFollowsState == last = sampled

(* A running writer is never silent: after each pass, less than            *)
(* HEARTBEAT_MS have really passed since the last line, whatever the tick  *)
(* counter was at the start and however late the passes come.  And it says *)
(* no more than the changes and one line for each HEARTBEAT_MS, which is   *)
(* what bounds the log.                                                    *)
HeartbeatKept ==
  /\ lines > 0 /\ ~stopped => ticks - lineAt < Heartbeat * TicksPerMs
  /\ lines =< changes + (ticks \div TicksPerMs) \div Heartbeat

(* The session ends in the first pass after WATCH_LIMIT_MS of real time,   *)
(* and in no earlier one: a counter that wraps around neither ends it      *)
(* early nor lets it run on.                                               *)
StopsOnTime ==
  [][stopped' <=> ticks' >= Limit * TicksPerMs]_vars
=============================================================================
