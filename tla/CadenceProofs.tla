---------------------------- MODULE CadenceProofs -----------------------------
(***************************************************************************)
(* The cadence of the log for any tick counter, clock rate, heartbeat,     *)
(* limit and sleeps.                                                       *)
(***************************************************************************)
EXTENDS Cadence, TLAPS

-----------------------------------------------------------------------------
(* Division *)

(* The division of the millisecond clock.                                  *)
LEMMA DivMod ==
  ASSUME NEW a \in Nat, NEW d \in Nat \ {0}
  PROVE  a \div d \in Nat /\ a % d \in 0..(d - 1) /\ a = d * (a \div d) + (a % d)
OBVIOUS

(* A later tick is no earlier millisecond.                                 *)
LEMMA DivMonotone ==
  ASSUME NEW a \in Nat, NEW b \in Nat, NEW d \in Nat \ {0}, a =< b
  PROVE  a \div d =< b \div d
OBVIOUS

(* A clock in milliseconds has reached n exactly when n milliseconds of    *)
(* ticks have passed.                                                      *)
LEMMA DivReaches ==
  ASSUME NEW a \in Nat, NEW n \in Nat, NEW d \in Nat \ {0}
  PROVE  a \div d >= n <=> a >= n * d
OBVIOUS

(* A millisecond of ticks later it is at least a millisecond later.        *)
LEMMA DivStep ==
  ASSUME NEW a \in Nat, NEW b \in Nat, NEW d \in Nat \ {0}, b >= a + d
  PROVE  b \div d >= a \div d + 1
OBVIOUS

(* Two moments whose milliseconds differ by less than n are less than n    *)
(* milliseconds apart.                                                     *)
LEMMA DivApart ==
  ASSUME NEW a \in Nat, NEW b \in Nat, NEW n \in Nat, NEW d \in Nat \ {0},
         a =< b, b \div d - a \div d < n
  PROVE  b - a < n * d
OBVIOUS

(* A difference of machine words is the true one if that fits into a word. *)
LEMMA WrappedDifference ==
  ASSUME NEW w \in Nat \ {0}, NEW s \in 0..(w - 1), NEW t \in 0..(w - 1)
  PROVE  (((s + t) % w) - s) % w = t
OBVIOUS

-----------------------------------------------------------------------------
(* The clock *)

(* While the session has not outlived the counter, elapsed_ms is the time  *)
(* that has really passed.                                                 *)
LEMMA ElapsedTrue ==
  ASSUME start \in Starts, NEW t \in Nat, t < TickSpan
  PROVE  Elapsed(t) = t \div TicksPerMs
<1>1. TickSpan \in Nat \ {0} /\ start \in 0..(TickSpan - 1) /\ t \in 0..(TickSpan - 1)
  BY CadenceAssumption
<1>2. (((start + t) % TickSpan) - start) % TickSpan = t
  BY <1>1, WrappedDifference
<1> QED
  BY <1>2 DEF Elapsed, Tick

-----------------------------------------------------------------------------
(* The inductive invariant *)

(* A session that runs has not reached the limit, so the next sleep cannot *)
(* outlive the counter; the time of the last line is known in milliseconds *)
(* and in ticks; each line that shows no change pays for a heartbeat.      *)
IInv ==
  /\ TypeOK
  /\ ~stopped => ticks = 0 \/ ticks < Limit * TicksPerMs
  /\ stopped => ticks >= Limit * TicksPerMs
  /\ lastMs = lineAt \div TicksPerMs
  /\ lines =< changes + lastMs \div Heartbeat
  /\ lines > 0 /\ ~stopped => ticks - lineAt < Heartbeat * TicksPerMs
  /\ LogFollowsState

(* The constants and their products are naturals.                          *)
LEMMA Constants ==
  /\ TicksPerMs \in Nat \ {0} /\ Heartbeat \in Nat \ {0} /\ Limit \in Nat
  /\ Limit * TicksPerMs \in Nat /\ Heartbeat * TicksPerMs \in Nat
  /\ None \notin Observation
BY CadenceAssumption DEF None, Observation

(* Before the first pass nothing has been logged and no time has passed.   *)
LEMMA Initially ==
  Init => IInv
<1> SUFFICES ASSUME Init
             PROVE  IInv
  OBVIOUS
<1>1. 0 \div TicksPerMs = 0 /\ 0 \div Heartbeat = 0
  BY Constants
<1>2. TypeOK
  <2>1. start \in Starts /\ ticks = 0 /\ stopped = FALSE /\ last = None /\ lastMs = 0
    BY DEF Init
  <2>2. sampled = None /\ lineAt = 0 /\ lines = 0 /\ changes = 0
    BY DEF Init
  <2>3. lastMs \in 0..(ticks \div TicksPerMs) /\ lineAt \in 0..ticks
    BY <1>1, <2>1, <2>2
  <2>4. (last = None <=> lines = 0) /\ {lines, changes} \subseteq Nat
    BY <2>1, <2>2
  <2> QED
    BY <2>1, <2>2, <2>3, <2>4 DEF TypeOK
<1> QED
  BY <1>1, <1>2 DEF Init, IInv, LogFollowsState

(* A pass that begins before the limit: when it is, and what its clock     *)
(* says.                                                                   *)
LEMMA PassTime ==
  ASSUME IInv, ~stopped, NEW d \in Sleeps
  PROVE  /\ ticks \in Nat /\ ticks + d \in Nat /\ ticks < ticks + d
         /\ Elapsed(ticks + d) = (ticks + d) \div TicksPerMs
         /\ Elapsed(ticks + d) \in Nat
         /\ (Elapsed(ticks + d) >= Limit <=> ticks + d >= Limit * TicksPerMs)
<1>1. d \in Nat \ {0} /\ d + Limit * TicksPerMs + TicksPerMs < TickSpan /\ TickSpan \in Nat
  BY CadenceAssumption
<1>2. ticks \in Nat /\ start \in Starts /\ (ticks = 0 \/ ticks < Limit * TicksPerMs)
  BY DEF IInv, TypeOK
<1>3. ticks + d \in Nat /\ ticks + d < TickSpan /\ ticks < ticks + d
  BY <1>1, <1>2, Constants
<1>4. Elapsed(ticks + d) = (ticks + d) \div TicksPerMs
  BY <1>2, <1>3, ElapsedTrue
<1>5. (ticks + d) \div TicksPerMs \in Nat
  BY <1>3, Constants, DivMod
<1>6. (ticks + d) \div TicksPerMs >= Limit <=> ticks + d >= Limit * TicksPerMs
  BY <1>3, Constants, DivReaches
<1> QED
  BY <1>2, <1>3, <1>4, <1>5, <1>6

(* A pass that logs pays for its line with a change or with a heartbeat of *)
(* time.                                                                   *)
LEMMA LogStep ==
  ASSUME IInv, NEW d \in Sleeps, NEW o \in Observation, Log(ticks + d, o)
  PROVE  IInv'
<1> DEFINE t == ticks + d
           ms == Elapsed(t)
<1>1. /\ ~stopped /\ ms < Limit /\ ticks' = t /\ sampled' = o
      /\ changes' = IF sampled = o THEN changes ELSE changes + 1
      /\ UNCHANGED <<start, stopped>>
      /\ ShouldLog(o, ms) /\ last' = o /\ lastMs' = ms /\ lineAt' = t /\ lines' = lines + 1
  BY DEF Log, Sampled
<1>2. /\ ticks \in Nat /\ t \in Nat /\ ticks < t /\ ms = t \div TicksPerMs /\ ms \in Nat
      /\ (ms >= Limit <=> t >= Limit * TicksPerMs)
  BY <1>1, PassTime
<1> HIDE DEF t, ms
<1>3. /\ start \in Starts /\ stopped \in BOOLEAN /\ lineAt \in 0..ticks
      /\ lastMs \in 0..(ticks \div TicksPerMs) /\ lines \in Nat /\ changes \in Nat
      /\ lines =< changes + lastMs \div Heartbeat /\ last = sampled
  BY DEF IInv, TypeOK, LogFollowsState
<1>4. ticks \div TicksPerMs \in Nat /\ lastMs \in Nat /\ lastMs =< ms
  <2>1. ticks \div TicksPerMs =< t \div TicksPerMs
    BY <1>2, Constants, DivMonotone
  <2>2. ticks \div TicksPerMs \in Nat
    BY <1>2, Constants, DivMod
  <2> QED
    BY <1>2, <1>3, <2>1, <2>2
<1>5. TypeOK'
  <2>1. o # None
    BY Constants
  <2>2. lines + 1 \in Nat /\ lines + 1 # 0 /\ changes' \in Nat
    BY <1>1, <1>3
  <2> QED
    BY <1>1, <1>2, <1>3, <2>1, <2>2 DEF TypeOK
<1>6. lines' =< changes' + lastMs' \div Heartbeat
  <2>1. lastMs \div Heartbeat \in Nat /\ ms \div Heartbeat \in Nat
    BY <1>2, <1>4, Constants, DivMod
  <2>2. CASE sampled # o
    <3>1. lastMs \div Heartbeat =< ms \div Heartbeat
      BY <1>2, <1>4, Constants, DivMonotone
    <3> QED
      BY <1>1, <1>3, <2>1, <2>2, <3>1
  <2>3. CASE sampled = o
    <3>1. SaturatingSub(ms, lastMs) >= Heartbeat
      BY <1>1, <1>3, <2>3 DEF ShouldLog, IsNew
    <3>2. ms >= lastMs + Heartbeat
      BY <1>2, <1>4, <3>1, Constants DEF SaturatingSub
    <3>3. ms \div Heartbeat >= lastMs \div Heartbeat + 1
      BY <1>2, <1>4, <3>2, Constants, DivStep
    <3> QED
      BY <1>1, <1>3, <2>1, <2>3, <3>3
  <2> QED
    BY <2>2, <2>3
<1>7. ticks' - lineAt' < Heartbeat * TicksPerMs
  <2>1. Heartbeat * TicksPerMs > 0
    BY Constants
  <2> QED
    BY <1>1, <1>2, <2>1
<1>8. t < Limit * TicksPerMs
  BY <1>1, <1>2, Constants
<1> QED
  BY <1>1, <1>2, <1>5, <1>6, <1>7, <1>8 DEF IInv, LogFollowsState

(* A pass that logs nothing has seen no change and is within a heartbeat   *)
(* of the last line.                                                       *)
LEMMA SkipStep ==
  ASSUME IInv, NEW d \in Sleeps, NEW o \in Observation, Skip(ticks + d, o)
  PROVE  IInv'
<1> DEFINE t == ticks + d
           ms == Elapsed(t)
<1>1. /\ ~stopped /\ ms < Limit /\ ticks' = t /\ sampled' = o
      /\ changes' = IF sampled = o THEN changes ELSE changes + 1
      /\ ~ShouldLog(o, ms) /\ UNCHANGED <<start, stopped, last, lastMs, lineAt, lines>>
  BY DEF Skip, Sampled, schedule
<1>2. /\ ticks \in Nat /\ t \in Nat /\ ticks < t /\ ms = t \div TicksPerMs /\ ms \in Nat
      /\ (ms >= Limit <=> t >= Limit * TicksPerMs)
  BY <1>1, PassTime
<1> HIDE DEF t, ms
<1>3. /\ start \in Starts /\ stopped \in BOOLEAN /\ lineAt \in 0..ticks
      /\ lastMs \in 0..(ticks \div TicksPerMs) /\ lines \in Nat /\ changes \in Nat
      /\ lines =< changes + lastMs \div Heartbeat /\ last = sampled
      /\ lastMs = lineAt \div TicksPerMs
      /\ last \in Observation \cup {None} /\ (last = None <=> lines = 0)
  BY DEF IInv, TypeOK, LogFollowsState
<1>4. /\ ticks \div TicksPerMs \in Nat /\ lastMs \in Nat
      /\ ticks \div TicksPerMs =< t \div TicksPerMs /\ t \div TicksPerMs \in Nat
  <2>1. ticks \div TicksPerMs =< t \div TicksPerMs
    BY <1>2, Constants, DivMonotone
  <2>2. ticks \div TicksPerMs \in Nat /\ t \div TicksPerMs \in Nat
    BY <1>2, Constants, DivMod
  <2> QED
    BY <1>3, <2>1, <2>2
<1>5. last = o /\ ms - lastMs < Heartbeat
  BY <1>1, <1>2, <1>4, Constants DEF ShouldLog, IsNew, SaturatingSub
<1>6. TypeOK'
  <2>1. lineAt \in 0..t
    BY <1>2, <1>3
  <2>2. lastMs \in 0..(t \div TicksPerMs)
    BY <1>3, <1>4
  <2>3. changes' = changes
    BY <1>1, <1>3, <1>5
  <2> QED
    BY <1>1, <1>2, <1>3, <2>1, <2>2, <2>3 DEF TypeOK
<1>7. lines' =< changes' + lastMs' \div Heartbeat
  BY <1>1, <1>3, <1>5
<1>8. ticks' - lineAt' < Heartbeat * TicksPerMs
  <2>1. lineAt \in Nat /\ lineAt =< t
    BY <1>2, <1>3
  <2>2. t \div TicksPerMs - lineAt \div TicksPerMs < Heartbeat
    BY <1>2, <1>3, <1>5
  <2>3. t - lineAt < Heartbeat * TicksPerMs
    BY <1>2, <2>1, <2>2, Constants, DivApart
  <2> QED
    BY <1>1, <2>3
<1>9. t < Limit * TicksPerMs
  BY <1>1, <1>2, Constants
<1> QED
  BY <1>1, <1>2, <1>3, <1>5, <1>6, <1>7, <1>8, <1>9 DEF IInv, LogFollowsState

(* The pass that stops is one at or after the limit.                       *)
LEMMA StopStep ==
  ASSUME IInv, NEW d \in Sleeps, Stop(ticks + d)
  PROVE  IInv'
<1> DEFINE t == ticks + d
           ms == Elapsed(t)
<1>1. /\ ~stopped /\ ms >= Limit /\ ticks' = t /\ stopped' = TRUE
      /\ UNCHANGED <<start, last, lastMs, sampled, lineAt, lines, changes>>
  BY DEF Stop, schedule, history
<1>2. /\ ticks \in Nat /\ t \in Nat /\ ticks < t
      /\ (ms >= Limit <=> t >= Limit * TicksPerMs)
  BY <1>1, PassTime
<1> HIDE DEF t, ms
<1>3. TypeOK'
  <2>1. lineAt \in 0..t
    BY <1>2 DEF IInv, TypeOK
  <2>2. lastMs \in 0..(t \div TicksPerMs)
    <3>1. ticks \div TicksPerMs =< t \div TicksPerMs
      BY <1>2, Constants, DivMonotone
    <3>2. ticks \div TicksPerMs \in Nat /\ t \div TicksPerMs \in Nat
      BY <1>2, Constants, DivMod
    <3>3. lastMs \in 0..(ticks \div TicksPerMs)
      BY DEF IInv, TypeOK
    <3> QED
      BY <3>1, <3>2, <3>3
  <2> QED
    BY <1>1, <1>2, <2>1, <2>2 DEF IInv, TypeOK
<1> QED
  BY <1>1, <1>2, <1>3 DEF IInv, LogFollowsState

(* The invariant holds after every step.                                   *)
LEMMA Inductive ==
  IInv /\ [Next]_vars => IInv'
<1> SUFFICES ASSUME IInv, [Next]_vars
             PROVE  IInv'
  OBVIOUS
<1>1. ASSUME NEW d \in Sleeps, NEW o \in Observation, Log(ticks + d, o)
      PROVE  IInv'
  BY <1>1, LogStep
<1>2. ASSUME NEW d \in Sleeps, NEW o \in Observation, Skip(ticks + d, o)
      PROVE  IInv'
  BY <1>2, SkipStep
<1>3. ASSUME NEW d \in Sleeps, Stop(ticks + d)
      PROVE  IInv'
  BY <1>3, StopStep
<1>4. CASE UNCHANGED vars
  BY <1>4 DEF vars, schedule, history, IInv, TypeOK, LogFollowsState
<1> QED
  BY <1>1, <1>2, <1>3, <1>4 DEF Next

-----------------------------------------------------------------------------
(* What holds in every behaviour *)

(* The inductive invariant holds in every reachable state.                 *)
THEOREM Invariance ==
  Spec => []IInv
<1> QED
  BY Initially, Inductive, PTL DEF Spec

(* Every variable has its type, and the schedule remembers a line exactly  *)
(* when one was logged.                                                    *)
THEOREM TypeCorrect ==
  Spec => []TypeOK
<1>1. IInv => TypeOK
  BY DEF IInv
<1> QED
  BY <1>1, Invariance, PTL

(* What a pass sampled last is what was logged last: no change is missed.  *)
THEOREM ChangesLogged ==
  Spec => []LogFollowsState
<1>1. IInv => LogFollowsState
  BY DEF IInv
<1> QED
  BY <1>1, Invariance, PTL

(* While the writer runs, a line is never HEARTBEAT_MS old after a pass,   *)
(* and there are no more lines than changes and heartbeats.                *)
THEOREM Heartbeats ==
  Spec => []HeartbeatKept
<1>1. ASSUME IInv
      PROVE  HeartbeatKept
  <2>1. /\ lines \in Nat /\ changes \in Nat /\ ticks \div TicksPerMs \in Nat
        /\ lastMs \in Nat /\ lastMs =< ticks \div TicksPerMs
        /\ lines =< changes + lastMs \div Heartbeat
    <3>1. ticks \in Nat /\ lastMs \in 0..(ticks \div TicksPerMs)
      BY <1>1 DEF IInv, TypeOK
    <3>2. ticks \div TicksPerMs \in Nat
      BY <3>1, Constants, DivMod
    <3> QED
      BY <1>1, <3>1, <3>2 DEF IInv, TypeOK
  <2>2. lastMs \div Heartbeat =< (ticks \div TicksPerMs) \div Heartbeat
    BY <2>1, Constants, DivMonotone
  <2>3. lastMs \div Heartbeat \in Nat /\ (ticks \div TicksPerMs) \div Heartbeat \in Nat
    BY <2>1, Constants, DivMod
  <2>4. lines =< changes + (ticks \div TicksPerMs) \div Heartbeat
    BY <2>1, <2>2, <2>3
  <2> QED
    BY <1>1, <2>4 DEF IInv, HeartbeatKept
<1> QED
  BY <1>1, Invariance, PTL

(* The loop is left in the first pass after the limit of real time and in  *)
(* no earlier one, wherever the tick counter began.                        *)
THEOREM LimitOnTime ==
  Spec => StopsOnTime
<1>1. ASSUME IInv, [Next]_vars
      PROVE  [stopped' <=> ticks' >= Limit * TicksPerMs]_vars
  <2> SUFFICES ASSUME Next
               PROVE  stopped' <=> ticks' >= Limit * TicksPerMs
    BY <1>1
  <2>1. PICK d \in Sleeps :
          \/ \E o \in Observation : Log(ticks + d, o) \/ Skip(ticks + d, o)
          \/ Stop(ticks + d)
    BY DEF Next
  <2>2. ~stopped /\ ticks' = ticks + d
    BY <2>1 DEF Log, Skip, Sampled, Stop
  <2>3. /\ ticks + d \in Nat /\ Elapsed(ticks + d) \in Nat
        /\ (Elapsed(ticks + d) >= Limit <=> ticks + d >= Limit * TicksPerMs)
    BY <1>1, <2>2, PassTime
  <2>4. stopped' <=> Elapsed(ticks + d) >= Limit
    <3>1. CASE \E o \in Observation : Log(ticks + d, o) \/ Skip(ticks + d, o)
      <4>1. Elapsed(ticks + d) < Limit /\ UNCHANGED stopped
        BY <3>1 DEF Log, Skip, Sampled
      <4> QED
        BY <2>2, <2>3, <4>1, Constants
    <3>2. CASE Stop(ticks + d)
      BY <3>2 DEF Stop
    <3> QED
      BY <2>1, <3>1, <3>2
  <2> QED
    BY <2>2, <2>3, <2>4
<1> QED
  BY <1>1, Invariance, PTL DEF Spec, StopsOnTime
=============================================================================
