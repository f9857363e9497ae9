------------------------- MODULE ProposalExperiment -------------------------
(***************************************************************************)
(* The hooks of src/src/application_probe.rs as game threads run them, and *)
(* the guarded write two of them may make: a local command-B4 rule         *)
(* proposal (rule_submit) is changed from Team Attack OFF to ON, and then  *)
(* the local-copy source (local_copy) of the session it was sent for.      *)
(*                                                                         *)
(* The plugin reads game memory without any lock, one load at a time,      *)
(* while other game threads write it.  Every load, write and atomic access *)
(* is a step here, and the game may act between any two.  A condition on   *)
(* memory is abstracted to whether it holds; the seventeen words that give *)
(* the local slot are kept, because they are loaded one by one.            *)
(***************************************************************************)
EXTENDS Naturals, Sequences, FiniteSets

CONSTANTS
  Threads,     \* game threads that run hooked code
  Sessions,    \* addresses of session objects
  SlotCount,   \* 16: the record slots of a session
  NoSlot,      \* 0xff: the local identity is in no slot
  Identities,  \* what the game identifies players by, pointers
  NoIdentity,  \* the null pointer
  NoSession,   \* 0: no session is armed
  Kinds,       \* the hooks the game runs
  Arguments,   \* the rule_submit calls it makes
  Tables,      \* the identity tables a session may start with
  Modes,       \* the values EXPERIMENT may be given by install
  BankLimit,   \* BANK_LIMIT, 64
  Reuse,       \* may a session be freed and another take its address
  MaxCalls,    \* bound: hook calls of a behaviour
  MaxChanges   \* bound: writes the game makes to memory the hooks read

AllKinds ==
  {"local_copy", "participant_copy", "selection_ready", "apply_before",
   "apply_after", "rule_submit", "rule_receive_before",
   "rule_receive_team_stored"}

Slots == 0..(SlotCount - 1)

\* The words local_slot loads, in its order: 0 is the local identity of the
\* session, slot + 1 the identity in that slot's entry.
Words == 0..SlotCount

Table == [Words -> Identities \cup {NoIdentity}]

\* matches: command B4, length D0, buffer not null.  slot, team: bytes C8 and
\* 11 of the buffer.  origin: the caller is one of the four reviewed ones.
Argument == [matches : BOOLEAN, slot : Slots, team : {0, 1}, origin : BOOLEAN]

ASSUME ExperimentAssumption ==
  /\ Kinds \subseteq AllKinds /\ Arguments \subseteq Argument
  /\ Modes \subseteq BOOLEAN /\ Reuse \in BOOLEAN
  /\ SlotCount \in Nat \ {0} /\ NoSlot \notin Slots
  /\ NoSession \notin Sessions /\ NoIdentity \notin Identities
  /\ Tables \subseteq Table
  /\ BankLimit \in Nat /\ MaxCalls \in Nat /\ MaxChanges \in Nat

\* Conditions on the module's data, and on a session object.
SharedConditions == {"mode", "initialized", "global_off"}
SessionConditions == {"request", "unprepared"}

VARIABLES
  world,       \* the shared conditions that hold
  session,     \* of each session object, the conditions that hold
  table,       \* of each session, the words that give the local slot
  localTeam,   \* the local-copy source of a session
  experiment,  \* EXPERIMENT
  active,      \* ACTIVE
  started,     \* start has been called
  armed,       \* ARMED_SESSION
  call,        \* what each thread is doing
  calls,       \* CALLS, of each hook
  dropped,     \* DROPPED
  entered,     \* how many of MaxCalls are used up
  events,      \* what the EVENTS stores have accepted
  changes,     \* how many of MaxChanges are used up
  always,      \* history: conditions true in every state of a call so far
  ever,        \* history: conditions true in some state of a call so far
  shown,       \* history: tables its session has had during a call so far
  wrote,       \* history: what a call has written
  changed      \* history: sessions that had a proposal changed

memory == <<world, session, table>>
flags == <<experiment, active, started>>
counters == <<calls, dropped, events>>
history == <<always, ever, shown>>
writes == <<wrote, changed>>
bounds == <<entered, changes>>
vars == <<memory, localTeam, flags, armed, call, counters, bounds, history,
          writes>>

\* A thread that is in no hook.
Idle ==
  [pc |-> "idle", kind |-> "none", owner |-> NoSession,
   arg |-> [matches |-> FALSE, slot |-> NoSlot, team |-> 0, origin |-> FALSE],
   record |-> FALSE, step |-> 0, loads |-> 0, seen |-> [w \in Words |-> NoIdentity],
   action |-> "none", mode |-> FALSE]

CallRecord ==
  [pc : {"idle", "policy", "check", "load", "write", "readback", "arm", "count",
         "capture", "return"},
   kind : AllKinds \cup {"none"}, owner : Sessions \cup {NoSession},
   arg : Argument \cup {Idle.arg}, record : BOOLEAN, step : Nat,
   loads : 0..(SlotCount + 1), seen : Table,
   action : {"none", "proposal_00_to_01", "local_mirror_00_to_01"}, mode : BOOLEAN]

-----------------------------------------------------------------------------
(* The conditions of mutate_if_guarded and proposal_guard, in the order    *)
(* the hook reads them.  proposal_guard has all its arguments read anew    *)
(* before it tests any; the loads have no effect, so a call that stops at  *)
(* the first one that fails is the same call.  The session register of a   *)
(* hook holds an object here, so the test for a null one is passed.        *)

MWithoutGlobal == <<"mode", "request", "unprepared", "initialized", "local_slot">>

EntryConditions ==
  <<"mode", "request", "unprepared", "initialized", "global_off", "local_slot">>

ProposalConditions ==
  <<"mode", "request", "unprepared", "initialized", "global_off", "own_slot",
    "proposal_off", "origin">>

MWithoutArmed == <<"source_off">>

MirrorConditions == <<"armed", "source_off">>

Conditions(k) ==
  EntryConditions \o
    (IF k = "rule_submit" THEN ProposalConditions ELSE MirrorConditions)

(* identity_slot: the first slot whose entry is the local identity.        *)
IsLocal(m, i) ==
  /\ m[0] # NoIdentity /\ m[i + 1] = m[0]
  /\ \A j \in Slots : j < i => m[j + 1] # m[0]

LocalSlot(m) ==
  IF \E i \in Slots : IsLocal(m, i) THEN CHOOSE i \in Slots : IsLocal(m, i) ELSE NoSlot

(* What the load of condition c finds.  The two on the local slot load     *)
(* nothing: they compare what the call has loaded before.                  *)
Holds(t, c) ==
  LET me == call[t] IN
  \/ c \in world
  \/ c \in session[me.owner]
  \/ c = "local_slot" /\ LocalSlot(me.seen) \in Slots
  \/ c = "own_slot" /\ me.arg.slot = LocalSlot(me.seen)
  \/ c = "proposal_off" /\ me.arg.team = 0
  \/ c = "origin" /\ me.arg.origin
  \/ c = "armed" /\ armed = me.owner
  \/ c = "source_off" /\ localTeam[me.owner] = 0

-----------------------------------------------------------------------------
(* History of a call, for the properties: what was true of the memory that *)
(* others may write while it ran.                                          *)

InCall(t) == call[t].pc # "idle"

Observed == SharedConditions \cup SessionConditions \cup {"armed", "source_off"}

Foreign(t) == {c \in Observed : Holds(t, c)}

\* After a step that changes memory: every call in progress has seen it.
Witness ==
  /\ always' = [t \in Threads |->
                  IF InCall(t) THEN always[t] \cap Foreign(t)' ELSE {}]
  /\ ever' = [t \in Threads |->
                IF InCall(t) THEN ever[t] \cup Foreign(t)' ELSE {}]
  /\ shown' = [t \in Threads |->
                 IF InCall(t) THEN shown[t] \cup {table'[call[t].owner]} ELSE {}]

-----------------------------------------------------------------------------

Init ==
  /\ world \in {SharedConditions, SharedConditions \ {"initialized"}}
  /\ session = [s \in Sessions |-> SessionConditions]
  /\ table \in [Sessions -> Tables]
  /\ localTeam = [s \in Sessions |-> 0]
  /\ experiment \in Modes
  /\ active = FALSE
  /\ started = FALSE
  /\ armed = NoSession
  /\ call = [t \in Threads |-> Idle]
  /\ calls = [k \in Kinds |-> 0]
  /\ dropped = 0
  /\ events = <<>>
  /\ entered = 0
  /\ changes = 0
  /\ always = [t \in Threads |-> {}]
  /\ ever = [t \in Threads |-> {}]
  /\ shown = [t \in Threads |-> {}]
  /\ wrote = [t \in Threads |-> "nothing"]
  /\ changed = {}

-----------------------------------------------------------------------------
(* observe *)

Enter(t) ==
  /\ ~InCall(t)
  /\ entered < MaxCalls
  /\ entered' = entered + 1
  /\ \E k \in Kinds, s \in Sessions, a \in Arguments \cup {Idle.arg} :
       /\ k = "rule_submit" <=> a \in Arguments
       /\ call' = [call EXCEPT ![t] =
            [Idle EXCEPT !.pc = "policy", !.kind = k, !.owner = s, !.arg = a]]
  /\ UNCHANGED <<memory, localTeam, flags, armed, counters, changes, writes>>
  /\ always' = [always EXCEPT ![t] = Foreign(t)']
  /\ ever' = [ever EXCEPT ![t] = Foreign(t)']
  /\ shown' = [shown EXCEPT ![t] = {table[call'[t].owner]}]

\* A step of call t that moves it to pc and touches nothing but its record.
Goto(t, pc) == call' = [call EXCEPT ![t].pc = pc]

OnlyCall == <<memory, localTeam, flags, armed, counters, bounds, history, writes>>

\* hook_policy(...).mutate, for the two hooks that can mutate.
MMutateWhileRecording(k) ==
  experiment /\ active /\ k \in {"local_copy", "rule_submit"}

MutatesIn(k) == experiment /\ k \in {"local_copy", "rule_submit"}

Ignored(t) ==
  LET me == call[t] IN
  \/ ~active /\ ~MutatesIn(me.kind)
  \/ me.kind = "rule_submit" /\ ~me.arg.matches

\* The early returns of observe.
Ignore(t) ==
  /\ call[t].pc = "policy"
  /\ Ignored(t)
  /\ Goto(t, "return")
  /\ UNCHANGED OnlyCall

ReadPolicy(t) ==
  /\ call[t].pc = "policy"
  /\ ~Ignored(t)
  /\ call' = [call EXCEPT
       ![t].record = active,
       ![t].pc = IF MutatesIn(call[t].kind) THEN "check" ELSE "count"]
  /\ UNCHANGED OnlyCall

-----------------------------------------------------------------------------
(* mutate_if_guarded *)

\* It returns mutation_action a: observe goes on to record the call, or not.
Conclude(t, a) ==
  call' = [call EXCEPT ![t].action = a,
                       ![t].pc = IF call[t].record THEN "count" ELSE "return"]

Tested(t) == Conditions(call[t].kind)[call[t].step + 1]

\* Where a call that has met n conditions goes on.
Onward(k, n) ==
  IF n = Len(Conditions(k)) THEN "write"
  ELSE IF Conditions(k)[n + 1] = "local_slot" THEN "load" ELSE "check"

Check(t) ==
  LET me == call[t] IN
  /\ me.pc = "check"
  /\ Holds(t, Tested(t))
  /\ call' = [call EXCEPT ![t].step = me.step + 1,
                          ![t].pc = Onward(me.kind, me.step + 1)]
  /\ UNCHANGED OnlyCall

\* local_slot loads one word; with the last one it has what identity_slot needs.
LoadWord(t) ==
  LET me == call[t] IN
  /\ me.pc = "load"
  /\ call' = [call EXCEPT ![t].seen[me.loads] = table[me.owner][me.loads],
                          ![t].loads = me.loads + 1,
                          ![t].pc = IF me.loads = SlotCount THEN "check" ELSE "load"]
  /\ UNCHANGED OnlyCall

Refuse(t) ==
  /\ call[t].pc = "check"
  /\ ~Holds(t, Tested(t))
  /\ Conclude(t, "none")
  /\ UNCHANGED OnlyCall

\* write_byte(proposal + 0x11, 1)
WriteProposal(t) ==
  /\ call[t].pc = "write" /\ call[t].kind = "rule_submit"
  /\ call' = [call EXCEPT ![t].arg.team = 1, ![t].pc = "readback"]
  /\ changed' = changed \cup {call[t].owner}
  /\ wrote' = [wrote EXCEPT ![t] = "proposal"]
  /\ UNCHANGED <<memory, localTeam, flags, armed, counters, bounds, history>>

\* write_byte(local_team, 1)
WriteSource(t) ==
  /\ call[t].pc = "write" /\ call[t].kind # "rule_submit"
  /\ Goto(t, "readback")
  /\ localTeam' = [localTeam EXCEPT ![call[t].owner] = 1]
  /\ wrote' = [wrote EXCEPT ![t] = "source"]
  /\ UNCHANGED <<memory, flags, armed, counters, bounds, changed>>
  /\ Witness

\* The proposal is the caller's own buffer, which nobody else writes; the
\* source is not.
ReadBackProposal(t) ==
  /\ call[t].pc = "readback" /\ call[t].kind = "rule_submit"
  /\ IF call[t].arg.team = 1 THEN Goto(t, "arm") ELSE Conclude(t, "none")
  /\ UNCHANGED OnlyCall

ReadBackSource(t) ==
  /\ call[t].pc = "readback" /\ call[t].kind # "rule_submit"
  /\ Conclude(t, IF localTeam[call[t].owner] = 1 THEN "local_mirror_00_to_01" ELSE "none")
  /\ UNCHANGED OnlyCall

Arm(t) ==
  /\ call[t].pc = "arm"
  /\ armed' = call[t].owner
  /\ Conclude(t, "proposal_00_to_01")
  /\ UNCHANGED <<memory, localTeam, flags, counters, bounds, writes>>
  /\ Witness

-----------------------------------------------------------------------------
(* The recording half of observe *)

Count(t) ==
  LET me == call[t] IN
  /\ me.pc = "count"
  /\ calls' = [calls EXCEPT ![me.kind] = @ + 1]
  /\ call' = [call EXCEPT ![t].mode = "mode" \in world, ![t].pc = "capture"]
  /\ UNCHANGED <<memory, localTeam, flags, armed, dropped, events, bounds,
                 history, writes>>

\* A hook has one bank for co-op events and one for all others.
InBank(k, m) == {i \in DOMAIN events : events[i].kind = k /\ events[i].mode = m}

MReportedBeforeWrite(me) ==
  IF me.kind = "rule_submit" THEN 0
  ELSE IF me.kind = "local_copy" THEN localTeam[me.owner] ELSE 0

\* The team byte the event reports, where this model has one.
ReportedTeam(me) ==
  IF me.kind = "rule_submit" THEN me.arg.team
  ELSE IF me.kind = "local_copy" THEN localTeam[me.owner] ELSE 0

MCaptureOffByOne(t) ==
  LET me == call[t] IN
  /\ me.pc = "capture"
  /\ Cardinality(InBank(me.kind, me.mode)) =< BankLimit
  /\ events' = Append(events, [kind |-> me.kind, mode |-> me.mode,
                               team |-> ReportedTeam(me), action |-> me.action])
  /\ Goto(t, "return")
  /\ UNCHANGED <<memory, localTeam, flags, armed, calls, dropped, bounds,
                 history, writes>>

\* try_capture: the store accepts the event, or drops it for want of room, or
\* through contention or a spurious failure whether or not there is room.
Capture(t) ==
  LET me == call[t] IN
  /\ me.pc = "capture"
  /\ Cardinality(InBank(me.kind, me.mode)) < BankLimit
  /\ events' = Append(events, [kind |-> me.kind, mode |-> me.mode,
                               team |-> ReportedTeam(me), action |-> me.action])
  /\ Goto(t, "return")
  /\ UNCHANGED <<memory, localTeam, flags, armed, calls, dropped, bounds,
                 history, writes>>

MDropUncounted(t) ==
  /\ call[t].pc = "capture"
  /\ Goto(t, "return")
  /\ UNCHANGED OnlyCall

Drop(t) ==
  /\ call[t].pc = "capture"
  /\ dropped' = dropped + 1
  /\ Goto(t, "return")
  /\ UNCHANGED <<memory, localTeam, flags, armed, calls, events, bounds,
                 history, writes>>

\* The hook is over; the original code runs on with what it left in memory.
Leave(t) ==
  /\ call[t].pc = "return"
  /\ call' = [call EXCEPT ![t] = Idle]
  /\ always' = [always EXCEPT ![t] = {}]
  /\ ever' = [ever EXCEPT ![t] = {}]
  /\ shown' = [shown EXCEPT ![t] = {}]
  /\ wrote' = [wrote EXCEPT ![t] = "nothing"]
  /\ UNCHANGED <<memory, localTeam, flags, armed, counters, bounds, changed>>

-----------------------------------------------------------------------------
(* The game, outside the hooks: it may write any byte they read, at any    *)
(* time.  The initialisation guard is only ever set.                       *)

Toggle(S, c) == IF c \in S THEN S \ {c} ELSE S \cup {c}

\* The game writes the source of session s: of a call that wrote it before,
\* that write is gone.
Overwrite(s) ==
  /\ localTeam' = [localTeam EXCEPT ![s] = 1 - @]
  /\ wrote' = [t \in Threads |->
                 IF wrote[t] = "source" /\ call[t].owner = s THEN "overwritten"
                                                            ELSE wrote[t]]

Change ==
  /\ changes < MaxChanges
  /\ changes' = changes + 1
  /\ \/ /\ \E c \in SharedConditions :
               /\ c = "initialized" => c \notin world
               /\ world' = Toggle(world, c)
        /\ UNCHANGED <<session, table, localTeam, wrote>>
     \/ /\ \E s \in Sessions, c \in SessionConditions :
               session' = [session EXCEPT ![s] = Toggle(@, c)]
        /\ UNCHANGED <<world, table, localTeam, wrote>>
     \/ /\ \E s \in Sessions, w \in Words, v \in Identities \cup {NoIdentity} :
               v # table[s][w] /\ table' = [table EXCEPT ![s][w] = v]
        /\ UNCHANGED <<world, session, localTeam, wrote>>
     \/ /\ \E s \in Sessions : Overwrite(s)
        /\ UNCHANGED <<world, session, table>>
  /\ UNCHANGED <<armed, call, flags, counters, entered, changed>>
  /\ Witness

\* A session ends and another one begins at its address.
Reallocate(s) ==
  /\ Reuse
  /\ \A t \in Threads : call[t].owner # s
  /\ session' = [session EXCEPT ![s] = SessionConditions]
  /\ localTeam' = [localTeam EXCEPT ![s] = 0]
  /\ changed' = changed \ {s}
  /\ UNCHANGED <<world, table, flags, armed, call, counters, bounds, history, wrote>>

\* start, called once by install, and stop_recording, called by the writer
\* thread, which does not wait for it.
StartRecording ==
  /\ ~started
  /\ started' = TRUE
  /\ active' = TRUE
  /\ UNCHANGED <<memory, localTeam, experiment, armed, call, counters, bounds,
                 history, writes>>

StopRecording ==
  /\ active' = FALSE
  /\ UNCHANGED <<memory, localTeam, experiment, started, armed, call, counters,
                 bounds, history, writes>>

-----------------------------------------------------------------------------

MutateStep(t) ==
  \/ Check(t) \/ LoadWord(t) \/ Refuse(t) \/ WriteProposal(t) \/ WriteSource(t)
  \/ ReadBackProposal(t) \/ ReadBackSource(t) \/ Arm(t)

RecordStep(t) == Count(t) \/ Capture(t) \/ Drop(t)

Hook(t) ==
  Enter(t) \/ Ignore(t) \/ ReadPolicy(t) \/ MutateStep(t) \/ RecordStep(t) \/ Leave(t)

Next ==
  \/ \E t \in Threads : Hook(t)
  \/ Change
  \/ \E s \in Sessions : Reallocate(s)
  \/ StartRecording \/ StopRecording

Spec == Init /\ [][Next]_vars

-----------------------------------------------------------------------------
(* Correctness *)

(* Every variable has its type; a call that still tests conditions has one *)
(* left to test, and one that loads words a word to load; no bank of       *)
(* EVENTS exceeds BANK_LIMIT.                                              *)
TypeOK ==
  /\ world \subseteq SharedConditions
  /\ session \in [Sessions -> SUBSET SessionConditions]
  /\ table \in [Sessions -> Table]
  /\ localTeam \in [Sessions -> {0, 1}]
  /\ experiment \in BOOLEAN /\ active \in BOOLEAN /\ started \in BOOLEAN
  /\ armed \in Sessions \cup {NoSession}
  /\ call \in [Threads -> CallRecord]
  /\ \A t \in Threads :
       /\ call[t].step =< Len(Conditions(call[t].kind))
       /\ call[t].pc \in {"check", "load"} =>
            call[t].step < Len(Conditions(call[t].kind))
       /\ call[t].pc = "load" => call[t].loads \in Words
  /\ calls \in [Kinds -> Nat] /\ dropped \in Nat
  /\ events \in Seq([kind : AllKinds, mode : BOOLEAN, team : {0, 1},
                     action : {"none", "proposal_00_to_01", "local_mirror_00_to_01"}])
  /\ \A k \in Kinds, m \in BOOLEAN : Cardinality(InBank(k, m)) =< BankLimit
  /\ always \in [Threads -> SUBSET Observed] /\ ever \in [Threads -> SUBSET Observed]
  /\ shown \in [Threads -> SUBSET Table]
  /\ wrote \in [Threads -> {"nothing", "proposal", "source", "overwritten"}]
  /\ changed \subseteq Sessions

\* What the documented rules of the experiment require of the memory, apart
\* from the local slot.
Required(k) ==
  SharedConditions \cup SessionConditions \cup
    (IF k = "rule_submit" THEN {} ELSE {"armed", "source_off"})

\* The tables that separate loads can find while memory goes through the
\* tables in S: every word is one that was there at some moment.
Loadable(S) == {m \in Table : \A w \in Words : \E n \in S : n[w] = m[w]}

\* Slot i has been the local one all through call t.
HeldSlot(t, i) == i \in Slots /\ \A m \in shown[t] : LocalSlot(m) = i

\* Call t writes a proposal, or a local-copy source, in this step.
Writes(t) == call[t].pc = "write" /\ call'[t].pc # "write"

WroteProposal(t) == Writes(t) /\ call'[t].arg # call[t].arg

WroteSource(t) == Writes(t) /\ call'[t].arg = call[t].arg

(* README: the write "is rejected unless all reviewed conditions match".   *)
(* What unsynchronised loads can give: a call that writes has met every    *)
(* other reviewed condition at some moment of that call, and its local     *)
(* slot (of a proposal: the one the proposal is for) follows from words    *)
(* that were each in memory at some moment of that call.  It need not have *)
(* been the local slot at any moment, unless the table stayed the same.    *)
(* Only rule_submit writes a proposal (and only OFF to ON, for an exact B4 *)
(* from a reviewed caller, in its own buffer), only local_copy writes a    *)
(* source, and nobody anything unless the mode is proposal_experiment.     *)
WritesAreSanctioned ==
  [][\A t \in Threads :
       LET me == call[t] IN
       /\ WroteProposal(t) =>
            /\ me.arg.team = 0 /\ call'[t].arg = [me.arg EXCEPT !.team = 1]
            /\ me.arg.matches /\ me.arg.origin
       /\ Writes(t) =>
            /\ experiment
            /\ me.kind = IF WroteSource(t) THEN "local_copy" ELSE "rule_submit"
            /\ Required(me.kind) \subseteq ever[t]
            /\ \E m \in Loadable(shown[t]) :
                 LocalSlot(m) \in IF WroteSource(t) THEN Slots ELSE {me.arg.slot}]_vars

(* RELEASE_NOTES_0.3.1: the guarded change stays alive whatever becomes of *)
(* the recording.  A local proposal for which every reviewed condition     *)
(* held during the whole call, and whose slot was the local one all the    *)
(* time, leaves the hook with Team Attack ON, whether recording is on, was *)
(* stopped, or has no room left, and whatever else of the table changes.   *)
EligibleProposalChanged ==
  \A t \in Threads :
    LET me == call[t] IN
    me.pc = "return" /\ me.kind = "rule_submit" /\ experiment
      /\ me.arg.matches /\ me.arg.origin
      /\ Required(me.kind) \subseteq always[t] /\ HeldSlot(t, me.arg.slot)
    => me.arg.team = 1

(* The local copy of the session armed last is never taken from a source   *)
(* that stayed OFF during the hook, if the conditions held, one slot was   *)
(* the local one all the time and no other session was armed meanwhile.    *)
ArmedSourceMirrored ==
  \A t \in Threads :
    LET me == call[t] IN
    me.pc = "return" /\ me.kind = "local_copy" /\ experiment
      /\ (\E i \in Slots : HeldSlot(t, i))
    => ~(Required(me.kind) \subseteq always[t])

(* README: the source is mirrored "only if Smash selects the local-copy    *)
(* branch for that same runtime session", after a proposal was changed:    *)
(* no source is written for a session none of whose proposals was.         *)
MirrorFollowsProposal ==
  [][\A t \in Threads : WroteSource(t) => call[t].owner \in changed]_vars

\* In this step the store accepts an event of call t.
Logs(t) == call[t].pc = "capture" /\ call'[t].pc # "capture" /\ events' # events

(* The log tells the truth about the mutations: an event reports a changed *)
(* proposal exactly if its call changed one, and with it Team Attack ON;   *)
(* one reports a mirrored source only if its call wrote that source, and   *)
(* must if nobody wrote over it, and then with Team Attack ON as well.     *)
(* Team OFF beside a mirror means that the game cleared the source between *)
(* the write and the capture.  No event of an observe-mode process reports *)
(* either.                                                                 *)
EventsTellTheTruth ==
  [][\A t \in Threads : Logs(t) =>
       LET e == events'[Len(events')] IN
       /\ e.action = "proposal_00_to_01" <=> wrote[t] = "proposal"
       /\ e.action = "proposal_00_to_01" => e.kind = "rule_submit" /\ e.team = 1
       /\ e.action = "local_mirror_00_to_01" =>
            e.kind = "local_copy" /\ wrote[t] \in {"source", "overwritten"}
       /\ wrote[t] = "source" => e.action = "local_mirror_00_to_01" /\ e.team = 1
       /\ e.action # "none" => experiment]_vars

\* The calls that CALLS has counted, of all hooks, one by one.
CountedCalls == UNION {{k} \X (1..calls[k]) : k \in Kinds}

Capturing == {t \in Threads : call[t].pc = "capture"}

(* The counters and the stores agree: every counted call is recorded,      *)
(* dropped, or about to be one of the two.                                 *)
CallsAccounted ==
  Cardinality(CountedCalls) = Len(events) + dropped + Cardinality(Capturing)
=============================================================================
