------------------------------ MODULE Observer ------------------------------
(***************************************************************************)
(* The life of the plugin in a game process (src/src/lib.rs and            *)
(* src/src/probe.rs): the game's main thread runs install once, hooks go   *)
(* live one by one while the game already calls the hooked functions, a    *)
(* writer thread drains what the hooks captured into the log and ends for  *)
(* good on the first failed write or after twenty minutes.                 *)
(*                                                                         *)
(* A capture store accepts a capture or drops it, as CaptureStore is shown *)
(* to.  The guarded write of the application hooks is in                   *)
(* ProposalExperiment; here is only whether it is live.                    *)
(***************************************************************************)
EXTENDS Naturals, Sequences, FiniteSets, Switches

CONSTANTS
  Threads,     \* game threads that call hooked functions
  ConfigFiles, \* the configurations lib.rs may read
  Room,        \* captures a store accepts: MAX_DUMPS, CAPTURE_CAPACITY, banks
  MaxCalls     \* bound: hooked calls of a behaviour

\* The switches of a configuration file that decide what is installed.
Config == [poll : BOOLEAN, codec : BOOLEAN, application : BOOLEAN,
           experiment : BOOLEAN]

ASSUME ObserverAssumption ==
  /\ IsFiniteSet(Threads)
  /\ ConfigFiles \subseteq Config /\ Room \in Nat /\ MaxCalls \in Nat

\* The three capture stores: CAPTURES, codec_probe's EVENTS and
\* application_probe's EVENTS (its banks taken together).
Stores == {"serializer", "codec", "application"}

\* Functions replaced by a hook that must call the original through a
\* trampoline; "application" stands for the eight inline sites, whose original
\* instruction runs in Skyline's own trampoline.
Functions == {"encoder", "decoder", "serializer"}
Hooks == Functions \cup {"application"}

StoreOf(h) == IF h \in {"encoder", "decoder"} THEN "codec" ELSE h

VARIABLES
  config,      \* poll, codec, application, experiment
  main,        \* the step of Path(config) install is at; 0: it failed
  told,        \* what the user is told: nothing, started, could_not_start
  aborted,     \* the process has aborted
  patched,     \* the hooks whose code patch is in place
  published,   \* the functions whose trampoline pointer is stored
  experiment,  \* EXPERIMENT
  writerReady, \* WRITER_READY
  active,      \* ACTIVE of codec_probe and of application_probe
  writer,      \* the writer thread: pc, stage of its pass, locals
  limit,       \* twenty minutes have passed
  call,        \* what each game thread is doing in a hook
  entered,     \* how many of MaxCalls are used up
  calls,       \* SERIALIZER_CALLS, and the sums of CALLS
  dropped,     \* DROPPED; the serializer hook counts none
  accepted,    \* captures the stores accepted
  taken,       \* captures the writer took
  written,     \* captures it wrote to the log
  logged,      \* the last counts line: its counts, and the captures before it
  atPass       \* history: captures accepted when the last pass began

install == <<main, told, patched, published, experiment>>
hookVars == <<call, entered, calls, dropped, accepted>>
logVars == <<taken, written, logged>>
vars == <<config, install, aborted, writerReady, active, writer, limit,
          hookVars, logVars, atPass>>

Zero == [s \in Stores |-> 0]
Off == [s \in {"codec", "application"} |-> FALSE]
NoCall == [pc |-> "idle", hook |-> "none", record |-> FALSE]
NoWriter ==
  [pc |-> "none", stage |-> "none", due |-> 0, count |-> <<0, 0>>,
   recorded |-> FALSE, dirty |-> FALSE]
NoLine == [line |-> FALSE, count |-> <<0, 0>>, written |-> 0]

Init ==
  /\ config \in ConfigFiles
  /\ main = 1
  /\ told = "nothing"
  /\ aborted = FALSE
  /\ patched = {} /\ published = {}
  /\ experiment = FALSE
  /\ writerReady = FALSE
  /\ active = Off
  /\ writer = NoWriter
  /\ limit = FALSE
  /\ call = [t \in Threads |-> NoCall]
  /\ entered = 0
  /\ calls = Zero /\ dropped = Zero /\ accepted = Zero
  /\ taken = Zero /\ written = Zero
  /\ logged = [s \in Stores |-> NoLine]
  /\ atPass = Zero

CallRecord ==
  [pc : {"idle", "original", "count", "capture"}, hook : Hooks \cup {"none"},
   record : BOOLEAN]

WriterRecord ==
  [pc : {"none", "sleep", "status", "limit", "drain", "count", "log", "flush",
         "stop_ready", "stop_codec", "stop_application", "exited"},
   stage : Stores \cup {"none"}, due : Nat, count : Nat \X Nat,
   recorded : BOOLEAN, dirty : BOOLEAN]

-----------------------------------------------------------------------------
(* install *)

If(b, steps) == IF b THEN steps ELSE <<>>

\* Which hooks go in before the writer, and with what status between.
CodecHooks(c) ==
  If(c.codec, <<"self_test", "patch_encoder", "publish_encoder",
                "patch_decoder", "publish_decoder", "self_test_hooked">>)

ApplicationHooks(c) ==
  If(c.application, <<"status", "experiment", "patch_application", "verified">>)

MSpawnThenReady == <<"spawn", "ready", "patch_serializer", "publish_serializer">>

MHookThenSpawn == <<"ready", "patch_serializer", "spawn", "publish_serializer">>

\* A ready writer, and then the hook that captures for it.
WriterThenHook == <<"ready", "spawn", "patch_serializer", "publish_serializer">>

StartRecording(c) ==
  If(c.codec, <<"check_codec", "start_codec">>)
    \o If(c.application, <<"check_application", "start_application">>)

MPathStartBeforeWriter(c) ==
  <<"validate", "log">> \o CodecHooks(c) \o ApplicationHooks(c)
    \o If(c.codec, <<"start_codec">>) \o If(c.application, <<"start_application">>)
    \o WriterThenHook

(* The order of install, after the switches of the configuration.  Each    *)
(* step is one call, store or load that other threads may see or fail.     *)
Path(c) ==
  <<"validate", "log">> \o CodecHooks(c) \o ApplicationHooks(c)
    \o WriterThenHook \o StartRecording(c)

\* The steps that install a hook, and that start one module's recording.
PatchOf ==
  [encoder |-> "patch_encoder", decoder |-> "patch_decoder",
   serializer |-> "patch_serializer", application |-> "patch_application"]
PublishOf ==
  [encoder |-> "publish_encoder", decoder |-> "publish_decoder",
   serializer |-> "publish_serializer"]
CheckOf == [codec |-> "check_codec", application |-> "check_application"]
StartOf == [codec |-> "start_codec", application |-> "start_application"]

Paths == [c \in ConfigFiles |-> Path(c)]

Failed == main = 0
Installed == main > Len(Paths[config])
Returned == Failed \/ Installed

At(step) == ~aborted /\ ~Returned /\ Paths[config][main] = step

\* The step succeeds; the last one returns Ok to lib.rs.
Go(n) ==
  /\ main' = main + n
  /\ told' = IF main' > Len(Paths[config]) THEN "started" ELSE told

Others == <<config, aborted, limit, hookVars, logVars, atPass>>

\* What validate_config requires of the four switches.
Valid(c) == SwitchesAgree(c.poll, c.codec, c.application, c.experiment)

\* Checks, log creation, self-test and status lines: nothing the hooks see.
Proceed ==
  /\ \/ At("validate") /\ Valid(config)
     \/ At("log") \/ At("self_test") \/ At("self_test_hooked")
     \/ At("status") \/ At("verified")
  /\ Go(1)
  /\ UNCHANGED <<patched, published, experiment, writerReady, active, writer, Others>>

\* They fail: install returns the error and leaves what it did in place.
Refuse ==
  /\ At("validate") \/ At("log") \/ At("self_test") \/ At("status")
  /\ main' = 0
  /\ told' = "could_not_start"
  /\ UNCHANGED <<patched, published, experiment, writerReady, active, writer, Others>>

Patch(h) ==
  /\ At(PatchOf[h])
  /\ Go(1)
  /\ patched' = patched \cup {h}
  /\ UNCHANGED <<published, experiment, writerReady, active, writer, Others>>

Publish(f) ==
  /\ At(PublishOf[f])
  /\ Go(1)
  /\ published' = published \cup {f}
  /\ UNCHANGED <<patched, experiment, writerReady, active, writer, Others>>

SetExperiment ==
  /\ At("experiment")
  /\ Go(1)
  /\ experiment' = config.experiment
  /\ UNCHANGED <<patched, published, writerReady, active, writer, Others>>

MakeReady ==
  /\ At("ready")
  /\ Go(1)
  /\ writerReady' = TRUE
  /\ UNCHANGED <<patched, published, experiment, active, writer, Others>>

Spawn ==
  /\ At("spawn")
  /\ Go(1)
  /\ writer' = [NoWriter EXCEPT !.pc = "sleep"]
  /\ UNCHANGED <<patched, published, experiment, writerReady, active, Others>>

SpawnFails ==
  /\ At("spawn")
  /\ main' = 0
  /\ told' = "could_not_start"
  /\ writerReady' = FALSE
  /\ active' = Off
  /\ UNCHANGED <<patched, published, experiment, writer, Others>>

\* if observe_... && WRITER_READY.load(Acquire)
CheckWriter(s) ==
  /\ At(CheckOf[s])
  /\ Go(IF writerReady THEN 1 ELSE 2)
  /\ UNCHANGED <<patched, published, experiment, writerReady, active, writer, Others>>

Start(s) ==
  /\ At(StartOf[s])
  /\ Go(1)
  /\ active' = [active EXCEPT ![s] = TRUE]
  /\ UNCHANGED <<patched, published, experiment, writerReady, writer, Others>>

Abort ==
  /\ aborted' = TRUE
  /\ UNCHANGED <<config, install, writerReady, active, writer, limit, hookVars,
                 logVars, atPass>>

\* No trampoline, a patch that is not one branch, a hooked self-test or a
\* status after hooking that fails: std::process::abort.
InstallAborts ==
  /\ \/ \E h \in Functions : At(PublishOf[h])
     \/ At("patch_application") \/ At("self_test_hooked") \/ At("verified")
  /\ Abort

Install ==
  \/ Proceed \/ Refuse \/ InstallAborts
  \/ \E h \in Hooks : Patch(h)
  \/ \E f \in Functions : Publish(f)
  \/ SetExperiment \/ MakeReady \/ Spawn \/ SpawnFails
  \/ \E s \in DOMAIN Off : CheckWriter(s) \/ Start(s)

-----------------------------------------------------------------------------
(* The hooks, on the game's threads *)

HookOnly ==
  <<config, install, aborted, writerReady, active, writer, limit, logVars, atPass>>

Goto(t, pc) == call' = [call EXCEPT ![t].pc = pc]
End(t) == call' = [call EXCEPT ![t] = NoCall]

MayEnter(t, h) ==
  ~aborted /\ h \in patched /\ call[t].pc = "idle" /\ entered < MaxCalls

\* The address of the original is not there yet: the observer cannot omit the
\* call and cannot make it.
EnterTooEarly(t, h) ==
  /\ MayEnter(t, h)
  /\ h \in Functions \ published
  /\ Abort

\* The flag that is read before the original runs: policy.record for the inline
\* hooks, "active" for the codec's.  The serializer's hook counts first.
Enter(t, h) ==
  /\ MayEnter(t, h)
  /\ h \in published \cup {"application"}
  /\ entered' = entered + 1
  /\ LET s == StoreOf(h)
         recording == s \in DOMAIN Off /\ active[s]
     IN /\ calls' = IF h = "serializer" THEN [calls EXCEPT ![h] = @ + 1] ELSE calls
        /\ call' = [call EXCEPT ![t] =
             IF h # "application"
               THEN [pc |-> "original", hook |-> h, record |-> recording]
             ELSE IF recording
               THEN [pc |-> "count", hook |-> h, record |-> TRUE]
             ELSE NoCall]
  /\ UNCHANGED <<dropped, accepted, HookOnly>>

\* The original has returned; the flag is read (again, for the codec's).
AfterOriginal(t) ==
  /\ ~aborted /\ call[t].pc = "original"
  /\ IF call[t].hook = "serializer"
       THEN IF writerReady THEN Goto(t, "capture") ELSE End(t)
     ELSE IF call[t].record /\ active["codec"] THEN Goto(t, "count")
     ELSE End(t)
  /\ UNCHANGED <<entered, calls, dropped, accepted, HookOnly>>

MCountForgotten(t) ==
  /\ ~aborted /\ call[t].pc = "count"
  /\ Goto(t, "capture")
  /\ UNCHANGED <<entered, calls, dropped, accepted, HookOnly>>

Count(t) ==
  /\ ~aborted /\ call[t].pc = "count"
  /\ calls' = [calls EXCEPT ![StoreOf(call[t].hook)] = @ + 1]
  /\ Goto(t, "capture")
  /\ UNCHANGED <<entered, dropped, accepted, HookOnly>>

MAcceptOffByOne(t) ==
  /\ ~aborted /\ call[t].pc = "capture"
  /\ accepted[StoreOf(call[t].hook)] =< Room
  /\ accepted' = [accepted EXCEPT ![StoreOf(call[t].hook)] = @ + 1]
  /\ End(t)
  /\ UNCHANGED <<entered, calls, dropped, HookOnly>>

Accept(t) ==
  /\ ~aborted /\ call[t].pc = "capture"
  /\ accepted[StoreOf(call[t].hook)] < Room
  /\ accepted' = [accepted EXCEPT ![StoreOf(call[t].hook)] = @ + 1]
  /\ End(t)
  /\ UNCHANGED <<entered, calls, dropped, HookOnly>>

\* The store is full, or the one compare-exchange fails.
Drop(t) ==
  /\ ~aborted /\ call[t].pc = "capture"
  /\ dropped' = IF call[t].hook = "serializer" THEN dropped
                ELSE [dropped EXCEPT ![StoreOf(call[t].hook)] = @ + 1]
  /\ End(t)
  /\ UNCHANGED <<entered, calls, accepted, HookOnly>>

Finish(t) == AfterOriginal(t) \/ Count(t) \/ Accept(t) \/ Drop(t)

-----------------------------------------------------------------------------
(* The writer thread: sleep, first status, limit, then for each store a    *)
(* drain pass and a counts line if the counts are new or five seconds old, *)
(* then a flush if something was written.  In a pass, due is how many      *)
(* captures were there when it began: the scan takes at least those.  The  *)
(* counts line of the serializer is the global watcher's.                  *)

WriterAt(pc) == ~aborted /\ writer.pc = pc

OutsideWriter == <<config, install, aborted, limit, hookVars>>
WriterOnly == <<OutsideWriter, atPass>>
Quiet == <<writerReady, active, logVars, WriterOnly>>

\* The stores a pass visits, in order.
Stages ==
  [c \in ConfigFiles |->
     If(c.codec, <<"codec">>) \o If(c.application, <<"application">>) \o <<"serializer">>]

Begin(s) ==
  [writer EXCEPT !.pc = "drain", !.stage = s, !.due = accepted[s] - taken[s]]

AfterStage(s) ==
  IF s = "serializer" THEN [writer EXCEPT !.pc = "flush", !.stage = "none"]
  ELSE LET i == CHOOSE j \in DOMAIN Stages[config] : Stages[config][j] = s
       IN Begin(Stages[config][i + 1])

Wake ==
  /\ WriterAt("sleep")
  /\ writer' = [writer EXCEPT !.pc =
       IF ~writer.recorded /\ "serializer" \in published THEN "status" ELSE "limit"]
  /\ UNCHANGED Quiet

RecordInstalled ==
  /\ WriterAt("status")
  /\ writer' = [writer EXCEPT !.pc = "limit", !.recorded = TRUE]
  /\ UNCHANGED Quiet

LimitReached == config.poll /\ limit

\* Tested before anything is drained: a pass begins only if it is not reached.
TestLimit ==
  /\ WriterAt("limit")
  /\ writer' = IF LimitReached THEN [writer EXCEPT !.pc = "stop_ready"]
               ELSE Begin(Stages[config][1])
  /\ atPass' = IF LimitReached THEN atPass ELSE accepted
  /\ UNCHANGED <<writerReady, active, logVars, OutsideWriter>>

Took(s) == taken' = [taken EXCEPT ![s] = @ + 1]

Write ==
  LET s == writer.stage IN
  /\ WriterAt("drain")
  /\ taken[s] < accepted[s]
  /\ Took(s)
  /\ written' = [written EXCEPT ![s] = @ + 1]
  /\ writer' = [writer EXCEPT !.due = IF @ = 0 THEN 0 ELSE @ - 1, !.dirty = TRUE]
  /\ UNCHANGED <<writerReady, active, logged, WriterOnly>>

MWriteFailureIgnored ==
  /\ WriterAt("drain")
  /\ taken[writer.stage] < accepted[writer.stage]
  /\ Took(writer.stage)
  /\ writer' = [writer EXCEPT !.due = IF @ = 0 THEN 0 ELSE @ - 1]
  /\ UNCHANGED <<writerReady, active, written, logged, WriterOnly>>

\* The capture is out of its slot and not in the log.
WriteFails ==
  /\ WriterAt("drain")
  /\ taken[writer.stage] < accepted[writer.stage]
  /\ Took(writer.stage)
  /\ writer' = [writer EXCEPT !.pc = "stop_ready"]
  /\ UNCHANGED <<writerReady, active, written, logged, WriterOnly>>

MDrainNothing ==
  /\ WriterAt("drain")
  /\ writer' = [writer EXCEPT !.pc = "count"]
  /\ UNCHANGED Quiet

EndDrain ==
  /\ WriterAt("drain")
  /\ writer.due = 0
  /\ writer' = IF writer.stage # "serializer" \/ config.poll
                 THEN [writer EXCEPT !.pc = "count"]
               ELSE AfterStage(writer.stage)
  /\ UNCHANGED Quiet

Counts(s) == <<calls[s], dropped[s]>>

ReadCounts ==
  /\ WriterAt("count")
  /\ writer' = [writer EXCEPT !.pc = "log", !.count = Counts(writer.stage)]
  /\ UNCHANGED Quiet

LogCounts ==
  /\ WriterAt("log")
  /\ logged' = [logged EXCEPT ![writer.stage] =
       [line |-> TRUE, count |-> writer.count, written |-> written[writer.stage]]]
  /\ writer' = [AfterStage(writer.stage) EXCEPT !.count = <<0, 0>>, !.dirty = TRUE]
  /\ UNCHANGED <<writerReady, active, taken, written, WriterOnly>>

\* The counts, and the watcher's stored_dumps, are those of the last line, which
\* is less than five seconds old.
SkipCounts ==
  /\ WriterAt("log")
  /\ logged[writer.stage].line /\ logged[writer.stage].count = writer.count
  /\ writer.stage = "serializer" => logged["serializer"].written = written["serializer"]
  /\ writer' = [AfterStage(writer.stage) EXCEPT !.count = <<0, 0>>]
  /\ UNCHANGED Quiet

Flush ==
  /\ WriterAt("flush")
  /\ writer' = [writer EXCEPT !.pc = "sleep", !.dirty = FALSE]
  /\ UNCHANGED Quiet

LogFails ==
  /\ WriterAt("status") \/ WriterAt("log") \/ (WriterAt("flush") /\ writer.dirty)
  /\ writer' = [writer EXCEPT !.pc = "stop_ready"]
  /\ UNCHANGED Quiet

\* Every way out of the loop makes the same three stores and returns.
StopReady ==
  /\ WriterAt("stop_ready")
  /\ writerReady' = FALSE
  /\ writer' = [writer EXCEPT !.pc = "stop_codec"]
  /\ UNCHANGED <<active, logVars, WriterOnly>>

StopCodec ==
  /\ WriterAt("stop_codec")
  /\ active' = [active EXCEPT !["codec"] = FALSE]
  /\ writer' = [writer EXCEPT !.pc = "stop_application"]
  /\ UNCHANGED <<writerReady, logVars, WriterOnly>>

StopApplication ==
  /\ WriterAt("stop_application")
  /\ active' = [active EXCEPT !["application"] = FALSE]
  /\ writer' = [NoWriter EXCEPT !.pc = "exited"]
  /\ UNCHANGED <<writerReady, logVars, WriterOnly>>

WriterStep ==
  \/ Wake \/ RecordInstalled \/ TestLimit \/ Write \/ WriteFails \/ EndDrain
  \/ ReadCounts \/ LogCounts \/ SkipCounts \/ Flush \/ LogFails
  \/ StopReady \/ StopCodec \/ StopApplication

\* GetSystemTick passes WATCH_LIMIT_MS.
PassLimit ==
  /\ ~aborted /\ ~limit /\ writer.pc # "none"
  /\ limit' = TRUE
  /\ UNCHANGED <<config, install, aborted, writerReady, active, writer,
                 hookVars, logVars, atPass>>

-----------------------------------------------------------------------------

Next ==
  \/ Install
  \/ \E t \in Threads :
       \/ \E h \in Hooks : Enter(t, h) \/ EnterTooEarly(t, h)
       \/ Finish(t)
  \/ WriterStep
  \/ PassLimit

(* install and the writer loop run on threads of their own and wait for    *)
(* nothing but a sleep; a hook that was entered runs to its end; time      *)
(* passes.  Whether the game calls a hooked function is its own affair.    *)
SafetySpec == Init /\ [][Next]_vars

Spec ==
  /\ SafetySpec
  /\ WF_vars(Install) /\ WF_vars(WriterStep) /\ WF_vars(PassLimit)
  /\ \A t \in Threads : WF_vars(Finish(t))

-----------------------------------------------------------------------------
(* Correctness *)

(* Every variable has its type.  A store accepts no more than its room, a  *)
(* capture is taken at most once and logged only when taken, and no call   *)
(* is captured or dropped without being counted.                           *)
TypeOK ==
  /\ config \in ConfigFiles
  /\ main \in 0..(Len(Paths[config]) + 1)
  /\ told \in {"nothing", "started", "could_not_start"}
  /\ aborted \in BOOLEAN /\ experiment \in BOOLEAN
  /\ writerReady \in BOOLEAN /\ limit \in BOOLEAN
  /\ patched \subseteq Hooks /\ published \subseteq Functions
  /\ active \in [DOMAIN Off -> BOOLEAN]
  /\ writer \in WriterRecord
  /\ call \in [Threads -> CallRecord]
  /\ entered \in 0..MaxCalls
  /\ calls \in [Stores -> Nat] /\ dropped \in [Stores -> Nat]
  /\ accepted \in [Stores -> Nat] /\ taken \in [Stores -> Nat]
  /\ written \in [Stores -> Nat]
  /\ logged \in [Stores -> [line : BOOLEAN, count : Nat \X Nat, written : Nat]]
  /\ \A s \in Stores :
       /\ written[s] =< taken[s] /\ taken[s] =< accepted[s]
       /\ accepted[s] =< Room
       /\ accepted[s] + dropped[s] =< calls[s]
  /\ atPass \in [Stores -> Nat]

(* probe.rs: "A ready writer must exist before the hook can capture".      *)
(* Whatever is recorded, a writer thread was there first to record it.     *)
CapturesHaveAWriter ==
  (\E s \in Stores : accepted[s] > 0 \/ dropped[s] > 0) => writer.pc # "none"

(* What the writer may lose.  Between two passes, where the limit is       *)
(* tested, the log has every capture that was accepted before the last     *)
(* pass: only later ones are lost to the limit.  A capture that is out of  *)
(* its slot and not in the log is one whose write failed; it is the only   *)
(* one, of all stores, and the writer takes no other.                      *)
LossesAreLast ==
  /\ writer.pc \in {"sleep", "status", "limit"} =>
       \A s \in Stores : atPass[s] =< written[s]
  /\ \A s \in Stores : taken[s] # written[s] =>
       /\ writer.pc \in {"stop_ready", "stop_codec", "stop_application", "exited"}
       /\ taken[s] = written[s] + 1
       /\ \A r \in Stores \ {s} : taken[r] = written[r]

(* Once the writer is gone WRITER_READY stays FALSE: the serializer's hook *)
(* never again fills a store that nobody empties, except for the calls     *)
(* that had already passed its test.                                       *)
WriterGoneForGood == writer.pc = "exited" => ~writerReady

(* An abort can only come from the installation: when install has          *)
(* returned, with whatever result, every hook that is in place has its     *)
(* original, so no call of the game can end the process any more.          *)
NoAbortAfterInstall ==
  /\ Returned => ~aborted /\ patched \cap Functions \subseteq published
  /\ aborted => ~Returned

(* A counts line never claims fewer calls than there are captures of that  *)
(* store before it in the log: calls are counted before they are captured, *)
(* and the line is made after the drain.                                   *)
CountsCoverTheLog ==
  \A s \in Stores : logged[s].written =< logged[s].count[1]

Ended == aborted \/ writer.pc = "exited"

(* Every capture a store accepted reaches the log, unless the writer ends  *)
(* or the process does.                                                    *)
CapturesReachTheLog ==
  \A s \in Stores, n \in 1..Room :
    (accepted[s] >= n) ~> (written[s] >= n \/ Ended)

(* README: "Diagnostic recording still stops after 20 minutes".  Recording *)
(* of rule events, once it runs beside a writer, always ends, and not by a *)
(* crash of the process: a configuration that validate_config lets through *)
(* cannot record them without the limit.                                   *)
RecordingEnds ==
  \A s \in DOMAIN Off :
    (Installed /\ active[s] /\ writer.pc = "sleep") ~> (\A r \in DOMAIN Off : ~active[r])

\* The guarded write can happen in a hook that the game calls.
MutationLive == experiment /\ "application" \in patched

(* probe.rs, before the writer is spawned: "On write failure, observing    *)
(* stops".                                                                 *)
ObservingStopsWithTheWriter ==
  Returned /\ writer.pc = "exited" => ~active["codec"] /\ ~active["application"]

(* lib.rs tells the user that the experiment could not start.              *)
RefusedMeansInactive == told = "could_not_start" => ~MutationLive
=============================================================================
