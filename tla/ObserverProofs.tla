--------------------------- MODULE ObserverProofs ---------------------------
(***************************************************************************)
(* Safety of Observer for any threads, configurations, room in the stores  *)
(* and number of calls.                                                    *)
(***************************************************************************)
EXTENDS Observer, FiniteSetTheorems, TLAPS

-----------------------------------------------------------------------------
(* The path of install *)

(* The step that spawns the writer, in each of the four paths.             *)
SpawnAt(c) == 4 + (IF c.codec THEN 6 ELSE 0) + (IF c.application THEN 4 ELSE 0)

(* What the proofs need of the order of install's steps: a function is     *)
(* published right after its patch, the writer is made ready and then      *)
(* spawned before the serializer's hook goes in and before any module      *)
(* starts to record, and a recording starts right after its check.         *)
Ordered(P, n) ==
  /\ Len(P) \in Nat /\ n \in 1..Len(P) /\ P[n] = "spawn"
  /\ \A i \in 1..Len(P) :
       /\ \A f \in Functions : P[i] = PatchOf[f] => i < Len(P) /\ P[i + 1] = PublishOf[f]
       /\ \A s \in DOMAIN Off : P[i] = CheckOf[s] => i > n /\ i < Len(P) /\ P[i + 1] = StartOf[s]
       /\ \A s \in DOMAIN Off : P[i] = StartOf[s] => i > n
       /\ P[i] = "patch_serializer" => i > n
       /\ P[i] = "ready" => i < n
       /\ P[i] = "spawn" => i = n

Serial == <<"ready", "spawn", "patch_serializer", "publish_serializer">>

Neither == <<"validate", "log", "ready", "spawn", "patch_serializer", "publish_serializer">>

CodecOnly ==
  <<"validate", "log", "self_test", "patch_encoder", "publish_encoder", "patch_decoder",
    "publish_decoder", "self_test_hooked", "ready", "spawn", "patch_serializer",
    "publish_serializer", "check_codec", "start_codec">>

ApplicationOnly ==
  <<"validate", "log", "status", "experiment", "patch_application", "verified", "ready",
    "spawn", "patch_serializer", "publish_serializer", "check_application",
    "start_application">>

Both ==
  <<"validate", "log", "self_test", "patch_encoder", "publish_encoder", "patch_decoder",
    "publish_decoder", "self_test_hooked", "status", "experiment", "patch_application",
    "verified", "ready", "spawn", "patch_serializer", "publish_serializer",
    "check_codec", "start_codec", "check_application", "start_application">>

(* A path is ordered if it is, step by step, another that is.              *)
LEMMA OrderedSame ==
  ASSUME NEW P, NEW Q, NEW n, Ordered(Q, n), Len(P) = Len(Q),
         \A i \in 1..Len(Q) : P[i] = Q[i]
  PROVE  Ordered(P, n)
BY DEF Ordered

(* The four paths of install, written out, are ordered.                    *)
LEMMA FourOrders ==
  /\ Ordered(Neither, 4) /\ Ordered(CodecOnly, 10)
  /\ Ordered(ApplicationOnly, 8) /\ Ordered(Both, 14)
<1> USE DEF Ordered, Functions, PatchOf, PublishOf, CheckOf, StartOf, Off
<1>1. Ordered(Neither, 4)
  BY DEF Neither
<1>2. Ordered(CodecOnly, 10)
  BY DEF CodecOnly
<1>3. Ordered(ApplicationOnly, 8)
  BY DEF ApplicationOnly
<1>4. Ordered(Both, 14)
  BY DEF Both
<1> QED
  BY <1>1, <1>2, <1>3, <1>4

(* So is the path of any configuration, which is one of those four.        *)
LEMMA PathOrdered ==
  ASSUME NEW c \in Config
  PROVE  Ordered(Path(c), SpawnAt(c))
<1>1. CASE ~c.codec /\ ~c.application
  <2>1. Len(Path(c)) = 6 /\ \A i \in 1..6 : Path(c)[i] = Neither[i]
    BY <1>1 DEF Neither, Path, CodecHooks, ApplicationHooks, WriterThenHook, StartRecording, If
  <2>2. Len(Neither) = 6
    BY DEF Neither
  <2>3. SpawnAt(c) = 4
    BY <1>1 DEF SpawnAt
  <2> QED
    BY <2>1, <2>2, <2>3, FourOrders, OrderedSame
<1>2. CASE c.codec /\ ~c.application
  <2>1. Len(Path(c)) = 14 /\ \A i \in 1..14 : Path(c)[i] = CodecOnly[i]
    BY <1>2 DEF CodecOnly, Path, CodecHooks, ApplicationHooks, WriterThenHook, StartRecording, If
  <2>2. Len(CodecOnly) = 14
    BY DEF CodecOnly
  <2>3. SpawnAt(c) = 10
    BY <1>2 DEF SpawnAt
  <2> QED
    BY <2>1, <2>2, <2>3, FourOrders, OrderedSame
<1>3. CASE ~c.codec /\ c.application
  <2>1. Len(Path(c)) = 12 /\ \A i \in 1..12 : Path(c)[i] = ApplicationOnly[i]
    BY <1>3
       DEF ApplicationOnly, Path, CodecHooks, ApplicationHooks, WriterThenHook, StartRecording, If
  <2>2. Len(ApplicationOnly) = 12
    BY DEF ApplicationOnly
  <2>3. SpawnAt(c) = 8
    BY <1>3 DEF SpawnAt
  <2> QED
    BY <2>1, <2>2, <2>3, FourOrders, OrderedSame
<1>4. CASE c.codec /\ c.application
  <2>1. Len(Path(c)) = 20 /\ \A i \in 1..20 : Path(c)[i] = Both[i]
    BY <1>4 DEF Both, Path, CodecHooks, ApplicationHooks, WriterThenHook, StartRecording, If
  <2>2. Len(Both) = 20
    BY DEF Both
  <2>3. SpawnAt(c) = 14
    BY <1>4 DEF SpawnAt
  <2> QED
    BY <2>1, <2>2, <2>3, FourOrders, OrderedSame
<1> QED
  BY <1>1, <1>2, <1>3, <1>4 DEF Config

(* Only a module that the configuration records is ever started.           *)
LEMMA StartsRecorded ==
  ASSUME NEW c \in Config, NEW i \in 1..Len(Path(c)), NEW s \in DOMAIN Off,
         Path(c)[i] = StartOf[s]
  PROVE  IF s = "codec" THEN c.codec ELSE c.application
<1> USE DEF StartOf, Off
<1>1. CASE ~c.codec /\ ~c.application
  <2>1. Len(Path(c)) = 6 /\ \A k \in 1..6 : Path(c)[k] = Neither[k]
    BY <1>1 DEF Neither, Path, CodecHooks, ApplicationHooks, WriterThenHook, StartRecording, If
  <2> QED
    BY <2>1 DEF Neither
<1>2. CASE c.codec /\ ~c.application
  <2>1. Len(Path(c)) = 14 /\ \A k \in 1..14 : Path(c)[k] = CodecOnly[k]
    BY <1>2 DEF CodecOnly, Path, CodecHooks, ApplicationHooks, WriterThenHook, StartRecording, If
  <2> QED
    BY <1>2, <2>1 DEF CodecOnly
<1>3. CASE ~c.codec /\ c.application
  <2>1. Len(Path(c)) = 12 /\ \A k \in 1..12 : Path(c)[k] = ApplicationOnly[k]
    BY <1>3
       DEF ApplicationOnly, Path, CodecHooks, ApplicationHooks, WriterThenHook, StartRecording, If
  <2> QED
    BY <1>3, <2>1 DEF ApplicationOnly
<1>4. CASE c.codec /\ c.application
  BY <1>4
<1> QED
  BY <1>1, <1>2, <1>3, <1>4 DEF Config

-----------------------------------------------------------------------------
(* The inductive invariant *)

(* The stores that the writer drains.                                      *)
InPass(s) ==
  \/ s = "serializer" \/ (s = "codec" /\ config.codec)
  \/ (s = "application" /\ config.application)

(* Where install is.  A function that is patched and not published is      *)
(* being published; the process aborts only while install runs; the writer *)
(* is there exactly when install is past spawn, so before the serializer's *)
(* hook and before any module records; what records is drained.            *)
MainOf ==
  /\ \A f \in (patched \cap Functions) \ published :
       main \in 1..Len(Paths[config]) /\ Paths[config][main] = PublishOf[f]
  /\ aborted => main \in 1..Len(Paths[config])
  /\ main # 0 => (writer.pc # "none" <=> main > SpawnAt(config))
  /\ "serializer" \in patched => writer.pc # "none"
  /\ \A s \in DOMAIN Off : active[s] => writer.pc # "none" /\ InPass(s)

(* A call that may still capture has a writer to capture for, which drains *)
(* its store; the serializer's calls are counted when they enter.          *)
CallOf(t) ==
  LET me == call[t] IN
  /\ me.pc # "idle" => me.hook \in Hooks
  /\ me.pc = "original" /\ (me.record \/ me.hook = "serializer") =>
       writer.pc # "none" /\ InPass(StoreOf(me.hook))
  /\ me.pc \in {"count", "capture"} => writer.pc # "none" /\ InPass(StoreOf(me.hook))
  /\ me.pc = "count" => me.hook # "serializer"

(* The writer works on a store its configuration records, reads counts     *)
(* that cover what it has written, and has ended WRITER_READY when it      *)
(* stops.                                                                  *)
WriterOf ==
  /\ writer.pc \in {"drain", "count", "log"} => writer.stage \in Stores /\ InPass(writer.stage)
  /\ writer.pc = "log" => written[writer.stage] =< writer.count[1]
  /\ writer.pc \in {"stop_codec", "stop_application", "exited"} => ~writerReady

(* The calls of a store that are counted and neither captured nor dropped. *)
Owes(c, s) ==
  /\ c.pc = "capture" \/ (c.pc = "original" /\ s = "serializer")
  /\ c.hook \in Hooks /\ StoreOf(c.hook) = s

Pending(s) == {t \in Threads : Owes(call[t], s)}

Counted ==
  \A s \in Stores : accepted[s] + dropped[s] + Cardinality(Pending(s)) =< calls[s]

(* The order in which a pass visits the stores.                            *)
Rank == [codec |-> 1, application |-> 2, serializer |-> 3]

(* What a pass has done.  The stores it is through with have in the log    *)
(* all that was accepted when it began, and the one it drains will have    *)
(* when nothing is due.  Nothing is ever accepted by a store that is not   *)
(* drained.                                                                *)
PassOf ==
  /\ \A s \in Stores : atPass[s] =< accepted[s] /\ (~InPass(s) => accepted[s] = 0)
  /\ writer.pc \in {"none", "sleep", "status", "limit", "flush"} =>
       \A s \in Stores : atPass[s] =< written[s]
  /\ writer.pc \in {"drain", "count", "log"} =>
       \A s \in Stores : Rank[s] < Rank[writer.stage] => atPass[s] =< written[s]
  /\ writer.pc = "drain" => atPass[writer.stage] =< written[writer.stage] + writer.due
  /\ writer.pc \in {"count", "log"} => atPass[writer.stage] =< written[writer.stage]

(* A capture is taken and not written only by a write that failed, which   *)
(* is the last thing the writer does with captures.                        *)
LossOf ==
  \A s \in Stores : taken[s] # written[s] =>
    /\ writer.pc \in {"stop_ready", "stop_codec", "stop_application", "exited"}
    /\ taken[s] = written[s] + 1
    /\ \A r \in Stores \ {s} : taken[r] = written[r]

IInv ==
  /\ TypeOK /\ MainOf /\ (\A t \in Threads : CallOf(t)) /\ WriterOf /\ Counted
  /\ CapturesHaveAWriter /\ CountsCoverTheLog /\ PassOf /\ LossOf

-----------------------------------------------------------------------------
(* install *)

(* The path that install is on is ordered.                                 *)
LEMMA PathOfConfig ==
  ASSUME TypeOK
  PROVE  Ordered(Paths[config], SpawnAt(config))
<1>1. config \in ConfigFiles /\ config \in Config
  BY ObserverAssumption DEF TypeOK
<1>2. Paths[config] = Path(config)
  BY <1>1 DEF Paths
<1> QED
  BY <1>1, <1>2, PathOrdered

(* Where a step of install is, and where the next one is.                  *)
LEMMA Here ==
  ASSUME TypeOK, NEW step, At(step)
  PROVE  /\ ~aborted /\ main \in 1..Len(Paths[config]) /\ Paths[config][main] = step
         /\ Len(Paths[config]) \in Nat
BY PathOfConfig DEF At, Returned, Failed, Installed, TypeOK, Ordered

(* A step of install that goes on is followed by the next one.             *)
LEMMA There ==
  ASSUME TypeOK, NEW step, At(step), Go(1)
  PROVE  /\ main' \in 1..(Len(Paths[config]) + 1) /\ main' = main + 1
         /\ main' \in 0..(Len(Paths[config]) + 1)
         /\ told' \in {"nothing", "started", "could_not_start"}
BY Here DEF Go, TypeOK

WriterPlaces ==
  {"none", "sleep", "status", "limit", "drain", "count", "log", "flush", "stop_ready",
   "stop_codec", "stop_application", "exited"}

(* What changes when the writer moves is its place only.                   *)
LEMMA WriterMoved ==
  ASSUME NEW w \in WriterRecord, NEW pc \in WriterPlaces
  PROVE  /\ [w EXCEPT !.pc = pc] \in WriterRecord
         /\ [w EXCEPT !.pc = pc].pc = pc
         /\ [w EXCEPT !.pc = pc].stage = w.stage
         /\ [w EXCEPT !.pc = pc].count = w.count
BY DEF WriterRecord, WriterPlaces

(* The writer that was never spawned is a writer.                          *)
LEMMA NoWriterRecord ==
  NoWriter \in WriterRecord
BY DEF NoWriter, WriterRecord

(* The writer when it is spawned.                                          *)
Spawned == [NoWriter EXCEPT !.pc = "sleep"]

(* The spawned writer begins asleep.                                       *)
LEMMA SpawnedRecord ==
  Spawned \in WriterRecord /\ Spawned.pc = "sleep"
BY NoWriterRecord, WriterMoved DEF Spawned, WriterPlaces

(* What is left to show of a step of install that changes no capture.      *)
LEMMA InstallKeeps ==
  ASSUME IInv, UNCHANGED Others, main' \in 0..(Len(Paths[config]) + 1),
         told' \in {"nothing", "started", "could_not_start"},
         patched' \subseteq Hooks, published' \subseteq Functions,
         experiment' \in BOOLEAN, writerReady' \in BOOLEAN,
         active' \in [DOMAIN Off -> BOOLEAN],
         writer' = writer \/ (writer.pc = "none" /\ writer' = Spawned),
         writerReady' => writerReady \/ writer.pc = "none", MainOf'
  PROVE  IInv'
<1>1. writer' \in WriterRecord
  BY SpawnedRecord DEF IInv, TypeOK
<1>2. UNCHANGED <<config, call, entered, calls, dropped, accepted, taken, written, logged,
                  atPass>>
  BY DEF Others, hookVars, logVars
<1>3. TypeOK'
  BY <1>1, <1>2 DEF IInv, TypeOK, Others
<1>4. writer.pc # "none" => writer'.pc # "none"
  BY SpawnedRecord
<1>5. \A t \in Threads : CallOf(t)'
  BY <1>2, <1>4 DEF IInv, CallOf, Others, InPass
<1>6. WriterOf' /\ PassOf' /\ LossOf'
  <2>1. CASE writer' = writer
    BY <1>2, <2>1 DEF IInv, WriterOf, PassOf, LossOf, InPass
  <2>2. CASE writer.pc = "none" /\ writer' = Spawned
    <3>1. WriterOf' /\ LossOf'
      BY <1>2, <2>2, SpawnedRecord DEF IInv, WriterOf, LossOf
    <3>2. PassOf'
      BY <1>2, <2>2, SpawnedRecord DEF IInv, PassOf, InPass
    <3> QED
      BY <3>1, <3>2
  <2> QED
    BY <2>1, <2>2
<1>7. Counted'
  BY <1>2 DEF IInv, Counted, Pending
<1>8. CapturesHaveAWriter' /\ CountsCoverTheLog'
  BY <1>2, <1>4 DEF IInv, CapturesHaveAWriter, CountsCoverTheLog
<1> QED
  BY <1>3, <1>5, <1>6, <1>7, <1>8 DEF IInv

(* What the steps of install need of the invariant.                        *)
LEMMA InstallTypes ==
  ASSUME IInv
  PROVE  /\ TypeOK /\ told \in {"nothing", "started", "could_not_start"}
         /\ patched \subseteq Hooks /\ published \subseteq Functions
         /\ experiment \in BOOLEAN /\ writerReady \in BOOLEAN
         /\ active \in [DOMAIN Off -> BOOLEAN]
BY DEF IInv, TypeOK

(* A step that neither publishes nor spawns, and moves install by one.     *)
LEMMA PlainMain ==
  ASSUME IInv, NEW step, At(step), Go(1), step # "spawn",
         \A f \in Functions : step # PublishOf[f],
         UNCHANGED <<config, aborted, published, writer>>,
         patched' = patched
           \/ \E f \in Functions \cup {"application"} :
                patched' = patched \cup {f} /\ step = PatchOf[f],
         active' = active
           \/ \E s \in DOMAIN Off : active' = [active EXCEPT ![s] = TRUE] /\ step = StartOf[s]
  PROVE  MainOf'
<1> DEFINE P == Paths[config]
           n == SpawnAt(config)
<1>1. /\ Ordered(P, n) /\ ~aborted /\ main \in 1..Len(P) /\ P[main] = step
      /\ Len(P) \in Nat /\ main' \in 1..(Len(P) + 1) /\ main' = main + 1
      /\ n \in 1..Len(P) /\ P[n] = "spawn"
  BY PathOfConfig, Here, There DEF IInv, Ordered
<1>2. patched \cap Functions \subseteq published
  BY <1>1 DEF IInv, MainOf
<1>3. main # n /\ (writer.pc # "none" <=> main > n)
  BY <1>1 DEF IInv, MainOf
<1>4. \A f \in (patched' \cap Functions) \ published' :
        main' \in 1..Len(P) /\ P[main'] = PublishOf[f]
  <2> SUFFICES ASSUME NEW f \in (patched' \cap Functions) \ published
               PROVE  main' \in 1..Len(P) /\ P[main'] = PublishOf[f]
    OBVIOUS
  <2>1. step = PatchOf[f]
    BY <1>2
  <2> QED
    BY <1>1, <2>1 DEF Ordered
<1>5. main' # 0 => (writer'.pc # "none" <=> main' > n)
  BY <1>1, <1>3
<1>6. "serializer" \in patched' => writer'.pc # "none"
  <2>1. CASE "serializer" \in patched
    BY <2>1 DEF IInv, MainOf
  <2>2. CASE step = PatchOf["serializer"]
    <3>1. step = "patch_serializer"
      BY <2>2 DEF PatchOf
    <3> QED
      BY <1>1, <1>3, <3>1 DEF Ordered
  <2>3. ASSUME NEW f \in Functions \cup {"application"}, "serializer" \in patched \cup {f}
        PROVE  "serializer" \in patched \/ f = "serializer"
    BY <2>3
  <2> QED
    BY <2>1, <2>2
<1>7. \A s \in DOMAIN Off : active'[s] => writer'.pc # "none" /\ InPass(s)'
  <2> SUFFICES ASSUME NEW s \in DOMAIN Off, active'[s], ~active[s]
               PROVE  writer.pc # "none" /\ InPass(s)
    BY DEF IInv, MainOf, InPass
  <2>1. step = StartOf[s]
    BY DEF IInv, TypeOK
  <2>2. config \in Config /\ P = Path(config)
    BY ObserverAssumption DEF IInv, TypeOK, Paths
  <2>3. IF s = "codec" THEN config.codec ELSE config.application
    BY <1>1, <2>1, <2>2, StartsRecorded
  <2>4. InPass(s)
    BY <2>3 DEF InPass, Off
  <2>5. writer.pc # "none"
    BY <1>1, <1>3, <2>1 DEF Ordered
  <2> QED
    BY <2>4, <2>5
<1> QED
  BY <1>1, <1>4, <1>5, <1>6, <1>7 DEF MainOf

(* A step of install that only checks or logs moves on.                    *)
LEMMA ProceedStep ==
  ASSUME IInv, Proceed
  PROVE  IInv'
<1>1. PICK step \in {"validate", "log", "self_test", "self_test_hooked", "status", "verified"} :
        At(step)
  BY DEF Proceed
<1>2. Go(1) /\ UNCHANGED <<patched, published, experiment, writerReady, active, writer, Others>>
  BY DEF Proceed
<1>3. step # "spawn" /\ \A f \in Functions : step # PublishOf[f]
  BY DEF Functions, PublishOf
<1>4. MainOf'
  BY <1>1, <1>2, <1>3, PlainMain DEF Others
<1> QED
  BY <1>1, <1>2, <1>4, There, InstallKeeps, InstallTypes

(* install fails before anything of the step is done.                      *)
LEMMA FailedKeeps ==
  ASSUME IInv, NEW step, At(step), \A f \in Functions : step # PublishOf[f],
         main' = 0, told' = "could_not_start",
         UNCHANGED <<patched, published, experiment, writer, Others>>,
         active' \in [DOMAIN Off -> BOOLEAN], writerReady' \in BOOLEAN,
         \A s \in DOMAIN Off : active'[s] => active[s],
         writerReady' => writerReady
  PROVE  IInv'
<1>1. ~aborted /\ \A f \in (patched \cap Functions) \ published : FALSE
  BY Here DEF IInv, MainOf
<1>2. MainOf'
  BY <1>1 DEF IInv, MainOf, Others, InPass
<1>3. main' \in 0..(Len(Paths[config]) + 1)
  BY PathOfConfig DEF IInv, Ordered
<1> QED
  BY <1>2, <1>3, InstallKeeps, InstallTypes

(* A step of install that is refused ends it before spawn, and leaves what *)
(* it has patched.                                                         *)
LEMMA RefuseStep ==
  ASSUME IInv, Refuse
  PROVE  IInv'
<1>1. PICK step \in {"validate", "log", "self_test", "status"} : At(step)
  BY DEF Refuse
<1>2. \A f \in Functions : step # PublishOf[f]
  BY DEF Functions, PublishOf
<1> QED
  BY <1>1, <1>2, FailedKeeps, InstallTypes DEF Refuse

(* A patch puts a hook in; the serializer's comes after spawn.             *)
LEMMA PatchStep ==
  ASSUME IInv, NEW h \in Hooks, Patch(h)
  PROVE  IInv'
<1>1. /\ At(PatchOf[h]) /\ Go(1) /\ patched' = patched \cup {h}
      /\ UNCHANGED <<published, experiment, writerReady, active, writer, Others>>
  BY DEF Patch
<1>2. /\ PatchOf[h] # "spawn" /\ \A f \in Functions : PatchOf[h] # PublishOf[f]
      /\ h \in Functions \cup {"application"}
  BY DEF Hooks, Functions, PatchOf, PublishOf
<1>3. MainOf'
  BY <1>1, <1>2, PlainMain DEF Others
<1> QED
  BY <1>1, <1>3, There, InstallKeeps, InstallTypes

(* Once it is published, a function has its original.                      *)
LEMMA PublishStep ==
  ASSUME IInv, NEW f \in Functions, Publish(f)
  PROVE  IInv'
<1> DEFINE P == Paths[config]
           n == SpawnAt(config)
<1>1. /\ At(PublishOf[f]) /\ Go(1) /\ published' = published \cup {f}
      /\ UNCHANGED <<patched, experiment, writerReady, active, writer, Others>>
  BY DEF Publish
<1>2. /\ Ordered(P, n) /\ ~aborted /\ main \in 1..Len(P) /\ P[main] = PublishOf[f]
      /\ Len(P) \in Nat /\ main' \in 1..(Len(P) + 1) /\ main' = main + 1
      /\ n \in 1..Len(P) /\ P[n] = "spawn"
  BY <1>1, PathOfConfig, Here, There DEF IInv, Ordered
<1>3. PublishOf[f] # "spawn" /\ \A g \in Functions \ {f} : PublishOf[g] # PublishOf[f]
  BY DEF Functions, PublishOf
<1>4. \A g \in (patched \cap Functions) \ published' : FALSE
  BY <1>1, <1>2, <1>3 DEF IInv, MainOf
<1>5. main' # 0 => (writer.pc # "none" <=> main' > n)
  BY <1>2, <1>3 DEF IInv, MainOf
<1>6. MainOf'
  BY <1>1, <1>2, <1>4, <1>5 DEF IInv, MainOf, Others, InPass
<1> QED
  BY <1>1, <1>6, There, InstallKeeps, InstallTypes

(* Only the policy changes, before anything is patched for it.             *)
LEMMA SetExperimentStep ==
  ASSUME IInv, SetExperiment
  PROVE  IInv'
<1>1. /\ At("experiment") /\ Go(1) /\ experiment' = config.experiment
      /\ UNCHANGED <<patched, published, writerReady, active, writer, Others>>
  BY DEF SetExperiment
<1>2. \A f \in Functions : "experiment" # PublishOf[f]
  BY DEF Functions, PublishOf
<1>3. MainOf'
  BY <1>1, <1>2, PlainMain DEF Others
<1>4. experiment' \in BOOLEAN
  BY <1>1, ObserverAssumption DEF IInv, TypeOK, Config
<1> QED
  BY <1>1, <1>3, <1>4, There, InstallKeeps, InstallTypes

(* The writer is made ready before it is there, so never after it stopped. *)
LEMMA MakeReadyStep ==
  ASSUME IInv, MakeReady
  PROVE  IInv'
<1>1. /\ At("ready") /\ Go(1) /\ writerReady' = TRUE
      /\ UNCHANGED <<patched, published, experiment, active, writer, Others>>
  BY DEF MakeReady
<1>2. \A f \in Functions : "ready" # PublishOf[f]
  BY DEF Functions, PublishOf
<1>3. MainOf'
  BY <1>1, <1>2, PlainMain DEF Others
<1>4. writer.pc = "none"
  BY <1>1, Here, PathOfConfig DEF IInv, MainOf, Ordered
<1> QED
  BY <1>1, <1>3, <1>4, There, InstallKeeps, InstallTypes

(* From spawn on there is a writer, and so for all that is patched later.  *)
LEMMA SpawnStep ==
  ASSUME IInv, Spawn
  PROVE  IInv'
<1> DEFINE P == Paths[config]
           n == SpawnAt(config)
<1>1. /\ At("spawn") /\ Go(1) /\ writer' = Spawned
      /\ UNCHANGED <<patched, published, experiment, writerReady, active, Others>>
  BY DEF Spawn, Spawned
<1>2. /\ Ordered(P, n) /\ ~aborted /\ main = n /\ main \in 1..Len(P) /\ P[main] = "spawn"
      /\ Len(P) \in Nat /\ main' \in 1..(Len(P) + 1) /\ main' = main + 1
  BY <1>1, PathOfConfig, Here, There DEF IInv, Ordered
<1>3. \A f \in Functions : "spawn" # PublishOf[f]
  BY DEF Functions, PublishOf
<1>4. \A f \in (patched \cap Functions) \ published : FALSE
  BY <1>2, <1>3 DEF IInv, MainOf
<1>5. writer.pc = "none"
  BY <1>2 DEF IInv, MainOf, Ordered
<1>6. MainOf'
  BY <1>1, <1>2, <1>4, <1>5, SpawnedRecord DEF IInv, MainOf, Others, InPass
<1> QED
  BY <1>1, <1>5, <1>6, There, InstallKeeps, InstallTypes

(* If spawn fails then neither the hook of the serializer nor a recording  *)
(* follows.                                                                *)
LEMMA SpawnFailsStep ==
  ASSUME IInv, SpawnFails
  PROVE  IInv'
<1>1. \A f \in Functions : "spawn" # PublishOf[f]
  BY DEF Functions, PublishOf
<1>2. Off \in [DOMAIN Off -> BOOLEAN] /\ \A s \in DOMAIN Off : ~Off[s]
  BY DEF Off
<1> QED
  BY <1>1, <1>2, FailedKeeps DEF SpawnFails

(* A recording is started only when the writer is still ready.             *)
LEMMA CheckWriterStep ==
  ASSUME IInv, NEW s \in DOMAIN Off, CheckWriter(s)
  PROVE  IInv'
<1> DEFINE P == Paths[config]
           n == SpawnAt(config)
<1>1. /\ At(CheckOf[s]) /\ Go(IF writerReady THEN 1 ELSE 2)
      /\ UNCHANGED <<patched, published, experiment, writerReady, active, writer, Others>>
  BY DEF CheckWriter
<1>2. /\ Ordered(P, n) /\ ~aborted /\ main \in 1..Len(P) /\ P[main] = CheckOf[s]
      /\ Len(P) \in Nat /\ main > n /\ main < Len(P) /\ n \in Nat
  BY <1>1, PathOfConfig, Here DEF IInv, Ordered
<1>3. /\ main' \in 0..(Len(P) + 1) /\ main' > n
      /\ told' \in {"nothing", "started", "could_not_start"}
  BY <1>1, <1>2, InstallTypes DEF Go
<1>4. \A f \in Functions : CheckOf[s] # PublishOf[f]
  BY DEF Functions, PublishOf, CheckOf, Off
<1>5. \A f \in (patched \cap Functions) \ published : FALSE
  BY <1>2, <1>4 DEF IInv, MainOf
<1>6. MainOf'
  BY <1>1, <1>2, <1>3, <1>5 DEF IInv, MainOf, Others, InPass
<1> QED
  BY <1>1, <1>3, <1>6, InstallKeeps, InstallTypes

(* A module starts to record after spawn.                                  *)
LEMMA StartStep ==
  ASSUME IInv, NEW s \in DOMAIN Off, Start(s)
  PROVE  IInv'
<1>1. /\ At(StartOf[s]) /\ Go(1) /\ active' = [active EXCEPT ![s] = TRUE]
      /\ UNCHANGED <<patched, published, experiment, writerReady, writer, Others>>
  BY DEF Start
<1>2. StartOf[s] # "spawn" /\ \A f \in Functions : StartOf[s] # PublishOf[f]
  BY DEF Functions, PublishOf, StartOf, Off
<1>3. MainOf'
  BY <1>1, <1>2, PlainMain DEF Others
<1> QED
  BY <1>1, <1>3, There, InstallKeeps, InstallTypes

(* The process ends, and with it every step but none of the invariant.     *)
LEMMA AbortKeeps ==
  ASSUME IInv, Abort, main \in 1..Len(Paths[config])
  PROVE  IInv'
<1>1. /\ aborted' = TRUE
      /\ UNCHANGED <<config, main, told, patched, published, experiment, writerReady,
                     active, writer, limit, call, entered, calls, dropped, accepted,
                     taken, written, logged, atPass>>
  BY DEF Abort, install, hookVars, logVars
<1>2. TypeOK' /\ MainOf' /\ WriterOf' /\ CapturesHaveAWriter' /\ CountsCoverTheLog'
  <2>1. TypeOK'
    BY <1>1 DEF IInv, TypeOK
  <2>2. MainOf'
    BY <1>1 DEF IInv, MainOf, InPass
  <2>3. WriterOf' /\ CapturesHaveAWriter' /\ CountsCoverTheLog'
    BY <1>1 DEF IInv, WriterOf, CapturesHaveAWriter, CountsCoverTheLog, InPass
  <2> QED
    BY <2>1, <2>2, <2>3
<1>3. \A t \in Threads : CallOf(t)'
  BY <1>1 DEF IInv, CallOf, InPass
<1>4. Counted'
  BY <1>1 DEF IInv, Counted, Pending
<1>5. PassOf' /\ LossOf'
  BY <1>1 DEF IInv, PassOf, LossOf, InPass
<1> QED
  BY <1>2, <1>3, <1>4, <1>5 DEF IInv

(* install aborts on its way only.                                         *)
LEMMA InstallAbortsStep ==
  ASSUME IInv, InstallAborts
  PROVE  IInv'
<1>1. \E step : At(step)
  BY DEF InstallAborts
<1> QED
  BY <1>1, Here, AbortKeeps DEF InstallAborts, IInv

(* Every step of install keeps the invariant.                              *)
LEMMA InstallStep ==
  ASSUME IInv, Install
  PROVE  IInv'
BY ProceedStep, RefuseStep, InstallAbortsStep, PatchStep, PublishStep, SetExperimentStep,
   MakeReadyStep, SpawnStep, SpawnFailsStep, CheckWriterStep, StartStep DEF Install

-----------------------------------------------------------------------------
(* The hooks *)

(* Finitely many threads are between their count and their capture.        *)
LEMMA PendingFinite ==
  ASSUME NEW s
  PROVE  IsFiniteSet(Pending(s)) /\ Cardinality(Pending(s)) \in Nat
<1>1. Pending(s) \subseteq Threads
  BY DEF Pending
<1> QED
  BY <1>1, FS_Subset, FS_CardinalityType, ObserverAssumption

(* A step of one call moves that call in or out of Pending, and no other.  *)
LEMMA PendingMoves ==
  ASSUME NEW t \in Threads, \A u \in Threads \ {t} : call'[u] = call[u], NEW s
  PROVE  /\ IsFiniteSet(Pending(s)') /\ Cardinality(Pending(s)') \in Nat
         /\ (Owes(call'[t], s) <=> Owes(call[t], s)) =>
              Cardinality(Pending(s)') = Cardinality(Pending(s))
         /\ Owes(call'[t], s) /\ ~Owes(call[t], s) =>
              Cardinality(Pending(s)') = Cardinality(Pending(s)) + 1
         /\ ~Owes(call'[t], s) /\ Owes(call[t], s) =>
              Cardinality(Pending(s)) = Cardinality(Pending(s)') + 1
<1>1. Pending(s)' = {u \in Threads : Owes(call'[u], s)}
  BY DEF Pending, Owes
<1>2. IsFiniteSet(Pending(s)) /\ Cardinality(Pending(s)) \in Nat
  BY PendingFinite
<1>3. IsFiniteSet(Pending(s)') /\ Cardinality(Pending(s)') \in Nat
  <2>1. Pending(s)' \subseteq Threads
    BY <1>1
  <2> QED
    BY <2>1, FS_Subset, FS_CardinalityType, ObserverAssumption
<1>4. CASE Owes(call'[t], s) <=> Owes(call[t], s)
  <2>1. Pending(s)' = Pending(s)
    BY <1>1, <1>4 DEF Pending
  <2> QED
    BY <1>2, <1>3, <1>4, <2>1
<1>5. CASE Owes(call'[t], s) /\ ~Owes(call[t], s)
  <2>1. Pending(s)' = Pending(s) \cup {t} /\ t \notin Pending(s)
    BY <1>1, <1>5 DEF Pending
  <2>2. Cardinality(Pending(s) \cup {t}) = Cardinality(Pending(s)) + 1
    BY <1>2, <2>1, FS_AddElement
  <2> QED
    BY <1>3, <1>5, <2>1, <2>2
<1>6. CASE ~Owes(call'[t], s) /\ Owes(call[t], s)
  <2>1. Pending(s) = Pending(s)' \cup {t} /\ t \notin Pending(s)'
    BY <1>1, <1>6 DEF Pending
  <2>2. Cardinality(Pending(s)' \cup {t}) = Cardinality(Pending(s)') + 1
    BY <1>3, <2>1, FS_AddElement
  <2> QED
    BY <1>3, <1>6, <2>1, <2>2
<1> QED
  BY <1>3, <1>4, <1>5, <1>6

(* What is left to show of a step of one hook.                             *)
LEMMA HookKeeps ==
  ASSUME IInv, NEW t \in Threads, UNCHANGED HookOnly,
         call' \in [Threads -> CallRecord],
         \A u \in Threads \ {t} : call'[u] = call[u],
         CallOf(t)', entered' \in 0..MaxCalls,
         calls' \in [Stores -> Nat], dropped' \in [Stores -> Nat],
         accepted' \in [Stores -> Nat],
         \A s \in Stores :
           /\ accepted[s] =< accepted'[s] /\ accepted'[s] =< Room
           /\ InPass(s) \/ accepted'[s] = accepted[s],
         Counted', CapturesHaveAWriter'
  PROVE  IInv'
<1>1. UNCHANGED <<config, main, told, patched, published, experiment, aborted,
                  writerReady, active, writer, limit, taken, written, logged, atPass>>
  BY DEF HookOnly, install, logVars
<1>2. \A s \in Stores : accepted'[s] + dropped'[s] =< calls'[s]
  <2> SUFFICES ASSUME NEW s \in Stores PROVE accepted'[s] + dropped'[s] =< calls'[s]
    OBVIOUS
  <2>1. Cardinality(Pending(s)') \in Nat
    BY PendingMoves
  <2>2. accepted'[s] + dropped'[s] + Cardinality(Pending(s)') =< calls'[s]
    BY DEF Counted
  <2>3. accepted'[s] \in Nat /\ dropped'[s] \in Nat /\ calls'[s] \in Nat
    OBVIOUS
  <2> QED
    BY <2>1, <2>2, <2>3
<1>3. \A s \in Stores : written'[s] =< taken'[s] /\ taken'[s] =< accepted'[s]
  <2> SUFFICES ASSUME NEW s \in Stores
               PROVE  written[s] =< taken[s] /\ taken[s] =< accepted'[s]
    BY <1>1
  <2>1. /\ written[s] =< taken[s] /\ taken[s] =< accepted[s]
        /\ taken[s] \in Nat /\ accepted[s] \in Nat
    BY DEF IInv, TypeOK
  <2>2. accepted[s] =< accepted'[s] /\ accepted'[s] \in Nat
    OBVIOUS
  <2> QED
    BY <2>1, <2>2
<1>4. TypeOK'
  BY <1>1, <1>2, <1>3 DEF IInv, TypeOK
<1>5. MainOf' /\ WriterOf' /\ CountsCoverTheLog' /\ LossOf'
  BY <1>1 DEF IInv, MainOf, WriterOf, CountsCoverTheLog, LossOf, InPass
<1>6. \A u \in Threads \ {t} : CallOf(u)'
  BY <1>1 DEF IInv, CallOf, InPass
<1>7. PassOf'
  <2>1. \A s \in Stores : atPass[s] =< accepted'[s] /\ (~InPass(s) => accepted'[s] = 0)
    BY SMTT(20) DEF IInv, TypeOK, PassOf
  <2> QED
    BY <1>1, <2>1 DEF IInv, PassOf, InPass
<1> QED
  BY <1>4, <1>5, <1>6, <1>7 DEF IInv

(* A call that moves on keeps its hook, and the other calls stay.          *)
LEMMA GotoRecord ==
  ASSUME TypeOK, NEW t \in Threads, NEW pc \in {"original", "count", "capture"}, Goto(t, pc)
  PROVE  /\ call' \in [Threads -> CallRecord]
         /\ \A u \in Threads \ {t} : call'[u] = call[u]
         /\ call'[t].pc = pc /\ call'[t].hook = call[t].hook
BY DEF TypeOK, Goto, CallRecord

(* A call that ends owes nothing to any store.                             *)
LEMMA EndRecord ==
  ASSUME TypeOK, NEW t \in Threads, End(t)
  PROVE  /\ call' \in [Threads -> CallRecord]
         /\ \A u \in Threads \ {t} : call'[u] = call[u]
         /\ call'[t].pc = "idle" /\ CallOf(t)' /\ \A s : ~Owes(call'[t], s)
<1>1. NoCall \in CallRecord /\ NoCall.pc = "idle"
  BY DEF NoCall, CallRecord
<1>2. call'[t] = NoCall
  BY DEF TypeOK, End
<1> QED
  BY <1>1, <1>2 DEF TypeOK, End, CallOf, Owes

(* What the steps of the hooks need of the invariant.                      *)
LEMMA HookTypes ==
  ASSUME IInv
  PROVE  /\ TypeOK /\ entered \in 0..MaxCalls /\ call \in [Threads -> CallRecord]
         /\ calls \in [Stores -> Nat] /\ dropped \in [Stores -> Nat]
         /\ accepted \in [Stores -> Nat]
         /\ \A s \in Stores : /\ accepted[s] =< accepted[s] /\ accepted[s] =< Room
                              /\ accepted[s] + dropped[s] + Cardinality(Pending(s)) =< calls[s]
         /\ CapturesHaveAWriter
BY DEF IInv, TypeOK, Counted

(* A hook has a store, and only the serializer has its own.                *)
LEMMA StoreOfHook ==
  ASSUME NEW h \in Hooks
  PROVE  /\ StoreOf(h) \in Stores /\ (StoreOf(h) = "serializer" <=> h = "serializer")
         /\ h # "serializer" => StoreOf(h) \in DOMAIN Off
BY DEF Hooks, Functions, StoreOf, Stores, Off

(* A serializer call is counted, and pending, from its first step; another *)
(* store's call only from its count.                                       *)
LEMMA EnterStep ==
  ASSUME IInv, NEW t \in Threads, NEW h \in Hooks, Enter(t, h)
  PROVE  IInv'
<1> DEFINE s == StoreOf(h)
           recording == s \in DOMAIN Off /\ active[s]
           new == IF h # "application"
                    THEN [pc |-> "original", hook |-> h, record |-> recording]
                  ELSE IF recording
                    THEN [pc |-> "count", hook |-> h, record |-> TRUE]
                  ELSE NoCall
<1>1. /\ h \in patched /\ call[t].pc = "idle" /\ entered < MaxCalls
      /\ entered' = entered + 1 /\ call' = [call EXCEPT ![t] = new]
      /\ calls' = IF h = "serializer" THEN [calls EXCEPT ![h] = @ + 1] ELSE calls
      /\ UNCHANGED <<dropped, accepted, HookOnly>>
  BY DEF Enter, MayEnter
<1>2. /\ recording \in BOOLEAN
      /\ recording \/ h = "serializer" => writer.pc # "none" /\ InPass(s)
  BY <1>1, StoreOfHook DEF IInv, MainOf, InPass
<1>3. /\ new \in CallRecord
      /\ new.pc # "idle" => new.hook \in Hooks
      /\ new.pc = "original" /\ (new.record \/ new.hook = "serializer")
           => writer.pc # "none" /\ InPass(StoreOf(new.hook))
      /\ new.pc \in {"count", "capture"} =>
           writer.pc # "none" /\ InPass(StoreOf(new.hook)) /\ new.pc = "count"
      /\ new.pc = "count" => new.hook # "serializer"
      /\ \A r \in Stores : Owes(new, r) <=> h = "serializer" /\ r = "serializer"
  <2> HIDE DEF recording
  <2>1. CASE h # "application"
    BY <1>2, <2>1, StoreOfHook DEF CallRecord, Owes
  <2>2. CASE h = "application" /\ recording
    BY <1>2, <2>2 DEF CallRecord, Owes
  <2>3. CASE h = "application" /\ ~recording
    BY <2>3 DEF CallRecord, Owes, NoCall
  <2> QED
    BY <1>2, <2>1, <2>2, <2>3
<1> HIDE DEF new
<1>4. /\ call' \in [Threads -> CallRecord] /\ call'[t] = new
      /\ \A u \in Threads \ {t} : call'[u] = call[u]
  BY <1>1, <1>3, HookTypes
<1>5. CallOf(t)'
  BY <1>1, <1>3, <1>4 DEF CallOf, HookOnly, InPass
<1>6. calls' \in [Stores -> Nat] /\ calls["serializer"] + 1 \in Nat
      /\ (h = "serializer" => calls'["serializer"] = calls["serializer"] + 1)
      /\ \A r \in Stores : r # "serializer" \/ h # "serializer" => calls'[r] = calls[r]
  <2>1. calls["serializer"] + 1 \in Nat /\ "serializer" \in Stores
    BY HookTypes DEF Stores
  <2> QED
    BY <1>1, <2>1, HookTypes
<1>7. Counted'
  <2> SUFFICES ASSUME NEW r \in Stores
               PROVE  accepted'[r] + dropped'[r] + Cardinality(Pending(r)') =< calls'[r]
    BY DEF Counted
  <2>1. accepted[r] + dropped[r] + Cardinality(Pending(r)) =< calls[r]
    BY HookTypes
  <2>2. ~Owes(call[t], r)
    BY <1>1 DEF Owes
  <2>3. /\ calls[r] \in Nat /\ accepted[r] \in Nat /\ dropped[r] \in Nat
        /\ accepted'[r] = accepted[r] /\ dropped'[r] = dropped[r]
        /\ Cardinality(Pending(r)) \in Nat
    BY <1>1, HookTypes, PendingFinite
  <2>4. CASE h = "serializer" /\ r = "serializer"
    <3>1. Cardinality(Pending(r)') = Cardinality(Pending(r)) + 1
      BY <1>3, <1>4, <2>2, <2>4, PendingMoves
    <3> QED
      BY <1>6, <2>1, <2>3, <2>4, <3>1
  <2>5. CASE ~(h = "serializer" /\ r = "serializer")
    <3>1. Cardinality(Pending(r)') = Cardinality(Pending(r))
      BY <1>3, <1>4, <2>2, <2>5, PendingMoves
    <3> QED
      BY <1>6, <2>1, <2>3, <2>5, <3>1
  <2> QED
    BY <2>4, <2>5
<1>8. CapturesHaveAWriter'
  BY <1>1, HookTypes DEF CapturesHaveAWriter, HookOnly
<1>9. entered' \in 0..MaxCalls
  BY <1>1, HookTypes, ObserverAssumption
<1> QED
  BY <1>1, <1>4, <1>5, <1>6, <1>7, <1>8, <1>9, HookTypes, HookKeeps

(* A step of one hook that adds to none of the counters.                   *)
LEMMA UncountedKeeps ==
  ASSUME IInv, NEW t \in Threads, UNCHANGED <<entered, calls, dropped, accepted, HookOnly>>,
         call' \in [Threads -> CallRecord], \A u \in Threads \ {t} : call'[u] = call[u],
         CallOf(t)', \A s \in Stores : Owes(call'[t], s) => Owes(call[t], s)
  PROVE  IInv'
<1>1. Counted'
  <2> SUFFICES ASSUME NEW r \in Stores
               PROVE  accepted[r] + dropped[r] + Cardinality(Pending(r)') =< calls[r]
    BY DEF Counted
  <2>1. accepted[r] + dropped[r] + Cardinality(Pending(r)) =< calls[r]
    BY HookTypes
  <2>2. /\ calls[r] \in Nat /\ accepted[r] \in Nat /\ dropped[r] \in Nat
        /\ Cardinality(Pending(r)) \in Nat
    BY HookTypes, PendingFinite
  <2>3. Cardinality(Pending(r)') \in Nat /\ Cardinality(Pending(r)') =< Cardinality(Pending(r))
    BY <2>2, PendingMoves
  <2> QED
    BY <2>1, <2>2, <2>3
<1>2. CapturesHaveAWriter'
  BY HookTypes DEF CapturesHaveAWriter, HookOnly
<1> QED
  BY <1>1, <1>2, HookTypes, HookKeeps

(* After the original the serializer's call captures, any other is counted *)
(* if it records.                                                          *)
LEMMA AfterOriginalStep ==
  ASSUME IInv, NEW t \in Threads, AfterOriginal(t)
  PROVE  IInv'
<1>1. /\ call[t].pc = "original" /\ UNCHANGED <<entered, calls, dropped, accepted, HookOnly>>
      /\ \/ call[t].hook = "serializer" /\ Goto(t, "capture")
         \/ call[t].hook # "serializer" /\ call[t].record /\ Goto(t, "count")
         \/ End(t)
  BY DEF AfterOriginal
<1>2. CallOf(t)
  BY DEF IInv
<1>3. CASE call[t].hook = "serializer" /\ Goto(t, "capture")
  <2>1. /\ call' \in [Threads -> CallRecord] /\ \A u \in Threads \ {t} : call'[u] = call[u]
        /\ call'[t].pc = "capture" /\ call'[t].hook = "serializer"
    BY <1>3, HookTypes, GotoRecord
  <2>2. CallOf(t)'
    BY <1>1, <1>2, <1>3, <2>1 DEF CallOf, HookOnly, InPass
  <2>3. \A s \in Stores : Owes(call'[t], s) => Owes(call[t], s)
    BY <1>1, <1>3, <2>1, StoreOfHook DEF Owes
  <2> QED
    BY <1>1, <2>1, <2>2, <2>3, UncountedKeeps
<1>4. CASE call[t].hook # "serializer" /\ call[t].record /\ Goto(t, "count")
  <2>1. /\ call' \in [Threads -> CallRecord] /\ \A u \in Threads \ {t} : call'[u] = call[u]
        /\ call'[t].pc = "count" /\ call'[t].hook = call[t].hook
    BY <1>4, HookTypes, GotoRecord
  <2>2. CallOf(t)'
    BY <1>1, <1>2, <1>4, <2>1 DEF CallOf, HookOnly, InPass
  <2>3. \A s \in Stores : ~Owes(call'[t], s)
    BY <2>1 DEF Owes
  <2> QED
    BY <1>1, <2>1, <2>2, <2>3, UncountedKeeps
<1>5. CASE End(t)
  BY <1>1, <1>5, EndRecord, HookTypes, UncountedKeeps
<1> QED
  BY <1>1, <1>3, <1>4, <1>5

(* A call that is counted becomes pending in the same step.                *)
LEMMA CountStep ==
  ASSUME IInv, NEW t \in Threads, Count(t)
  PROVE  IInv'
<1> DEFINE h == call[t].hook
           s == StoreOf(h)
<1>1. /\ call[t].pc = "count" /\ calls' = [calls EXCEPT ![s] = @ + 1] /\ Goto(t, "capture")
      /\ UNCHANGED <<entered, dropped, accepted, HookOnly>>
  BY DEF Count
<1>2. /\ h \in Hooks /\ h # "serializer" /\ writer.pc # "none" /\ InPass(s)
      /\ s \in Stores /\ s # "serializer"
  BY <1>1, StoreOfHook DEF IInv, CallOf
<1>3. /\ call' \in [Threads -> CallRecord] /\ \A u \in Threads \ {t} : call'[u] = call[u]
      /\ call'[t].pc = "capture" /\ call'[t].hook = h
  BY <1>1, HookTypes, GotoRecord
<1>4. CallOf(t)'
  BY <1>1, <1>2, <1>3 DEF CallOf, HookOnly, InPass
<1>5. calls' \in [Stores -> Nat] /\ calls'[s] = calls[s] + 1
      /\ \A r \in Stores \ {s} : calls'[r] = calls[r]
  <2>1. calls[s] + 1 \in Nat
    BY <1>2, HookTypes
  <2> HIDE DEF s
  <2> QED
    BY <1>1, <1>2, <2>1, HookTypes
<1>6. Counted'
  <2> SUFFICES ASSUME NEW r \in Stores
               PROVE  accepted'[r] + dropped'[r] + Cardinality(Pending(r)') =< calls'[r]
    BY DEF Counted
  <2>1. accepted[r] + dropped[r] + Cardinality(Pending(r)) =< calls[r]
    BY HookTypes
  <2>2. /\ calls[r] \in Nat /\ accepted[r] \in Nat /\ dropped[r] \in Nat
        /\ accepted'[r] = accepted[r] /\ dropped'[r] = dropped[r]
        /\ Cardinality(Pending(r)) \in Nat
    BY <1>1, HookTypes, PendingFinite
  <2>3. ~Owes(call[t], r) /\ (Owes(call'[t], r) <=> r = s)
    BY <1>1, <1>2, <1>3 DEF Owes
  <2>4. CASE r = s
    <3>1. Cardinality(Pending(r)') = Cardinality(Pending(r)) + 1
      BY <1>3, <2>3, <2>4, PendingMoves
    <3> QED
      BY <1>5, <2>1, <2>2, <2>4, <3>1
  <2>5. CASE r # s
    <3>1. Cardinality(Pending(r)') = Cardinality(Pending(r))
      BY <1>3, <2>3, <2>5, PendingMoves
    <3> QED
      BY <1>5, <2>1, <2>2, <2>5, <3>1
  <2> QED
    BY <2>4, <2>5
<1>7. CapturesHaveAWriter'
  BY <1>1, HookTypes DEF CapturesHaveAWriter, HookOnly
<1> QED
  BY <1>1, <1>3, <1>4, <1>5, <1>6, <1>7, HookTypes, HookKeeps

(* A call in capture is pending in its store and no other.                 *)
LEMMA CaptureOwes ==
  ASSUME IInv, NEW t \in Threads, call[t].pc = "capture"
  PROVE  /\ StoreOf(call[t].hook) \in Stores /\ writer.pc # "none"
         /\ InPass(StoreOf(call[t].hook))
         /\ (call[t].hook = "serializer" <=> StoreOf(call[t].hook) = "serializer")
         /\ \A r \in Stores : Owes(call[t], r) <=> r = StoreOf(call[t].hook)
<1>1. call[t].hook \in Hooks /\ writer.pc # "none" /\ InPass(StoreOf(call[t].hook))
  BY DEF IInv, CallOf
<1> QED
  BY <1>1, StoreOfHook DEF Owes

(* A capture takes the place of a pending call in the count.               *)
LEMMA AcceptStep ==
  ASSUME IInv, NEW t \in Threads, Accept(t)
  PROVE  IInv'
<1> DEFINE s == StoreOf(call[t].hook)
<1>1. /\ call[t].pc = "capture" /\ accepted[s] < Room /\ End(t)
      /\ accepted' = [accepted EXCEPT ![s] = @ + 1]
      /\ UNCHANGED <<entered, calls, dropped, HookOnly>>
  BY DEF Accept
<1>2. /\ s \in Stores /\ writer.pc # "none" /\ InPass(s)
      /\ \A r \in Stores : Owes(call[t], r) <=> r = s
  BY <1>1, CaptureOwes
<1>3. /\ call' \in [Threads -> CallRecord] /\ \A u \in Threads \ {t} : call'[u] = call[u]
      /\ CallOf(t)' /\ \A r : ~Owes(call'[t], r)
  BY <1>1, HookTypes, EndRecord
<1>4. /\ accepted' \in [Stores -> Nat] /\ accepted'[s] = accepted[s] + 1
      /\ \A r \in Stores \ {s} : accepted'[r] = accepted[r]
  <2>1. accepted[s] + 1 \in Nat
    BY <1>2, HookTypes
  <2> HIDE DEF s
  <2> QED
    BY <1>1, <1>2, <2>1, HookTypes
<1>5. \A r \in Stores : /\ accepted[r] =< accepted'[r] /\ accepted'[r] =< Room
                        /\ InPass(r) \/ accepted'[r] = accepted[r]
  <2> HIDE DEF s
  <2> QED
    BY <1>1, <1>2, <1>4, HookTypes, ObserverAssumption
<1>6. Counted'
  <2> SUFFICES ASSUME NEW r \in Stores
               PROVE  accepted'[r] + dropped'[r] + Cardinality(Pending(r)') =< calls'[r]
    BY DEF Counted
  <2>1. accepted[r] + dropped[r] + Cardinality(Pending(r)) =< calls[r]
    BY HookTypes
  <2>2. /\ calls[r] \in Nat /\ accepted[r] \in Nat /\ dropped[r] \in Nat
        /\ calls'[r] = calls[r] /\ dropped'[r] = dropped[r]
        /\ Cardinality(Pending(r)) \in Nat /\ Cardinality(Pending(r)') \in Nat
    BY <1>1, <1>3, HookTypes, PendingFinite, PendingMoves
  <2>3. CASE r = s
    <3>1. Cardinality(Pending(r)) = Cardinality(Pending(r)') + 1
      BY <1>2, <1>3, <2>3, PendingMoves
    <3> QED
      BY <1>4, <2>1, <2>2, <2>3, <3>1
  <2>4. CASE r # s
    <3>1. Cardinality(Pending(r)') = Cardinality(Pending(r))
      BY <1>2, <1>3, <2>4, PendingMoves
    <3> QED
      BY <1>4, <2>1, <2>2, <2>4, <3>1
  <2> QED
    BY <2>3, <2>4
<1>7. CapturesHaveAWriter'
  BY <1>1, <1>2 DEF CapturesHaveAWriter, HookOnly
<1> QED
  BY <1>1, <1>3, <1>4, <1>5, <1>6, <1>7, HookTypes, HookKeeps

(* So does a drop.                                                         *)
LEMMA DropStep ==
  ASSUME IInv, NEW t \in Threads, Drop(t)
  PROVE  IInv'
<1> DEFINE s == StoreOf(call[t].hook)
<1>1. /\ call[t].pc = "capture" /\ End(t) /\ UNCHANGED <<entered, calls, accepted, HookOnly>>
      /\ dropped' = IF call[t].hook = "serializer" THEN dropped
                    ELSE [dropped EXCEPT ![s] = @ + 1]
  BY DEF Drop
<1>2. /\ s \in Stores /\ writer.pc # "none" /\ \A r \in Stores : Owes(call[t], r) <=> r = s
  BY <1>1, CaptureOwes
<1>3. /\ call' \in [Threads -> CallRecord] /\ \A u \in Threads \ {t} : call'[u] = call[u]
      /\ CallOf(t)' /\ \A r : ~Owes(call'[t], r)
  BY <1>1, HookTypes, EndRecord
<1>4. /\ dropped' \in [Stores -> Nat] /\ dropped'[s] \in {dropped[s], dropped[s] + 1}
      /\ \A r \in Stores \ {s} : dropped'[r] = dropped[r]
  <2>1. dropped[s] + 1 \in Nat
    BY <1>2, HookTypes
  <2> HIDE DEF s
  <2> QED
    BY <1>1, <1>2, <2>1, HookTypes
<1>5. Counted'
  <2> SUFFICES ASSUME NEW r \in Stores
               PROVE  accepted'[r] + dropped'[r] + Cardinality(Pending(r)') =< calls'[r]
    BY DEF Counted
  <2>1. accepted[r] + dropped[r] + Cardinality(Pending(r)) =< calls[r]
    BY HookTypes
  <2>2. /\ calls[r] \in Nat /\ accepted[r] \in Nat /\ dropped[r] \in Nat
        /\ calls'[r] = calls[r] /\ accepted'[r] = accepted[r]
        /\ Cardinality(Pending(r)) \in Nat /\ Cardinality(Pending(r)') \in Nat
    BY <1>1, <1>3, HookTypes, PendingFinite, PendingMoves
  <2>3. CASE r = s
    <3>1. Cardinality(Pending(r)) = Cardinality(Pending(r)') + 1
      BY <1>2, <1>3, <2>3, PendingMoves
    <3>2. dropped'[r] = dropped[r] \/ dropped'[r] = dropped[r] + 1
      BY <1>4, <2>3
    <3> QED
      BY <2>1, <2>2, <3>1, <3>2
  <2>4. CASE r # s
    <3>1. Cardinality(Pending(r)') = Cardinality(Pending(r))
      BY <1>2, <1>3, <2>4, PendingMoves
    <3> QED
      BY <1>4, <2>1, <2>2, <2>4, <3>1
  <2> QED
    BY <2>3, <2>4
<1>6. CapturesHaveAWriter'
  BY <1>1, <1>2 DEF CapturesHaveAWriter, HookOnly
<1> QED
  BY <1>1, <1>3, <1>4, <1>5, <1>6, HookTypes, HookKeeps

(* A call that finds no original ends the process, which can only happen   *)
(* while install publishes that function.                                  *)
LEMMA EnterTooEarlyStep ==
  ASSUME IInv, NEW t \in Threads, NEW h \in Hooks, EnterTooEarly(t, h)
  PROVE  IInv'
<1>1. Abort /\ h \in (patched \cap Functions) \ published
  BY DEF EnterTooEarly, MayEnter
<1> QED
  BY <1>1, AbortKeeps DEF IInv, MainOf

-----------------------------------------------------------------------------
(* The writer thread *)

(* The record of a writer that is done with its stores.                    *)
LEMMA WriterFlushes ==
  \A w \in WriterRecord :
    LET v == [w EXCEPT !.pc = "flush", !.stage = "none"]
    IN  v \in WriterRecord /\ v.pc = "flush" /\ v.stage = "none"
BY DEF WriterRecord

(* A pass visits the stores that record, each once and in order, the       *)
(* serializer's last.                                                      *)
LEMMA StagesInOrder ==
  ASSUME TypeOK
  PROVE  LET S == Stages[config] IN
         /\ Len(S) \in Nat \ {0} /\ DOMAIN S = 1..Len(S) /\ S[Len(S)] = "serializer"
         /\ \A i \in DOMAIN S : S[i] \in Stores /\ InPass(S[i])
         /\ \A s \in Stores : InPass(s) => \E i \in DOMAIN S : S[i] = s
         /\ \A i, j \in DOMAIN S : i < j => Rank[S[i]] < Rank[S[j]]
<1> DEFINE S == Stages[config]
<1>1. /\ S = If(config.codec, <<"codec">>) \o If(config.application, <<"application">>)
               \o <<"serializer">>
      /\ config.codec \in BOOLEAN /\ config.application \in BOOLEAN
  BY ObserverAssumption DEF TypeOK, Stages, Config
<1>2. CASE ~config.codec /\ ~config.application
  <2>1. Len(S) = 1 /\ DOMAIN S = 1..1 /\ S[1] = "serializer"
    BY <1>1, <1>2 DEF If
  <2> HIDE DEF S
  <2> QED
    BY <1>2, <2>1 DEF Stores, InPass, Rank, S
<1>3. CASE config.codec /\ ~config.application
  <2>1. Len(S) = 2 /\ DOMAIN S = 1..2 /\ S[1] = "codec" /\ S[2] = "serializer"
    BY <1>1, <1>3 DEF If
  <2> QED
    BY <1>3, <2>1 DEF Stores, InPass, Rank
<1>4. CASE ~config.codec /\ config.application
  <2>1. Len(S) = 2 /\ DOMAIN S = 1..2 /\ S[1] = "application" /\ S[2] = "serializer"
    BY <1>1, <1>4 DEF If
  <2> QED
    BY <1>4, <2>1 DEF Stores, InPass, Rank
<1>5. CASE config.codec /\ config.application
  <2>1. /\ Len(S) = 3 /\ DOMAIN S = 1..3
        /\ S[1] = "codec" /\ S[2] = "application" /\ S[3] = "serializer"
    BY <1>1, <1>5 DEF If
  <2> QED
    BY <1>5, <2>1 DEF Stores, InPass, Rank
<1> QED
  BY <1>1, <1>2, <1>3, <1>4, <1>5

(* Where writer w goes on when the stores before s, and s, are done.       *)
Follows(w, s) ==
  /\ w \in WriterRecord
  /\ \/ w.pc = "flush" /\ s = "serializer"
     \/ /\ w.pc = "drain" /\ w.stage \in Stores /\ InPass(w.stage)
        /\ w.due = accepted[w.stage] - taken[w.stage]
        /\ \A r \in Stores : Rank[r] < Rank[w.stage] =>
             r = s \/ Rank[r] < Rank[s] \/ ~InPass(r)

(* A pass over a store begins with what was accepted.                      *)
LEMMA BeginRecord ==
  ASSUME TypeOK, NEW s \in Stores
  PROVE  /\ Begin(s) \in WriterRecord /\ Begin(s).pc = "drain" /\ Begin(s).stage = s
         /\ Begin(s).due = accepted[s] - taken[s]
<1> DEFINE d == accepted[s] - taken[s]
<1>1. writer \in WriterRecord /\ d \in Nat
  BY DEF TypeOK
<1> HIDE DEF d
<1>2. LET v == [writer EXCEPT !.pc = "drain", !.stage = s, !.due = d]
      IN  v \in WriterRecord /\ v.pc = "drain" /\ v.stage = s /\ v.due = d
  BY <1>1 DEF WriterRecord
<1> QED
  BY <1>2 DEF d, Begin

(* After a store comes the next one of the configuration, or the flush.    *)
LEMMA AfterStageRecord ==
  ASSUME TypeOK, NEW s \in Stores, InPass(s)
  PROVE  Follows(AfterStage(s), s)
<1> DEFINE S == Stages[config]
           j == CHOOSE i \in DOMAIN S : S[i] = s
<1>1. /\ Len(S) \in Nat \ {0} /\ DOMAIN S = 1..Len(S) /\ S[Len(S)] = "serializer"
      /\ \A i \in DOMAIN S : S[i] \in Stores /\ InPass(S[i])
      /\ \A r \in Stores : InPass(r) => \E i \in DOMAIN S : S[i] = r
      /\ \A i, k \in DOMAIN S : i < k => Rank[S[i]] < Rank[S[k]]
  BY StagesInOrder
<1>2. CASE s = "serializer"
  BY <1>2, WriterFlushes DEF AfterStage, TypeOK, Follows
<1>3. CASE s # "serializer"
  <2>1. j \in DOMAIN S /\ S[j] = s
    BY <1>1
  <2>2. AfterStage(s) = Begin(S[j + 1])
    BY <1>3 DEF AfterStage
  <2> HIDE DEF j
  <2>3. j \in 1..Len(S) /\ j # Len(S)
    BY <1>1, <1>3, <2>1
  <2>4. j + 1 \in DOMAIN S
    <3>1. j + 1 \in 1..Len(S)
      BY <1>1, <2>3
    <3> QED
      BY <1>1, <3>1
  <2>5. S[j + 1] \in Stores /\ InPass(S[j + 1])
    BY <1>1, <2>4
  <2>6. \A r \in Stores : Rank[r] < Rank[S[j + 1]] => r = s \/ Rank[r] < Rank[s] \/ ~InPass(r)
    <3> SUFFICES ASSUME NEW r \in Stores, Rank[r] < Rank[S[j + 1]], InPass(r)
                 PROVE  r = s \/ Rank[r] < Rank[s]
      OBVIOUS
    <3>1. PICK i \in DOMAIN S : S[i] = r
      BY <1>1
    <3>2. ~(j + 1 < i) /\ i # j + 1
      <4>1. \A x \in Stores : Rank[x] \in Nat
        BY DEF Stores, Rank
      <4> QED
        BY <1>1, <2>4, <2>5, <3>1, <4>1
    <3>3. i = j \/ i < j
      <4>1. i \in Int /\ j \in Int
        BY <1>1, <2>3, <3>1
      <4> QED
        BY <3>2, <4>1
    <3> QED
      BY <1>1, <2>1, <3>1, <3>3
  <2> QED
    BY <2>2, <2>5, <2>6, BeginRecord DEF Follows
<1> QED
  BY <1>2, <1>3

-----------------------------------------------------------------------------
(* The steps of the writer *)

(* The places of a writer that has not stopped.                            *)
Running == {"sleep", "status", "limit", "drain", "count", "log", "flush"}

(* What is left to show of a step of the writer: it stays alive, takes     *)
(* nothing that was not accepted and only turns flags off.                 *)
LEMMA WriterKeeps ==
  ASSUME IInv, writer.pc # "none", UNCHANGED OutsideWriter,
         writer' \in WriterRecord, writer'.pc # "none",
         writerReady' \in BOOLEAN, writerReady' => writerReady,
         active' \in [DOMAIN Off -> BOOLEAN], \A s \in DOMAIN Off : active'[s] => active[s],
         taken' \in [Stores -> Nat], written' \in [Stores -> Nat],
         \A s \in Stores : written'[s] =< taken'[s] /\ taken'[s] =< accepted[s],
         logged' \in [Stores -> [line : BOOLEAN, count : Nat \X Nat, written : Nat]],
         atPass' \in [Stores -> Nat],
         CountsCoverTheLog', WriterOf', PassOf', LossOf'
  PROVE  IInv'
<1>1. UNCHANGED <<config, main, told, patched, published, experiment, aborted, limit, call,
                  entered, calls, dropped, accepted>>
  BY DEF OutsideWriter, install, hookVars
<1>2. TypeOK'
  BY <1>1 DEF IInv, TypeOK
<1>3. MainOf'
  BY <1>1 DEF IInv, MainOf, InPass
<1>4. \A t \in Threads : CallOf(t)'
  BY <1>1 DEF IInv, CallOf, InPass
<1>5. Counted'
  BY <1>1 DEF IInv, Counted, Pending
<1>6. CapturesHaveAWriter'
  BY DEF CapturesHaveAWriter
<1> QED
  BY <1>2, <1>3, <1>4, <1>5, <1>6 DEF IInv

(* A running writer has written all it took.                               *)
LEMMA NothingLost ==
  ASSUME IInv, writer.pc \in Running
  PROVE  \A s \in Stores : taken[s] = written[s]
BY DEF IInv, LossOf, Running

(* A step that moves only the writer itself.                               *)
LEMMA QuietKeeps ==
  ASSUME IInv, writer.pc \in Running, UNCHANGED Quiet,
         writer' \in WriterRecord, writer'.pc # "none", WriterOf', PassOf'
  PROVE  IInv'
<1>1. UNCHANGED <<writerReady, active, taken, written, logged, OutsideWriter, atPass>>
  BY DEF Quiet, logVars, WriterOnly
<1>2. /\ writerReady \in BOOLEAN /\ active \in [DOMAIN Off -> BOOLEAN]
      /\ taken \in [Stores -> Nat] /\ written \in [Stores -> Nat]
      /\ \A s \in Stores : written[s] =< taken[s] /\ taken[s] =< accepted[s]
      /\ logged \in [Stores -> [line : BOOLEAN, count : Nat \X Nat, written : Nat]]
      /\ atPass \in [Stores -> Nat]
  BY DEF IInv, TypeOK
<1>3. CountsCoverTheLog'
  BY <1>1 DEF IInv, CountsCoverTheLog
<1>4. LossOf'
  BY <1>1, NothingLost DEF LossOf
<1>5. writer.pc # "none"
  BY DEF Running
<1> QED
  BY <1>1, <1>2, <1>3, <1>4, <1>5, WriterKeeps

(* Neither WriterOf nor a pass asks anything of a writer that stops, or of *)
(* one that moves between its passes.                                      *)
LEMMA PlainKeeps ==
  ASSUME IInv, UNCHANGED Quiet, writer' \in WriterRecord,
         \/ writer.pc \in Running /\ writer'.pc = "stop_ready"
         \/ /\ writer.pc \in {"sleep", "status", "limit", "flush"}
            /\ writer'.pc \in {"sleep", "status", "limit"}
  PROVE  IInv'
<1>1. WriterOf'
  BY DEF WriterOf
<1>2. UNCHANGED <<config, accepted, written, atPass>>
  BY DEF Quiet, logVars, WriterOnly, OutsideWriter, hookVars
<1>3. PassOf'
  BY <1>2 DEF IInv, PassOf, InPass
<1>4. writer.pc \in Running /\ writer'.pc # "none"
  BY DEF Running
<1> QED
  BY <1>1, <1>3, <1>4, QuietKeeps

(* When a store is through and the writer goes on as w, the pass has done  *)
(* all it should so far.                                                   *)
LEMMA StageKeeps ==
  ASSUME IInv, writer.pc \in {"drain", "count", "log"}, NEW w, Follows(w, writer.stage),
         atPass[writer.stage] =< written[writer.stage],
         UNCHANGED <<config, accepted, written, atPass>>,
         writer'.pc = w.pc, writer'.stage = w.stage, writer'.due = w.due
  PROVE  PassOf' /\ WriterOf' /\ writer'.pc # "none"
<1> DEFINE s == writer.stage
<1>1. /\ s \in Stores /\ InPass(s)
      /\ \A r \in Stores : taken[r] = written[r]
      /\ \A r \in Stores : atPass[r] =< accepted[r] /\ (~InPass(r) => accepted[r] = 0)
      /\ \A r \in Stores : Rank[r] < Rank[s] => atPass[r] =< written[r]
      /\ accepted \in [Stores -> Nat] /\ written \in [Stores -> Nat]
      /\ atPass \in [Stores -> Nat]
  BY NothingLost DEF Running, IInv, WriterOf, PassOf, TypeOK
<1>2. \A r \in Stores : r = s \/ Rank[r] < Rank[s] \/ ~InPass(r) => atPass[r] =< written[r]
  BY <1>1
<1> HIDE DEF s
<1>3. CASE w.pc = "flush" /\ s = "serializer"
  <2>1. \A r \in Stores : r = s \/ Rank[r] < Rank[s]
    BY <1>3 DEF Stores, Rank
  <2>2. \A r \in Stores : atPass[r] =< written[r]
    BY <1>2, <2>1
  <2> QED
    BY <1>1, <1>3, <2>2 DEF PassOf, WriterOf, InPass
<1>4. CASE w.pc = "drain"
  <2>1. /\ w.stage \in Stores /\ InPass(w.stage)
        /\ w.due = accepted[w.stage] - taken[w.stage]
        /\ \A r \in Stores : Rank[r] < Rank[w.stage] =>
             r = s \/ Rank[r] < Rank[s] \/ ~InPass(r)
    BY <1>4 DEF Follows, s
  <2>2. \A r \in Stores : Rank[r] < Rank[w.stage] => atPass[r] =< written[r]
    BY <1>2, <2>1
  <2>3. atPass[w.stage] =< written[w.stage] + w.due
    BY <1>1, <2>1
  <2>4. WriterOf' /\ writer'.pc = "drain"
    BY <1>4, <2>1 DEF WriterOf, InPass
  <2> QED
    BY <1>1, <1>4, <2>2, <2>3, <2>4 DEF PassOf, InPass
<1> QED
  BY <1>3, <1>4 DEF Follows, s

(* What the steps of the writer need of the invariant.                     *)
LEMMA WriterTypes ==
  ASSUME IInv
  PROVE  /\ TypeOK /\ writer \in WriterRecord /\ config \in ConfigFiles
         /\ writerReady \in BOOLEAN /\ active \in [DOMAIN Off -> BOOLEAN]
         /\ taken \in [Stores -> Nat] /\ written \in [Stores -> Nat]
         /\ accepted \in [Stores -> Nat] /\ calls \in [Stores -> Nat]
         /\ dropped \in [Stores -> Nat]
         /\ logged \in [Stores -> [line : BOOLEAN, count : Nat \X Nat, written : Nat]]
         /\ atPass \in [Stores -> Nat]
         /\ \A s \in Stores :
              written[s] =< taken[s] /\ taken[s] =< accepted[s]
                /\ accepted[s] + dropped[s] =< calls[s]
         /\ WriterOf /\ CountsCoverTheLog
BY DEF IInv, TypeOK

(* The record of a writer that has noted the installation.                 *)
LEMMA WriterWoken ==
  ASSUME NEW w \in WriterRecord
  PROVE  /\ [w EXCEPT !.pc = "limit", !.recorded = TRUE] \in WriterRecord
         /\ [w EXCEPT !.pc = "limit", !.recorded = TRUE].pc = "limit"
         /\ [w EXCEPT !.pc = "sleep", !.dirty = FALSE] \in WriterRecord
         /\ [w EXCEPT !.pc = "sleep", !.dirty = FALSE].pc = "sleep"
BY DEF WriterRecord

(* Waking touches neither hooks nor counts.                                *)
LEMMA WakeStep ==
  ASSUME IInv, Wake
  PROVE  IInv'
<1>1. /\ writer.pc = "sleep" /\ UNCHANGED Quiet
      /\ \E pc \in {"status", "limit"} : writer' = [writer EXCEPT !.pc = pc]
  BY DEF Wake, WriterAt
<1>2. PICK pc \in {"status", "limit"} : writer' = [writer EXCEPT !.pc = pc]
  BY <1>1
<1>3. writer' \in WriterRecord /\ writer'.pc = pc
  <2>1. pc \in WriterPlaces /\ writer \in WriterRecord
    BY WriterTypes DEF WriterPlaces
  <2>2. [writer EXCEPT !.pc = pc] \in WriterRecord /\ [writer EXCEPT !.pc = pc].pc = pc
    BY <2>1, WriterMoved
  <2> QED
    BY <1>2, <2>2
<1> QED
  BY <1>1, <1>3, PlainKeeps

(* The first status line is written once.                                  *)
LEMMA RecordInstalledStep ==
  ASSUME IInv, RecordInstalled
  PROVE  IInv'
<1>1. /\ writer.pc = "status" /\ UNCHANGED Quiet
      /\ writer' = [writer EXCEPT !.pc = "limit", !.recorded = TRUE]
  BY DEF RecordInstalled, WriterAt
<1>2. writer' \in WriterRecord /\ writer'.pc = "limit"
  BY <1>1, WriterTypes, WriterWoken
<1> QED
  BY <1>1, <1>2, PlainKeeps

(* A flush ends a pass.                                                    *)
LEMMA FlushStep ==
  ASSUME IInv, Flush
  PROVE  IInv'
<1>1. /\ writer.pc = "flush" /\ UNCHANGED Quiet
      /\ writer' = [writer EXCEPT !.pc = "sleep", !.dirty = FALSE]
  BY DEF Flush, WriterAt
<1>2. writer' \in WriterRecord /\ writer'.pc = "sleep"
  BY <1>1, WriterTypes, WriterWoken
<1> QED
  BY <1>1, <1>2, PlainKeeps

(* A log that fails sends the writer to stop_ready, where WRITER_READY is  *)
(* ended first.                                                            *)
LEMMA LogFailsStep ==
  ASSUME IInv, LogFails
  PROVE  IInv'
<1>1. /\ writer.pc \in Running /\ UNCHANGED Quiet
      /\ writer' = [writer EXCEPT !.pc = "stop_ready"]
  BY DEF LogFails, WriterAt, Running
<1>2. writer' \in WriterRecord /\ writer'.pc = "stop_ready"
  BY <1>1, WriterTypes, WriterMoved DEF WriterPlaces
<1> QED
  BY <1>1, <1>2, PlainKeeps

(* The limit is tested before the stores are drained: a pass begins with   *)
(* all that was accepted until then still to be found.                     *)
LEMMA TestLimitStep ==
  ASSUME IInv, TestLimit
  PROVE  IInv'
<1> DEFINE s == Stages[config][1]
<1>1. /\ writer.pc = "limit" /\ writer.pc \in Running
      /\ UNCHANGED <<writerReady, active, logVars, OutsideWriter>>
      /\ \/ writer' = [writer EXCEPT !.pc = "stop_ready"] /\ atPass' = atPass
         \/ writer' = Begin(s) /\ atPass' = accepted
  BY DEF TestLimit, WriterAt, Running
<1>2. CASE writer' = [writer EXCEPT !.pc = "stop_ready"] /\ atPass' = atPass
  <2>1. writer' \in WriterRecord /\ writer'.pc = "stop_ready"
    BY <1>2, WriterTypes, WriterMoved DEF WriterPlaces
  <2>2. UNCHANGED Quiet
    BY <1>1, <1>2 DEF Quiet, WriterOnly
  <2> QED
    BY <1>1, <2>1, <2>2, PlainKeeps
<1>3. CASE writer' = Begin(s) /\ atPass' = accepted
  <2>1. s \in Stores /\ InPass(s) /\ \A r \in Stores : Rank[r] < Rank[s] => ~InPass(r)
    <3> DEFINE S == Stages[config]
    <3>1. /\ Len(S) \in Nat \ {0} /\ DOMAIN S = 1..Len(S)
          /\ \A i \in DOMAIN S : S[i] \in Stores /\ InPass(S[i])
          /\ \A r \in Stores : InPass(r) => \E i \in DOMAIN S : S[i] = r
          /\ \A i, k \in DOMAIN S : i < k => Rank[S[i]] < Rank[S[k]]
      BY WriterTypes, StagesInOrder
    <3>2. \A r \in Stores : Rank[r] \in Nat
      BY DEF Stores, Rank
    <3>3. 1 \in DOMAIN S /\ \A i \in DOMAIN S : i = 1 \/ 1 < i
      BY <3>1
    <3> HIDE DEF S
    <3> SUFFICES /\ S[1] \in Stores /\ InPass(S[1])
                 /\ \A r \in Stores : Rank[r] < Rank[S[1]] => ~InPass(r)
      BY DEF S
    <3> QED
      BY <3>1, <3>2, <3>3
  <2> HIDE DEF s
  <2>2. /\ writer' \in WriterRecord /\ writer'.pc = "drain" /\ writer'.stage = s
        /\ writer'.due = accepted[s] - taken[s]
    BY <1>3, <2>1, WriterTypes, BeginRecord
  <2>3. UNCHANGED <<config, accepted, taken, written, logged, writerReady, active>>
    BY <1>1 DEF OutsideWriter, hookVars, logVars
  <2>4. /\ \A r \in Stores : taken[r] = written[r]
        /\ \A r \in Stores : ~InPass(r) => accepted[r] = 0
        /\ accepted \in [Stores -> Nat] /\ written \in [Stores -> Nat]
    BY <1>1, WriterTypes, NothingLost DEF IInv, PassOf
  <2>5. \A r \in Stores : Rank[r] < Rank[s] => accepted[r] =< written[r]
    BY <2>1, <2>4
  <2>6. accepted[s] =< written[s] + (accepted[s] - taken[s])
    BY <2>1, <2>4
  <2>7. \A r \in Stores : accepted[r] =< accepted[r]
    BY <2>4
  <2>8. PassOf'
    BY <1>3, <2>2, <2>3, <2>4, <2>5, <2>6, <2>7 DEF PassOf, InPass
  <2>9. WriterOf' /\ LossOf' /\ CountsCoverTheLog'
    BY <2>1, <2>2, <2>3, <2>4, WriterTypes DEF WriterOf, LossOf, InPass, CountsCoverTheLog
  <2> QED
    BY <1>1, <1>3, <2>2, <2>3, <2>8, <2>9, WriterTypes, WriterKeeps
<1> QED
  BY <1>1, <1>2, <1>3

(* When nothing is due a pass goes on to the counts, or past them.         *)
LEMMA EndDrainStep ==
  ASSUME IInv, EndDrain
  PROVE  IInv'
<1>1. /\ writer.pc = "drain" /\ writer.pc \in Running /\ writer.due = 0 /\ UNCHANGED Quiet
      /\ writer' = [writer EXCEPT !.pc = "count"] \/ writer' = AfterStage(writer.stage)
  BY DEF EndDrain, WriterAt, Running
<1>2. /\ writer.stage \in Stores /\ InPass(writer.stage)
      /\ atPass[writer.stage] =< written[writer.stage]
  BY <1>1, WriterTypes DEF IInv, WriterOf, PassOf
<1>3. UNCHANGED <<config, accepted, written, atPass>>
  BY <1>1 DEF Quiet, logVars, WriterOnly, OutsideWriter, hookVars
<1>4. CASE writer' = [writer EXCEPT !.pc = "count"]
  <2>1. writer' \in WriterRecord /\ writer'.pc = "count" /\ writer'.stage = writer.stage
    BY <1>4, WriterTypes, WriterMoved DEF WriterPlaces
  <2>2. WriterOf'
    BY <1>2, <1>3, <2>1 DEF WriterOf, InPass
  <2>3. PassOf'
    BY <1>1, <1>2, <1>3, <2>1 DEF IInv, PassOf, InPass
  <2> QED
    BY <1>1, <2>1, <2>2, <2>3, QuietKeeps
<1>5. CASE writer' = AfterStage(writer.stage)
  <2>1. Follows(AfterStage(writer.stage), writer.stage)
    BY <1>2, WriterTypes, AfterStageRecord
  <2>2. PassOf' /\ WriterOf' /\ writer'.pc # "none"
    BY <1>1, <1>2, <1>3, <1>5, <2>1, StageKeeps
  <2>3. writer' \in WriterRecord
    BY <1>5, <2>1 DEF Follows
  <2> QED
    BY <1>1, <2>2, <2>3, QuietKeeps
<1> QED
  BY <1>1, <1>4, <1>5

(* A pass that has ended owes nothing.                                     *)
LEMMA StoppedPass ==
  ASSUME IInv, UNCHANGED <<config, accepted, atPass>>,
         writer'.pc \in {"stop_ready", "stop_codec", "stop_application", "exited"}
  PROVE  PassOf'
BY DEF IInv, PassOf, InPass

(* A pass stays at a store as long as that store may owe captures.         *)
LEMMA DrainingPass ==
  ASSUME IInv, UNCHANGED <<config, accepted, atPass>>,
         writer'.pc = "drain", writer'.stage = writer.stage,
         \A s \in Stores : Rank[s] < Rank[writer.stage] => atPass[s] =< written'[s],
         atPass[writer.stage] =< written'[writer.stage] + writer'.due
  PROVE  PassOf'
BY DEF IInv, PassOf, InPass

(* A capture taken by the writer, written or lost.                         *)
LEMMA TakeKeeps ==
  ASSUME IInv, UNCHANGED <<writerReady, active, logged, WriterOnly>>,
         WriterAt("drain"), taken[writer.stage] < accepted[writer.stage], Took(writer.stage),
         writer' \in WriterRecord,
         \/ UNCHANGED written /\ writer'.pc = "stop_ready"
         \/ /\ written' = [written EXCEPT ![writer.stage] = @ + 1]
            /\ writer'.pc = "drain" /\ writer'.stage = writer.stage
            /\ writer'.due = IF writer.due = 0 THEN 0 ELSE writer.due - 1
  PROVE  IInv'
<1> DEFINE s == writer.stage
<1>1. writer.pc = "drain" /\ writer.pc \in Running /\ InPass(s)
  BY WriterTypes DEF WriterAt, WriterOf, Running
<1>2. s \in Stores /\ \A r \in Stores : taken[r] = written[r]
  BY <1>1, WriterTypes, NothingLost DEF WriterOf
<1>3. taken[s] + 1 \in Nat /\ written[s] + 1 \in Nat
  BY <1>2, WriterTypes
<1>4. /\ taken' \in [Stores -> Nat] /\ taken'[s] = taken[s] + 1
      /\ \A r \in Stores \ {s} : taken'[r] = taken[r]
  <2> HIDE DEF s
  <2>1. taken' = [taken EXCEPT ![s] = @ + 1]
    BY DEF Took, s
  <2> QED
    BY <1>2, <1>3, <2>1, WriterTypes
<1>5. /\ written' \in [Stores -> Nat] /\ written'[s] \in {written[s], written[s] + 1}
      /\ \A r \in Stores \ {s} : written'[r] = written[r]
  <2> HIDE DEF s
  <2>1. CASE UNCHANGED written
    BY <1>3, <2>1, WriterTypes
  <2>2. CASE written' = [written EXCEPT ![s] = @ + 1]
    BY <1>2, <1>3, <2>2, WriterTypes
  <2> QED
    BY <2>1, <2>2 DEF s
<1>6. \A r \in Stores : written'[r] =< taken'[r] /\ taken'[r] =< accepted[r]
  <2>1. taken[s] < accepted[s]
    OBVIOUS
  <2> HIDE DEF s
  <2> SUFFICES ASSUME NEW r \in Stores
               PROVE  written'[r] =< taken'[r] /\ taken'[r] =< accepted[r]
    OBVIOUS
  <2>2. /\ written[r] \in Nat /\ taken[r] \in Nat /\ accepted[r] \in Nat
        /\ written[r] =< taken[r] /\ taken[r] =< accepted[r]
    BY WriterTypes
  <2>3. CASE r = s
    BY <1>4, <1>5, <2>1, <2>2, <2>3
  <2>4. CASE r # s
    BY <1>4, <1>5, <2>2, <2>4
  <2> QED
    BY <2>3, <2>4
<1>7. CountsCoverTheLog'
  BY WriterTypes DEF CountsCoverTheLog
<1>8. WriterOf'
  <2>1. UNCHANGED config
    BY DEF WriterOnly, OutsideWriter
  <2> QED
    BY <1>1, <1>2, <2>1 DEF WriterOf, InPass
<1>9. writer'.pc # "none" /\ writer.pc # "none"
  BY <1>1
<1>10. UNCHANGED <<config, accepted, atPass, OutsideWriter>>
  BY DEF WriterOnly, OutsideWriter, hookVars
<1>11. LossOf'
  <2>1. CASE written' = [written EXCEPT ![s] = @ + 1]
    <3>1. \A r \in Stores : taken'[r] = written'[r]
      <4> HIDE DEF s
      <4> QED
        BY <1>2, <1>4, <2>1, WriterTypes
    <3> QED
      BY <3>1 DEF LossOf
  <2>2. CASE UNCHANGED written /\ writer'.pc = "stop_ready"
    <3> HIDE DEF s
    <3>1. taken'[s] = written'[s] + 1 /\ \A r \in Stores \ {s} : taken'[r] = written'[r]
      BY <1>2, <1>4, <2>2, WriterTypes
    <3> QED
      BY <2>2, <3>1 DEF LossOf
  <2> QED
    BY <2>1, <2>2
<1>12. PassOf'
  <2>1. \A r \in Stores : Rank[r] < Rank[s] => atPass[r] =< written[r]
    BY <1>1 DEF IInv, PassOf
  <2>2. atPass[s] =< written[s] + writer.due
    BY <1>1 DEF IInv, PassOf
  <2>3. atPass \in [Stores -> Nat] /\ written \in [Stores -> Nat] /\ writer.due \in Nat
    BY WriterTypes DEF WriterRecord
  <2>4. CASE writer'.pc = "stop_ready"
    BY <1>10, <2>4, StoppedPass
  <2>5. CASE /\ written' = [written EXCEPT ![s] = @ + 1]
             /\ writer'.pc = "drain" /\ writer'.stage = s
             /\ writer'.due = IF writer.due = 0 THEN 0 ELSE writer.due - 1
    <3>1. written'[s] = written[s] + 1
      <4> HIDE DEF s
      <4> QED
        BY <1>2, <2>3, <2>5
    <3>2. \A r \in Stores : Rank[r] < Rank[s] => atPass[r] =< written'[r]
      <4> HIDE DEF s
      <4> SUFFICES ASSUME NEW r \in Stores, Rank[r] < Rank[s]
                   PROVE  atPass[r] =< written'[r]
        OBVIOUS
      <4>1. atPass[r] =< written[r] /\ written[r] \in Nat /\ atPass[r] \in Nat
        BY ONLY <2>1, <2>3, r \in Stores, Rank[r] < Rank[s]
      <4>2. written'[r] = written[r] \/ written'[r] = written[r] + 1
        BY <1>5, <3>1
      <4> QED
        BY <4>1, <4>2
    <3>3. atPass[s] =< written'[s] + writer'.due
      <4> HIDE DEF s
      <4> QED
        BY <1>2, <2>2, <2>3, <2>5, <3>1
    <3> QED
      BY <1>10, <2>5, <3>2, <3>3, DrainingPass
  <2> QED
    BY <2>4, <2>5
<1>13. atPass' \in [Stores -> Nat]
  BY <1>10, WriterTypes
<1> HIDE DEF s
<1> QED
  BY <1>4, <1>5, <1>6, <1>7, <1>8, <1>9, <1>10, <1>11, <1>12, <1>13, WriterTypes, WriterKeeps

(* The record of a writer that has written one capture.                    *)
LEMMA WriterWrites ==
  \A w \in WriterRecord :
    LET v == [w EXCEPT !.due = IF @ = 0 THEN 0 ELSE @ - 1, !.dirty = TRUE]
    IN  /\ v \in WriterRecord /\ v.pc = w.pc /\ v.stage = w.stage
        /\ v.due = IF w.due = 0 THEN 0 ELSE w.due - 1
<1> SUFFICES ASSUME NEW w \in WriterRecord
             PROVE  LET v == [w EXCEPT !.due = IF @ = 0 THEN 0 ELSE @ - 1, !.dirty = TRUE]
                    IN  /\ v \in WriterRecord /\ v.pc = w.pc /\ v.stage = w.stage
                        /\ v.due = IF w.due = 0 THEN 0 ELSE w.due - 1
  OBVIOUS
<1>1. (IF w.due = 0 THEN 0 ELSE w.due - 1) \in Nat
  BY DEF WriterRecord
<1> QED
  BY <1>1 DEF WriterRecord

(* What is written has been accepted before.                               *)
LEMMA WriteStep ==
  ASSUME IInv, Write
  PROVE  IInv'
<1>1. /\ UNCHANGED <<writerReady, active, logged, WriterOnly>>
      /\ WriterAt("drain") /\ taken[writer.stage] < accepted[writer.stage]
      /\ Took(writer.stage) /\ written' = [written EXCEPT ![writer.stage] = @ + 1]
      /\ writer' = [writer EXCEPT !.due = IF @ = 0 THEN 0 ELSE @ - 1, !.dirty = TRUE]
  BY DEF Write
<1>2. /\ writer' \in WriterRecord /\ writer'.pc = writer.pc /\ writer'.stage = writer.stage
      /\ writer'.due = IF writer.due = 0 THEN 0 ELSE writer.due - 1
  BY <1>1, WriterTypes, WriterWrites
<1>3. writer.pc = "drain"
  BY <1>1 DEF WriterAt
<1> QED
  BY <1>1, <1>2, <1>3, TakeKeeps

(* A capture whose write fails was taken and not written.                  *)
LEMMA WriteFailsStep ==
  ASSUME IInv, WriteFails
  PROVE  IInv'
<1>1. /\ UNCHANGED <<writerReady, active, written, logged, WriterOnly>>
      /\ WriterAt("drain") /\ taken[writer.stage] < accepted[writer.stage]
      /\ Took(writer.stage) /\ writer' = [writer EXCEPT !.pc = "stop_ready"]
  BY DEF WriteFails
<1>2. writer' \in WriterRecord /\ writer'.pc = "stop_ready"
  BY <1>1, WriterTypes, WriterMoved DEF WriterPlaces
<1> QED
  BY <1>1, <1>2, TakeKeeps

(* The record of a writer that has read the two counts.                    *)
LEMMA WriterCounts ==
  \A w \in WriterRecord, c \in Nat \X Nat :
    LET v == [w EXCEPT !.pc = "log", !.count = c]
    IN  v \in WriterRecord /\ v.pc = "log" /\ v.stage = w.stage /\ v.count = c
BY DEF WriterRecord

(* The counts are read after the drain: every capture in the log had been  *)
(* counted by then.                                                        *)
LEMMA ReadCountsStep ==
  ASSUME IInv, ReadCounts
  PROVE  IInv'
<1> DEFINE s == writer.stage
<1>1. /\ writer.pc = "count" /\ writer.pc \in Running /\ UNCHANGED Quiet
      /\ writer' = [writer EXCEPT !.pc = "log", !.count = Counts(s)]
  BY DEF ReadCounts, WriterAt, Running
<1>2. InPass(s)
  BY <1>1, WriterTypes DEF WriterOf
<1>3. s \in Stores
  BY <1>1, WriterTypes DEF WriterOf
<1>4. Counts(s) \in Nat \X Nat /\ Counts(s)[1] = calls[s]
  BY <1>3, WriterTypes DEF Counts
<1>5. /\ writer' \in WriterRecord /\ writer'.pc = "log" /\ writer'.stage = s
      /\ writer'.count = Counts(s)
  BY <1>1, <1>4, WriterTypes, WriterCounts
<1>6. written[s] =< calls[s]
  BY <1>3, WriterTypes
<1>7. UNCHANGED <<config, accepted, written, atPass>>
  BY <1>1 DEF Quiet, logVars, WriterOnly, OutsideWriter, hookVars
<1>8. WriterOf'
  BY <1>2, <1>3, <1>4, <1>5, <1>6, <1>7 DEF WriterOf, InPass
<1>9. PassOf'
  BY <1>1, <1>5, <1>7 DEF IInv, PassOf, InPass
<1> QED
  BY <1>1, <1>5, <1>8, <1>9, QuietKeeps

(* The record of a writer that has logged its counts.                      *)
LEMMA WriterLogged ==
  \A w \in WriterRecord :
    /\ LET v == [w EXCEPT !.count = <<0, 0>>, !.dirty = TRUE]
       IN  v \in WriterRecord /\ v.pc = w.pc /\ v.stage = w.stage /\ v.due = w.due
    /\ LET v == [w EXCEPT !.count = <<0, 0>>]
       IN  v \in WriterRecord /\ v.pc = w.pc /\ v.stage = w.stage /\ v.due = w.due
BY DEF WriterRecord

(* A writer at a counts line: where it is and what its pass does next.     *)
LEMMA AtLog ==
  ASSUME IInv, WriterAt("log")
  PROVE  /\ writer.pc = "log" /\ writer.stage \in Stores
         /\ writer.pc \in Running /\ writer.pc # "none"
         /\ written[writer.stage] =< writer.count[1]
         /\ atPass[writer.stage] =< written[writer.stage]
         /\ AfterStage(writer.stage) \in WriterRecord
         /\ Follows(AfterStage(writer.stage), writer.stage)
<1>1. /\ writer.pc = "log" /\ writer.pc \in Running /\ InPass(writer.stage)
      /\ writer.stage \in Stores /\ written[writer.stage] =< writer.count[1]
      /\ atPass[writer.stage] =< written[writer.stage]
  BY WriterTypes DEF IInv, WriterAt, WriterOf, PassOf, Running
<1>2. Follows(AfterStage(writer.stage), writer.stage)
  BY <1>1, WriterTypes, AfterStageRecord
<1> QED
  BY <1>1, <1>2 DEF Follows

(* The counts that are logged cover what was written before they were      *)
(* read.                                                                   *)
LEMMA LogCountsStep ==
  ASSUME IInv, LogCounts
  PROVE  IInv'
<1> DEFINE s == writer.stage
           line == [line |-> TRUE, count |-> writer.count, written |-> written[s]]
           next == AfterStage(s)
<1>1. /\ WriterAt("log") /\ UNCHANGED <<writerReady, active, taken, written, WriterOnly>>
      /\ logged' = [logged EXCEPT ![s] = line]
      /\ writer' = [next EXCEPT !.count = <<0, 0>>, !.dirty = TRUE]
  BY DEF LogCounts
<1>2. /\ writer.pc = "log" /\ writer.pc \in Running /\ writer.pc # "none"
      /\ s \in Stores /\ written[s] =< writer.count[1] /\ atPass[s] =< written[s]
      /\ next \in WriterRecord /\ Follows(next, s)
  BY <1>1, AtLog
<1>3. /\ line \in [line : BOOLEAN, count : Nat \X Nat, written : Nat]
      /\ line.written = written[s] /\ line.count = writer.count
  BY <1>2, WriterTypes DEF WriterRecord
<1> HIDE DEF line, next
<1>4. /\ writer' \in WriterRecord
      /\ writer'.pc = next.pc /\ writer'.stage = next.stage /\ writer'.due = next.due
  BY <1>1, <1>2, WriterLogged
<1>5. /\ logged' \in [Stores -> [line : BOOLEAN, count : Nat \X Nat, written : Nat]]
      /\ logged'[s] = line /\ \A r \in Stores \ {s} : logged'[r] = logged[r]
  <2> HIDE DEF s
  <2> QED
    BY <1>1, <1>2, <1>3, WriterTypes
<1>6. CountsCoverTheLog'
  <2> SUFFICES ASSUME NEW r \in Stores
               PROVE  logged'[r].written =< logged'[r].count[1]
    BY DEF CountsCoverTheLog
  <2>1. CASE r = s
    BY <1>2, <1>3, <1>5, <2>1
  <2>2. CASE r # s
    BY <1>5, <2>2, WriterTypes DEF CountsCoverTheLog
  <2> QED
    BY <2>1, <2>2
<1>7. UNCHANGED <<config, accepted, taken, written, atPass, OutsideWriter>>
  BY <1>1 DEF WriterOnly, OutsideWriter, hookVars
<1>8. PassOf' /\ WriterOf' /\ writer'.pc # "none"
  BY <1>2, <1>4, <1>7, StageKeeps
<1>9. LossOf' /\ atPass' \in [Stores -> Nat]
  BY <1>2, <1>7, WriterTypes, NothingLost DEF LossOf
<1> QED
  BY <1>1, <1>2, <1>4, <1>5, <1>6, <1>7, <1>8, <1>9, WriterTypes, WriterKeeps

(* Counts that have not changed are logged already.                        *)
LEMMA SkipCountsStep ==
  ASSUME IInv, SkipCounts
  PROVE  IInv'
<1> DEFINE next == AfterStage(writer.stage)
<1>1. /\ WriterAt("log") /\ UNCHANGED Quiet
      /\ writer' = [next EXCEPT !.count = <<0, 0>>]
  BY DEF SkipCounts
<1>2. /\ writer.pc = "log" /\ writer.pc \in Running
      /\ atPass[writer.stage] =< written[writer.stage]
      /\ next \in WriterRecord /\ Follows(next, writer.stage)
  BY <1>1, AtLog
<1> HIDE DEF next
<1>3. /\ writer' \in WriterRecord
      /\ writer'.pc = next.pc /\ writer'.stage = next.stage /\ writer'.due = next.due
  BY <1>1, <1>2, WriterLogged
<1>4. UNCHANGED <<config, accepted, written, atPass>>
  BY <1>1 DEF Quiet, logVars, WriterOnly, OutsideWriter, hookVars
<1>5. PassOf' /\ WriterOf' /\ writer'.pc # "none"
  BY <1>2, <1>3, <1>4, StageKeeps
<1> QED
  BY <1>1, <1>2, <1>3, <1>5, QuietKeeps

-----------------------------------------------------------------------------
(* The writer ends *)

(* The record of a writer that has ended.                                  *)
LEMMA EndedRecord ==
  [NoWriter EXCEPT !.pc = "exited"] \in WriterRecord
    /\ [NoWriter EXCEPT !.pc = "exited"].pc = "exited"
BY NoWriterRecord, WriterMoved DEF WriterPlaces

(* The three stores of a writer that ends.                                 *)
LEMMA StopKeeps ==
  ASSUME IInv, writer.pc \in {"stop_ready", "stop_codec", "stop_application"},
         UNCHANGED <<logVars, WriterOnly>>, writer' \in WriterRecord,
         writer'.pc \in {"stop_codec", "stop_application", "exited"}, ~writerReady',
         writerReady' \in BOOLEAN, active' \in [DOMAIN Off -> BOOLEAN],
         \A s \in DOMAIN Off : active'[s] => active[s]
  PROVE  IInv'
<1>1. UNCHANGED <<config, accepted, taken, written, logged, atPass, OutsideWriter>>
  BY DEF logVars, WriterOnly, OutsideWriter, hookVars
<1>2. WriterOf' /\ CountsCoverTheLog'
  BY <1>1, WriterTypes DEF WriterOf, CountsCoverTheLog
<1>3. PassOf' /\ LossOf'
  BY <1>1, StoppedPass DEF IInv, LossOf
<1>4. writer.pc # "none" /\ writer'.pc # "none"
  OBVIOUS
<1> QED
  BY <1>1, <1>2, <1>3, <1>4, WriterTypes, WriterKeeps

(* WRITER_READY is ended before any recording is.                          *)
LEMMA StopReadyStep ==
  ASSUME IInv, StopReady
  PROVE  IInv'
<1>1. /\ writer.pc = "stop_ready" /\ writerReady' = FALSE
      /\ writer' = [writer EXCEPT !.pc = "stop_codec"]
      /\ UNCHANGED <<active, logVars, WriterOnly>>
  BY DEF StopReady, WriterAt
<1>2. writer' \in WriterRecord /\ writer'.pc = "stop_codec"
  BY <1>1, WriterTypes, WriterMoved DEF WriterPlaces
<1> QED
  BY <1>1, <1>2, WriterTypes, StopKeeps

(* Then the codec stops to record.                                         *)
LEMMA StopCodecStep ==
  ASSUME IInv, StopCodec
  PROVE  IInv'
<1>1. /\ writer.pc = "stop_codec" /\ active' = [active EXCEPT !["codec"] = FALSE]
      /\ writer' = [writer EXCEPT !.pc = "stop_application"]
      /\ UNCHANGED <<writerReady, logVars, WriterOnly>>
  BY DEF StopCodec, WriterAt
<1>2. writer' \in WriterRecord /\ writer'.pc = "stop_application"
  BY <1>1, WriterTypes, WriterMoved DEF WriterPlaces
<1>3. /\ active' \in [DOMAIN Off -> BOOLEAN]
      /\ \A s \in DOMAIN Off : active'[s] => active[s]
  BY <1>1, WriterTypes
<1>4. ~writerReady
  BY <1>1, WriterTypes DEF WriterOf
<1> QED
  BY <1>1, <1>2, <1>3, <1>4, WriterTypes, StopKeeps

(* Then the application does, and the thread is gone.                      *)
LEMMA StopApplicationStep ==
  ASSUME IInv, StopApplication
  PROVE  IInv'
<1>1. /\ writer.pc = "stop_application" /\ active' = [active EXCEPT !["application"] = FALSE]
      /\ writer' = [NoWriter EXCEPT !.pc = "exited"]
      /\ UNCHANGED <<writerReady, logVars, WriterOnly>>
  BY DEF StopApplication, WriterAt
<1>2. writer' \in WriterRecord /\ writer'.pc = "exited"
  BY <1>1, EndedRecord
<1>3. /\ active' \in [DOMAIN Off -> BOOLEAN]
      /\ \A s \in DOMAIN Off : active'[s] => active[s]
  BY <1>1, WriterTypes
<1>4. ~writerReady
  BY <1>1, WriterTypes DEF WriterOf
<1> QED
  BY <1>1, <1>2, <1>3, <1>4, WriterTypes, StopKeeps

-----------------------------------------------------------------------------
(* The invariant *)

(* At the limit the writer goes to stop_ready as after a failure.          *)
LEMMA PassLimitStep ==
  ASSUME IInv, PassLimit
  PROVE  IInv'
<1>1. /\ limit' = TRUE /\ writer.pc # "none"
      /\ UNCHANGED <<config, main, told, patched, published, experiment, aborted,
                     writerReady, active, writer, call, entered, calls, dropped, accepted,
                     taken, written, logged, atPass>>
  BY DEF PassLimit, install, hookVars, logVars
<1>2. TypeOK'
  BY <1>1 DEF IInv, TypeOK
<1>3. MainOf' /\ WriterOf' /\ CapturesHaveAWriter' /\ CountsCoverTheLog'
  BY <1>1 DEF IInv, MainOf, WriterOf, CapturesHaveAWriter, CountsCoverTheLog, InPass
<1>4. (\A t \in Threads : CallOf(t)') /\ Counted'
  BY <1>1 DEF IInv, CallOf, Counted, Pending, InPass
<1>5. PassOf' /\ LossOf'
  BY <1>1 DEF IInv, PassOf, LossOf, InPass
<1> QED
  BY <1>2, <1>3, <1>4, <1>5 DEF IInv

(* Nothing changes when nothing happens.                                   *)
LEMMA StutterStep ==
  ASSUME IInv, UNCHANGED vars
  PROVE  IInv'
<1>1. UNCHANGED <<config, main, told, patched, published, experiment, aborted, limit,
                  writerReady, active, writer, call, entered, calls, dropped, accepted,
                  taken, written, logged, atPass>>
  BY DEF vars, install, hookVars, logVars
<1>2. TypeOK'
  BY <1>1 DEF IInv, TypeOK
<1>3. MainOf' /\ WriterOf' /\ CapturesHaveAWriter' /\ CountsCoverTheLog'
  BY <1>1 DEF IInv, MainOf, WriterOf, CapturesHaveAWriter, CountsCoverTheLog, InPass
<1>4. (\A t \in Threads : CallOf(t)') /\ Counted'
  BY <1>1 DEF IInv, CallOf, Counted, Pending, InPass
<1>5. PassOf' /\ LossOf'
  BY <1>1 DEF IInv, PassOf, LossOf, InPass
<1> QED
  BY <1>2, <1>3, <1>4, <1>5 DEF IInv

(* Before install nothing is patched, called or counted.                   *)
LEMMA Initially ==
  Init => IInv
<1> SUFFICES ASSUME Init
             PROVE  IInv
  OBVIOUS
<1>1. config \in Config /\ Ordered(Paths[config], SpawnAt(config))
  BY ObserverAssumption, PathOrdered DEF Init, Paths
<1>2. SpawnAt(config) \in Nat /\ SpawnAt(config) > 1
  BY <1>1 DEF SpawnAt
<1>3. TypeOK
  <2>1. main \in 0..(Len(Paths[config]) + 1)
    BY <1>1 DEF Init, Ordered
  <2>2. /\ NoLine \in [line : BOOLEAN, count : Nat \X Nat, written : Nat]
        /\ NoCall \in CallRecord
    BY DEF NoLine, NoCall, CallRecord
  <2>3. /\ logged \in [Stores -> [line : BOOLEAN, count : Nat \X Nat, written : Nat]]
        /\ call \in [Threads -> CallRecord]
    BY <2>2 DEF Init
  <2>4. active \in [DOMAIN Off -> BOOLEAN] /\ writer \in WriterRecord
    BY NoWriterRecord DEF Init, Off
  <2>5. /\ calls \in [Stores -> Nat] /\ dropped \in [Stores -> Nat]
        /\ accepted \in [Stores -> Nat] /\ taken \in [Stores -> Nat]
        /\ written \in [Stores -> Nat] /\ atPass \in [Stores -> Nat]
        /\ \A s \in Stores : /\ written[s] =< taken[s] /\ taken[s] =< accepted[s]
                             /\ accepted[s] =< Room
                             /\ accepted[s] + dropped[s] =< calls[s]
    BY ObserverAssumption DEF Init, Zero
  <2>6. entered \in 0..MaxCalls
    BY ObserverAssumption DEF Init
  <2> QED
    BY <2>1, <2>3, <2>4, <2>5, <2>6 DEF Init, TypeOK
<1>4. MainOf
  BY <1>2 DEF Init, MainOf, NoWriter, Off
<1>5. \A t \in Threads : CallOf(t)
  BY DEF Init, CallOf, NoCall
<1>6. WriterOf
  BY DEF Init, WriterOf, NoWriter
<1>7. Counted
  <2>1. \A s \in Stores : Pending(s) = {}
    BY DEF Init, Pending, Owes, NoCall
  <2>2. Cardinality({}) = 0
    BY FS_EmptySet
  <2> QED
    BY <2>1, <2>2 DEF Init, Counted, Zero
<1>8. CapturesHaveAWriter
  BY DEF Init, CapturesHaveAWriter, Zero
<1>9. CountsCoverTheLog
  BY DEF Init, CountsCoverTheLog, NoLine
<1>10. PassOf /\ LossOf
  BY DEF Init, PassOf, LossOf, Zero, NoWriter
<1> QED
  BY <1>3, <1>4, <1>5, <1>6, <1>7, <1>8, <1>9, <1>10 DEF IInv

(* The invariant holds after every step.                                   *)
LEMMA Inductive ==
  IInv /\ [Next]_vars => IInv'
<1> SUFFICES ASSUME IInv, [Next]_vars
             PROVE  IInv'
  OBVIOUS
<1>1. CASE Install
  BY <1>1, InstallStep
<1>2. ASSUME NEW t \in Threads, NEW h \in Hooks, Enter(t, h)
      PROVE  IInv'
  BY <1>2, EnterStep
<1>3. ASSUME NEW t \in Threads, NEW h \in Hooks, EnterTooEarly(t, h)
      PROVE  IInv'
  BY <1>3, EnterTooEarlyStep
<1>4. ASSUME NEW t \in Threads, Finish(t)
      PROVE  IInv'
  BY <1>4, AfterOriginalStep, CountStep, AcceptStep, DropStep DEF Finish
<1>5. CASE WriterStep
  BY <1>5, WakeStep, RecordInstalledStep, TestLimitStep, WriteStep, WriteFailsStep,
     EndDrainStep, ReadCountsStep, LogCountsStep, SkipCountsStep, FlushStep, LogFailsStep,
     StopReadyStep, StopCodecStep, StopApplicationStep DEF WriterStep
<1>6. CASE PassLimit
  BY <1>6, PassLimitStep
<1>7. CASE UNCHANGED vars
  BY <1>7, StutterStep
<1> QED
  BY <1>1, <1>2, <1>3, <1>4, <1>5, <1>6, <1>7 DEF Next

-----------------------------------------------------------------------------
(* What holds in every behaviour *)

(* The inductive invariant holds in every reachable state.                 *)
THEOREM Invariance ==
  SafetySpec => []IInv
<1> QED
  BY Initially, Inductive, PTL DEF SafetySpec

(* Every variable has its type; a store never holds more than its room, a  *)
(* capture is taken once and logged after, and none is uncounted.          *)
THEOREM TypeCorrect ==
  SafetySpec => []TypeOK
<1>1. IInv => TypeOK
  BY DEF IInv
<1> QED
  BY <1>1, Invariance, PTL

(* Nothing is ever captured or dropped before there is a writer thread to  *)
(* record it.                                                              *)
THEOREM WriterFirst ==
  SafetySpec => []CapturesHaveAWriter
<1>1. IInv => CapturesHaveAWriter
  BY DEF IInv
<1> QED
  BY <1>1, Invariance, PTL

(* A writer that has ended leaves WRITER_READY off for good.               *)
THEOREM WriterEnds ==
  SafetySpec => []WriterGoneForGood
<1>1. IInv => WriterGoneForGood
  BY DEF IInv, WriterOf, WriterGoneForGood
<1> QED
  BY <1>1, Invariance, PTL

(* Once install has returned, with whatever result, every hook in place    *)
(* has its original and no call of the game can abort the process.         *)
THEOREM HooksComplete ==
  SafetySpec => []NoAbortAfterInstall
<1>1. ASSUME IInv
      PROVE  NoAbortAfterInstall
  <2>1. TypeOK /\ MainOf
    BY <1>1 DEF IInv
  <2>2. Len(Paths[config]) \in Nat
    BY <2>1, PathOfConfig DEF Ordered
  <2>3. Returned => ~(main \in 1..Len(Paths[config]))
    BY <2>2 DEF Returned, Failed, Installed
  <2>4. /\ aborted => ~Returned
        /\ Returned => \A f \in (patched \cap Functions) \ published : FALSE
    BY <2>1, <2>3 DEF MainOf
  <2> QED
    BY <2>4 DEF NoAbortAfterInstall
<1> QED
  BY <1>1, Invariance, PTL

(* A counts line claims at least the calls whose captures precede it in    *)
(* the log.                                                                *)
THEOREM LogCovered ==
  SafetySpec => []CountsCoverTheLog
<1>1. IInv => CountsCoverTheLog
  BY DEF IInv
<1> QED
  BY <1>1, Invariance, PTL

(* Between passes the log has all that was accepted before the last one,   *)
(* and no store ever loses more than the one capture whose write failed.   *)
THEOREM LossesBounded ==
  SafetySpec => []LossesAreLast
<1>1. IInv => LossesAreLast
  BY DEF IInv, PassOf, LossOf, LossesAreLast
<1> QED
  BY <1>1, Invariance, PTL
=============================================================================
