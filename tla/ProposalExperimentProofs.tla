----------------------- MODULE ProposalExperimentProofs -----------------------
(***************************************************************************)
(* Safety of ProposalExperiment for any numbers of threads, sessions and   *)
(* slots, any calls of the game, any bank size, and any number of calls    *)
(* and changes.                                                            *)
(***************************************************************************)
EXTENDS ProposalExperiment, FiniteSetTheorems, TLAPS

Mutating == {"check", "load", "write", "readback", "arm"}
Over == {"count", "capture", "return"}

(* The history of a call is right: what always held holds now, what holds  *)
(* now has held, the table that is there has been there.  While one slot   *)
(* is the local one all the time the identity cannot change: the game      *)
(* would have to write two words at once.                                  *)
HistoryOf(t) ==
  InCall(t) =>
    /\ always[t] \subseteq Foreign(t) /\ Foreign(t) \subseteq ever[t]
    /\ table[call[t].owner] \in shown[t]
    /\ \A i \in Slots :
         HeldSlot(t, i) => \A m \in shown[t] : m[0] = table[call[t].owner][0]

(* A source that was written and not overwritten is still ON.              *)
SourceOf(t) == wrote[t] = "source" => localTeam[call[t].owner] = 1

(* Who is where: only the two hooks that may write test anything, only in  *)
(* proposal mode, and only for an exact B4; only rule_submit arms.         *)
PlaceOf(t) ==
  LET me == call[t] IN
  /\ InCall(t) => me.owner \in Sessions /\ me.kind \in Kinds
  /\ me.pc = "policy" => me.step = 0 /\ me.loads = 0 /\ me.action = "none"
  /\ me.pc \in Mutating =>
       /\ MutatesIn(me.kind)
       /\ me.kind = "rule_submit" => me.arg.matches
       /\ me.action = "none"
  /\ me.pc = "arm" => me.kind = "rule_submit"

(* The words a call has loaded were in memory while it ran.  It loads them *)
(* after five conditions, all of them.                                     *)
SeenOf(t) ==
  LET me == call[t] IN
  /\ me.pc \in {"check", "load", "write"} =>
       \A w \in Words : w < me.loads => \E m \in shown[t] : m[w] = me.seen[w]
  /\ me.pc = "load" => me.step = 5
  /\ me.pc \in {"check", "write"} =>
       me.loads = IF me.step < 5 THEN 0 ELSE SlotCount + 1

(* What a condition that was tested with success has left behind.          *)
Met(t, c) ==
  LET me == call[t] IN
  /\ c \in Observed => c \in ever[t]
  /\ c = "local_slot" => LocalSlot(me.seen) \in Slots
  /\ c = "own_slot" => me.arg.slot = LocalSlot(me.seen)
  /\ c = "proposal_off" => me.arg.team = 0
  /\ c = "origin" => me.arg.origin

TestedOf(t) ==
  LET me == call[t] IN
  /\ me.pc = "write" => me.step = Len(Conditions(me.kind))
  /\ me.pc \in {"check", "load", "write"} =>
       \A i \in 1..me.step : Met(t, Conditions(me.kind)[i])

(* A rule_submit that is over without a change has seen one of its         *)
(* conditions fail, and so has a local_copy that was not refused: its own  *)
(* write ended source_off.                                                 *)
Eligible(t) ==
  LET me == call[t] IN
  /\ experiment
  /\ me.kind = "rule_submit" =>
       me.arg.matches /\ me.arg.origin /\ HeldSlot(t, me.arg.slot)
  /\ \E i \in Slots : HeldSlot(t, i)
  /\ Required(me.kind) \subseteq always[t]

OutcomeOf(t) ==
  LET me == call[t] IN
  /\ me.kind = "rule_submit" /\ me.pc \in {"readback", "arm"} => me.arg.team = 1
  /\ me.kind = "rule_submit" /\ me.pc \in Over /\ Eligible(t) => me.arg.team = 1
  /\ me.kind = "local_copy" /\ me.pc \in Over \cup {"readback"} => ~Eligible(t)
  /\ me.action = "proposal_00_to_01" =>
       me.kind = "rule_submit" /\ me.arg.team = 1 /\ experiment
  /\ me.action = "local_mirror_00_to_01" => me.kind = "local_copy" /\ experiment

(* What a call reports is what it has written.                             *)
ReportOf(t) ==
  LET me == call[t] IN
  /\ me.pc \in {"idle", "policy", "check", "load", "write"} => wrote[t] = "nothing"
  /\ me.pc \in {"readback", "arm"} =>
       IF me.kind = "rule_submit" THEN wrote[t] = "proposal"
                                  ELSE wrote[t] \in {"source", "overwritten"}
  /\ me.pc \in Over =>
       /\ me.action = "proposal_00_to_01" <=> wrote[t] = "proposal"
       /\ me.action = "local_mirror_00_to_01" => wrote[t] \in {"source", "overwritten"}
       /\ wrote[t] = "source" => me.action = "local_mirror_00_to_01"

CallInv(t) ==
  /\ HistoryOf(t) /\ SourceOf(t) /\ PlaceOf(t) /\ SeenOf(t) /\ TestedOf(t)
  /\ OutcomeOf(t) /\ ReportOf(t)

IInv == TypeOK /\ \A t \in Threads : CallInv(t)

-----------------------------------------------------------------------------
(* Facts about the model's operators *)

(* The order of the conditions: the local slot is read before the own slot *)
(* is compared with it.                                                    *)
LEMMA ProposalOrder ==
  /\ Len(Conditions("rule_submit")) = 14
  /\ \A i \in 1..14 : Conditions("rule_submit")[i] =
       <<"mode", "request", "unprepared", "initialized", "global_off", "local_slot",
         "mode", "request", "unprepared", "initialized", "global_off", "own_slot",
         "proposal_off", "origin">>[i]
BY DEF Conditions, EntryConditions, ProposalConditions

(* The order of the conditions of a mirror: those of the entry and two of  *)
(* its own.                                                                *)
LEMMA MirrorOrder ==
  ASSUME NEW k, k # "rule_submit"
  PROVE  /\ Len(Conditions(k)) = 8
         /\ \A i \in 1..8 : Conditions(k)[i] =
              <<"mode", "request", "unprepared", "initialized", "global_off",
                "local_slot", "armed", "source_off">>[i]
BY DEF Conditions, EntryConditions, MirrorConditions

(* What a call tests apart from the conditions the properties require.     *)
OwnConditions(k) ==
  {"local_slot"} \cup IF k = "rule_submit" THEN {"own_slot", "proposal_off", "origin"}
                                           ELSE {}

(* In both orders the local slot is the sixth condition, the own slot is   *)
(* later, and the conditions are the required ones and those of the call   *)
(* itself.                                                                 *)
LEMMA ConditionOrder ==
  ASSUME NEW k
  PROVE  /\ Len(Conditions(k)) \in Nat /\ Len(Conditions(k)) > 6
         /\ \A i \in 1..Len(Conditions(k)) :
              /\ Conditions(k)[i] = "local_slot" <=> i = 6
              /\ Conditions(k)[i] = "own_slot" => i > 6
              /\ Conditions(k)[i] \in Required(k) \cup OwnConditions(k)
         /\ \A c \in Required(k) \cup OwnConditions(k) :
              \E i \in 1..Len(Conditions(k)) : Conditions(k)[i] = c
<1>1. CASE k = "rule_submit"
  <2>1. \A i \in 1..14 :
          /\ Conditions(k)[i] = "local_slot" <=> i = 6
          /\ Conditions(k)[i] = "own_slot" => i > 6
          /\ Conditions(k)[i] \in Required(k) \cup OwnConditions(k)
    BY <1>1, ProposalOrder
       DEF Required, OwnConditions, SharedConditions, SessionConditions
  <2>2. \A c \in Required(k) \cup OwnConditions(k) : \E i \in 1..14 : Conditions(k)[i] = c
    BY <1>1, ProposalOrder
       DEF Required, OwnConditions, SharedConditions, SessionConditions
  <2>3. Len(Conditions(k)) = 14
    BY <1>1, ProposalOrder
  <2> QED
    BY <2>1, <2>2, <2>3
<1>2. CASE k # "rule_submit"
  <2>1. \A i \in 1..8 :
          /\ Conditions(k)[i] = "local_slot" <=> i = 6
          /\ Conditions(k)[i] = "own_slot" => i > 6
          /\ Conditions(k)[i] \in Required(k) \cup OwnConditions(k)
    BY <1>2, MirrorOrder
       DEF Required, OwnConditions, SharedConditions, SessionConditions
  <2>2. \A c \in Required(k) \cup OwnConditions(k) : \E i \in 1..8 : Conditions(k)[i] = c
    BY <1>2, MirrorOrder
       DEF Required, OwnConditions, SharedConditions, SessionConditions
  <2>3. Len(Conditions(k)) = 8
    BY <1>2, MirrorOrder
  <2> QED
    BY <2>1, <2>2, <2>3
<1> QED
  BY <1>1, <1>2

(* A call goes on to load the words of its local slot after five           *)
(* conditions.                                                             *)
LEMMA OnwardPlace ==
  ASSUME NEW k, NEW n \in Nat, n =< Len(Conditions(k))
  PROVE  Onward(k, n) = IF n = Len(Conditions(k)) THEN "write"
                        ELSE IF n = 5 THEN "load" ELSE "check"
<1>1. CASE n = Len(Conditions(k))
  BY <1>1 DEF Onward
<1>2. CASE n # Len(Conditions(k))
  <2>1. n + 1 \in 1..Len(Conditions(k))
    BY <1>2, ConditionOrder
  <2>2. Conditions(k)[n + 1] = "local_slot" <=> n + 1 = 6
    BY <2>1, ConditionOrder
  <2>3. n + 1 = 6 <=> n = 5
    OBVIOUS
  <2> QED
    BY <1>2, <2>2, <2>3 DEF Onward
<1> QED
  BY <1>1, <1>2

(* The local slot is the one slot that satisfies its definition.           *)
LEMMA LocalSlotIs ==
  ASSUME NEW m, NEW i \in Slots
  PROVE  LocalSlot(m) = i <=> IsLocal(m, i)
<1>1. ASSUME NEW j \in Slots, IsLocal(m, i), IsLocal(m, j) PROVE i = j
  <2>1. i \in Int /\ j \in Int
    BY DEF Slots
  <2>2. ~(i < j) /\ ~(j < i)
    BY <1>1 DEF IsLocal
  <2> QED
    BY <2>1, <2>2
<1>2. ASSUME IsLocal(m, i) PROVE LocalSlot(m) = i
  BY <1>1, <1>2 DEF LocalSlot
<1>3. ASSUME LocalSlot(m) = i PROVE IsLocal(m, i)
  BY <1>3, ExperimentAssumption DEF LocalSlot
<1> QED
  BY <1>2, <1>3

(* The positions of the words of a slot.                                   *)
LEMMA WordsOfSlot ==
  ASSUME NEW i \in Slots
  PROVE  i \in Int /\ 0 \in Words /\ i + 1 \in Words /\ i + 1 # 0
BY ExperimentAssumption DEF Slots, Words

(* While a slot is the local one, its entry and the identity are the same  *)
(* word, so that no write of one word changes the identity.                *)
LEMMA SameIdentity ==
  ASSUME NEW m, NEW n, NEW i \in Slots, LocalSlot(m) = i, LocalSlot(n) = i,
         NEW w \in Words, \A x \in Words \ {w} : n[x] = m[x]
  PROVE  n[0] = m[0]
<1>1. /\ m[i + 1] = m[0] /\ n[i + 1] = n[0]
  BY LocalSlotIs DEF IsLocal
<1>2. 0 \in Words /\ i + 1 \in Words /\ i + 1 # 0
  BY WordsOfSlot
<1> QED
  BY <1>1, <1>2

(* What a call can observe depends on the memory others may write, and on  *)
(* the register a call never changes.                                      *)
LEMMA SameForeign ==
  ASSUME NEW t \in Threads, UNCHANGED <<memory, localTeam, armed>>,
         call'[t].owner = call[t].owner
  PROVE  Foreign(t)' = Foreign(t)
BY DEF Foreign, Holds, memory, Observed, SharedConditions, SessionConditions

(* The histories of call t only grow, and nobody else writes for it.       *)
Grown(t) ==
  /\ always'[t] \subseteq always[t] /\ ever[t] \subseteq ever'[t]
  /\ shown[t] \subseteq shown'[t]

Overwritten(t) ==
  wrote'[t] = wrote[t] \/ (wrote[t] = "source" /\ wrote'[t] = "overwritten")

(* A call that does not step itself keeps its invariant, whatever happens  *)
(* to the memory, if its history is kept right.                            *)
LEMMA Steady ==
  ASSUME NEW t \in Threads, CallInv(t), call'[t] = call[t], experiment' = experiment,
         Grown(t), Overwritten(t), HistoryOf(t)', SourceOf(t)'
  PROVE  CallInv(t)'
<1>1. PlaceOf(t)'
  BY DEF CallInv, PlaceOf, InCall, MutatesIn
<1>2. \A c : Met(t, c) => Met(t, c)'
  BY DEF Met, Grown
<1>3. TestedOf(t)'
  BY <1>2 DEF CallInv, TestedOf
<1>4. SeenOf(t)'
  BY DEF CallInv, SeenOf, Grown
<1>5. \A i : HeldSlot(t, i)' => HeldSlot(t, i)
  BY DEF HeldSlot, Grown
<1>6. Eligible(t)' => Eligible(t)
  BY <1>5 DEF Eligible, Grown
<1>7. OutcomeOf(t)'
  BY <1>6 DEF CallInv, OutcomeOf
<1>8. ReportOf(t)'
  BY DEF CallInv, ReportOf, Overwritten, Over
<1> QED
  BY <1>1, <1>3, <1>4, <1>7, <1>8 DEF CallInv

(* The history of a call stays right when the memory does not change.      *)
LEMMA SameHistory ==
  ASSUME NEW t \in Threads, HistoryOf(t), InCall(t),
         UNCHANGED <<memory, localTeam, armed>>, call'[t].owner = call[t].owner,
         always'[t] = always[t], ever'[t] = ever[t], shown'[t] = shown[t]
  PROVE  HistoryOf(t)'
<1>1. Foreign(t)' = Foreign(t) /\ table' = table
  BY SameForeign DEF memory
<1>2. \A i : HeldSlot(t, i)' <=> HeldSlot(t, i)
  BY DEF HeldSlot
<1> QED
  BY <1>1, <1>2 DEF HistoryOf

(* A step of one hook that leaves the memory alone touches no other call.  *)
LEMMA OthersSteady ==
  ASSUME NEW t \in Threads, \A u \in Threads : CallInv(u),
         UNCHANGED <<memory, localTeam, armed, experiment>>,
         \A u \in Threads \ {t} :
           /\ call'[u] = call[u] /\ always'[u] = always[u] /\ ever'[u] = ever[u]
           /\ shown'[u] = shown[u] /\ wrote'[u] = wrote[u]
  PROVE  \A u \in Threads \ {t} : CallInv(u)'
<1> SUFFICES ASSUME NEW u \in Threads \ {t} PROVE CallInv(u)'
  OBVIOUS
<1>1. HistoryOf(u)'
  <2>1. CASE InCall(u)
    BY <2>1, SameHistory DEF CallInv
  <2>2. CASE ~InCall(u)
    BY <2>2 DEF HistoryOf, InCall
  <2> QED
    BY <2>1, <2>2
<1>2. SourceOf(u)'
  BY DEF CallInv, SourceOf
<1> QED
  BY <1>1, <1>2, Steady DEF Grown, Overwritten

(* In the table of call t's session one word changes, or none.             *)
OneWord(t) ==
  \E w \in Words : \A x \in Words \ {w} :
    table'[call[t].owner][x] = table[call[t].owner][x]

(* Witness keeps every history right and growing.  If one slot has been    *)
(* the local one in the new table as well, the identity is the old one.    *)
LEMMA Witnessed ==
  ASSUME Witness, NEW t \in Threads, InCall(t), InCall(t)', HistoryOf(t), OneWord(t),
         call'[t].owner = call[t].owner
  PROVE  HistoryOf(t)' /\ Grown(t)
<1> DEFINE old == table[call[t].owner]
           new == table'[call[t].owner]
<1>1. /\ always'[t] = always[t] \cap Foreign(t)' /\ ever'[t] = ever[t] \cup Foreign(t)'
      /\ shown'[t] = shown[t] \cup {new}
  BY DEF Witness
<1>2. old \in shown[t]
  BY DEF HistoryOf
<1>3. ASSUME NEW i \in Slots, HeldSlot(t, i)', NEW m \in shown'[t] PROVE m[0] = new[0]
  <2>1. \A n \in shown'[t] : LocalSlot(n) = i
    BY <1>3 DEF HeldSlot
  <2>2. HeldSlot(t, i) /\ LocalSlot(old) = i /\ LocalSlot(new) = i
    BY <1>1, <1>2, <2>1 DEF HeldSlot
  <2>3. new[0] = old[0]
    <3>1. PICK w \in Words : \A x \in Words \ {w} : new[x] = old[x]
      BY DEF OneWord
    <3> QED
      BY <2>2, <3>1, SameIdentity
  <2>4. m \in shown[t] => m[0] = old[0]
    BY <2>2 DEF HistoryOf
  <2> QED
    BY <1>1, <1>3, <2>3, <2>4
<1>4. always'[t] \subseteq Foreign(t)' /\ Foreign(t)' \subseteq ever'[t] /\ new \in shown'[t]
  BY <1>1
<1>5. HistoryOf(t)'
  BY <1>3, <1>4 DEF HistoryOf
<1> QED
  BY <1>1, <1>5 DEF Grown

(* A thread in no hook has nothing to keep.                                *)
LEMMA IdleSteady ==
  ASSUME NEW t \in Threads, CallInv(t), call'[t] = call[t], ~InCall(t),
         experiment' = experiment, Overwritten(t), SourceOf(t)'
  PROVE  CallInv(t)'
<1>1. HistoryOf(t)' /\ PlaceOf(t)' /\ SeenOf(t)' /\ TestedOf(t)'
  BY DEF CallInv, InCall, HistoryOf, PlaceOf, SeenOf, TestedOf, Mutating
<1>2. OutcomeOf(t)'
  BY DEF CallInv, InCall, OutcomeOf, Over
<1>3. ReportOf(t)'
  BY DEF CallInv, InCall, ReportOf, Over, Overwritten
<1> QED
  BY <1>1, <1>2, <1>3 DEF CallInv

(* A call that does not step keeps its invariant if its history is kept.   *)
LEMMA WitnessSteady ==
  ASSUME Witness, NEW t \in Threads, CallInv(t), call'[t] = call[t], OneWord(t),
         experiment' = experiment, Overwritten(t), SourceOf(t)'
  PROVE  CallInv(t)'
<1>1. CASE InCall(t)
  <2>1. InCall(t)' /\ HistoryOf(t)
    BY <1>1 DEF InCall, CallInv
  <2>2. HistoryOf(t)' /\ Grown(t)
    BY <1>1, <2>1, Witnessed
  <2> QED
    BY <2>2, Steady
<1> QED
  BY <1>1, IdleSteady

(* Histories are sets of observed conditions and of tables.                *)
LEMMA WitnessType ==
  ASSUME Witness, TypeOK, table' \in [Sessions -> Table],
         \A t \in Threads : InCall(t) => call[t].owner \in Sessions
  PROVE  /\ always' \in [Threads -> SUBSET Observed] /\ ever' \in [Threads -> SUBSET Observed]
         /\ shown' \in [Threads -> SUBSET Table]
<1>1. \A t : Foreign(t)' \subseteq Observed
  BY DEF Foreign
<1>2. \A t \in Threads : InCall(t) => table'[call[t].owner] \in Table
  OBVIOUS
<1> QED
  BY <1>1, <1>2 DEF Witness, TypeOK

-----------------------------------------------------------------------------
(* A step that changes the record of one call and nothing else             *)

Places == {"idle", "policy", "check", "load", "write", "readback", "arm", "count",
           "capture", "return"}

OtherCalls(t) ==
  /\ call' \in [Threads -> CallRecord]
  /\ \A u \in Threads \ {t} : call'[u] = call[u]

(* A call that moves on changes its place only, and the other calls stay.  *)
LEMMA GotoRecord ==
  ASSUME TypeOK, NEW t \in Threads, NEW pc \in Places, Goto(t, pc)
  PROVE  /\ OtherCalls(t)
         /\ call'[t].pc = pc
         /\ call'[t].kind = call[t].kind /\ call'[t].owner = call[t].owner
         /\ call'[t].arg = call[t].arg /\ call'[t].record = call[t].record
         /\ call'[t].step = call[t].step /\ call'[t].loads = call[t].loads
         /\ call'[t].action = call[t].action /\ call'[t].mode = call[t].mode
<1>1. call \in [Threads -> CallRecord] /\ call' = [call EXCEPT ![t].pc = pc]
  BY DEF TypeOK, Goto
<1> QED
  BY <1>1, SMTT(30) DEF OtherCalls, CallRecord, Places

(* What the hooks add up: the counters, the stores, what they have written *)
(* and the changed sessions.                                               *)
Records ==
  /\ calls \in [Kinds -> Nat] /\ dropped \in Nat
  /\ events \in Seq([kind : AllKinds, mode : BOOLEAN, team : {0, 1},
                     action : {"none", "proposal_00_to_01", "local_mirror_00_to_01"}])
  /\ \A k \in Kinds, m \in BOOLEAN : Cardinality(InBank(k, m)) =< BankLimit
  /\ wrote \in [Threads -> {"nothing", "proposal", "source", "overwritten"}]
  /\ changed \subseteq Sessions

(* The records stay right when no counter moves.                           *)
LEMMA SameRecords ==
  ASSUME IInv, UNCHANGED counters, changed' \subseteq Sessions,
         wrote' \in [Threads -> {"nothing", "proposal", "source", "overwritten"}]
  PROVE  Records'
BY DEF IInv, TypeOK, Records, counters, InBank

OtherHistories(t) ==
  /\ always' \in [Threads -> SUBSET Observed] /\ ever' \in [Threads -> SUBSET Observed]
  /\ shown' \in [Threads -> SUBSET Table]
  /\ \A u \in Threads \ {t} :
       /\ always'[u] = always[u] /\ ever'[u] = ever[u]
       /\ shown'[u] = shown[u] /\ wrote'[u] = wrote[u]

(* A call that tests or loads has something left to test or to load.       *)
ProgressOf(t) ==
  /\ call[t].step =< Len(Conditions(call[t].kind))
  /\ call[t].pc \in {"check", "load"} => call[t].step < Len(Conditions(call[t].kind))
  /\ call[t].pc = "load" => call[t].loads \in Words

(* To keep the invariant, a step of one call that leaves the memory alone  *)
(* has to keep that call's part of it, and the records.                    *)
LEMMA EdgeKeeps ==
  ASSUME IInv, NEW t \in Threads, UNCHANGED <<memory, localTeam, flags, armed>>,
         OtherHistories(t), OtherCalls(t), CallInv(t)', Records',
         ProgressOf(t)'
  PROVE  IInv'
<1>1. TypeOK'
  BY DEF IInv, TypeOK, memory, flags, OtherCalls, OtherHistories, Records, ProgressOf
<1>2. \A u \in Threads \ {t} : CallInv(u)'
  BY OthersSteady DEF IInv, flags, OtherCalls, OtherHistories
<1> QED
  BY <1>1, <1>2 DEF IInv, Records

(* The same if the step records no history.                                *)
LEMMA StepKeeps ==
  ASSUME IInv, NEW t \in Threads, UNCHANGED <<memory, localTeam, flags, armed, history>>,
         \A u \in Threads \ {t} : wrote'[u] = wrote[u], OtherCalls(t), CallInv(t)', Records',
         ProgressOf(t)'
  PROVE  IInv'
<1>1. OtherHistories(t)
  BY DEF IInv, TypeOK, history, OtherHistories
<1> QED
  BY <1>1, EdgeKeeps

(* The same if the step changes the record of the call and nothing else.   *)
LEMMA CallStep ==
  ASSUME IInv, NEW t \in Threads, UNCHANGED OnlyCall, OtherCalls(t), CallInv(t)',
         ProgressOf(t)'
  PROVE  IInv'
<1>1. Records'
  BY SameRecords DEF OnlyCall, writes, IInv, TypeOK
<1> QED
  BY <1>1, StepKeeps DEF OnlyCall, writes

(* The history of a call that moves on stays right.                        *)
LEMMA OwnHistory ==
  ASSUME IInv, NEW t \in Threads, InCall(t), UNCHANGED <<memory, localTeam, armed, history>>,
         call'[t].owner = call[t].owner
  PROVE  HistoryOf(t)' /\ (wrote'[t] = wrote[t] => SourceOf(t)')
<1>1. HistoryOf(t)'
  BY SameHistory DEF IInv, CallInv, history
<1> QED
  BY <1>1 DEF IInv, CallInv, SourceOf

(* The early returns: a rule_submit that could have been changed is not    *)
(* among them.                                                             *)
LEMMA IgnoreStep ==
  ASSUME IInv, NEW t \in Threads, Ignore(t)
  PROVE  IInv'
<1> USE GotoRecord DEF Ignore, Places
<1>1. HistoryOf(t)' /\ SourceOf(t)'
  BY OwnHistory DEF IInv, InCall, OnlyCall, writes
<1>2. PlaceOf(t)' /\ SeenOf(t)' /\ TestedOf(t)'
  BY DEF IInv, CallInv, PlaceOf, SeenOf, TestedOf, InCall, Mutating
<1>3. OutcomeOf(t)'
  BY DEF IInv, CallInv, PlaceOf, OutcomeOf, Eligible, HeldSlot, Ignored, OnlyCall, flags,
     history, Over, MutatesIn
<1>4. ReportOf(t)'
  BY DEF IInv, CallInv, PlaceOf, ReportOf, OnlyCall, writes, Over
<1>5. ProgressOf(t)'
  BY DEF IInv, TypeOK, ProgressOf
<1> QED
  BY <1>1, <1>2, <1>3, <1>4, <1>5, CallStep DEF CallInv, IInv

(* What reading the policy leaves in the record of the call.               *)
LEMMA ReadPolicyRecord ==
  ASSUME IInv, NEW t \in Threads, ReadPolicy(t)
  PROVE  /\ OtherCalls(t)
         /\ call'[t].pc = IF MutatesIn(call[t].kind) THEN "check" ELSE "count"
         /\ call'[t].kind = call[t].kind /\ call'[t].owner = call[t].owner
         /\ call'[t].arg = call[t].arg /\ call'[t].step = call[t].step
         /\ call'[t].action = call[t].action /\ call'[t].loads = call[t].loads
<1> DEFINE me == call[t]
           next == IF MutatesIn(me.kind) THEN "check" ELSE "count"
           noted == [call EXCEPT ![t].record = active]
<1>1. /\ call \in [Threads -> CallRecord] /\ active \in BOOLEAN
      /\ next \in {"check", "count"} /\ call' = [noted EXCEPT ![t].pc = next]
  BY DEF IInv, TypeOK, ReadPolicy
<1> HIDE DEF next
<1>2. /\ noted \in [Threads -> CallRecord]
      /\ \A u \in Threads \ {t} : noted[u] = call[u]
      /\ noted[t].kind = me.kind /\ noted[t].owner = me.owner /\ noted[t].arg = me.arg
      /\ noted[t].step = me.step /\ noted[t].action = me.action
      /\ noted[t].loads = me.loads
  BY <1>1 DEF CallRecord
<1> HIDE DEF noted
<1>3. /\ OtherCalls(t)
      /\ call'[t].pc = next
      /\ call'[t].kind = me.kind /\ call'[t].owner = me.owner /\ call'[t].arg = me.arg
      /\ call'[t].step = me.step /\ call'[t].action = me.action
      /\ call'[t].loads = me.loads
  BY <1>1, <1>2 DEF OtherCalls, CallRecord
<1> QED
  BY <1>3 DEF next

(* A call that may write tests its conditions first.                       *)
LEMMA ReadPolicyStep ==
  ASSUME IInv, NEW t \in Threads, ReadPolicy(t)
  PROVE  IInv'
<1>1. /\ OtherCalls(t)
      /\ call'[t].pc = IF MutatesIn(call[t].kind) THEN "check" ELSE "count"
      /\ call'[t].kind = call[t].kind /\ call'[t].owner = call[t].owner
      /\ call'[t].arg = call[t].arg /\ call'[t].step = call[t].step
      /\ call'[t].action = call[t].action /\ call'[t].loads = call[t].loads
  BY ReadPolicyRecord
<1>2. call[t].pc = "policy" /\ ~Ignored(t) /\ UNCHANGED OnlyCall
  BY DEF ReadPolicy
<1>3. /\ call[t].owner \in Sessions /\ call[t].kind \in Kinds
      /\ call[t].step = 0 /\ call[t].loads = 0 /\ call[t].action = "none"
      /\ experiment' = experiment /\ wrote'[t] = wrote[t] /\ wrote[t] = "nothing"
  BY <1>2 DEF IInv, CallInv, PlaceOf, ReportOf, InCall, OnlyCall, flags, writes
<1>4. HistoryOf(t)' /\ SourceOf(t)'
  BY <1>1, <1>2, OwnHistory DEF InCall, OnlyCall, writes
<1>5. PlaceOf(t)' /\ TestedOf(t)'
  BY <1>1, <1>2, <1>3 DEF PlaceOf, TestedOf, InCall, Mutating, Ignored, MutatesIn
<1>6. SeenOf(t)'
  BY <1>1, <1>3 DEF SeenOf, Words
<1>7. OutcomeOf(t)'
  <2>1. call'[t].pc \in Over /\ call[t].kind \in {"rule_submit", "local_copy"} => ~experiment
    BY <1>1 DEF Over, MutatesIn
  <2> QED
    BY <1>1, <1>3, <2>1 DEF OutcomeOf, Eligible
<1>8. ReportOf(t)'
  BY <1>1, <1>3 DEF ReportOf, Over
<1>9. ProgressOf(t)'
  <2>1. Len(Conditions(call[t].kind)) \in Nat /\ Len(Conditions(call[t].kind)) > 6
    BY ONLY ConditionOrder
  <2>2. call'[t].pc # "load"
    BY <1>1
  <2> QED
    BY ONLY <1>1, <1>3, <2>1, <2>2 DEF ProgressOf
<1> QED
  BY <1>1, <1>2, <1>4, <1>5, <1>6, <1>7, <1>8, <1>9, CallStep DEF CallInv

-----------------------------------------------------------------------------
(* mutate_if_guarded *)

(* A test that succeeds leaves what Met says.                              *)
LEMMA TestMet ==
  ASSUME IInv, NEW t \in Threads, Check(t), NEW c, c = Tested(t)
  PROVE  Met(t, c)'
<1> DEFINE me == call[t]
<1>1. me.pc = "check" /\ Holds(t, c) /\ UNCHANGED OnlyCall
  BY DEF Check
<1>2. call'[t].arg = me.arg /\ call'[t].seen = me.seen
  BY DEF Check, IInv, TypeOK, CallRecord
<1>3. Foreign(t) \subseteq ever[t] /\ ever' = ever
  BY <1>1 DEF IInv, CallInv, HistoryOf, InCall, OnlyCall, history
<1>4. world \subseteq SharedConditions /\ session[me.owner] \subseteq SessionConditions
  BY <1>1 DEF IInv, TypeOK, CallInv, PlaceOf, InCall
<1>5. c \in Observed => c \in Foreign(t)
  BY <1>1 DEF Foreign
<1>6. c = "local_slot" => LocalSlot(me.seen) \in Slots
  BY <1>1, <1>4 DEF Holds, SharedConditions, SessionConditions
<1>7. c = "own_slot" => me.arg.slot = LocalSlot(me.seen)
  BY <1>1, <1>4 DEF Holds, SharedConditions, SessionConditions
<1>8. c = "proposal_off" => me.arg.team = 0
  BY <1>1, <1>4 DEF Holds, SharedConditions, SessionConditions
<1>9. c = "origin" => me.arg.origin
  BY <1>1, <1>4 DEF Holds, SharedConditions, SessionConditions
<1> QED
  BY <1>2, <1>3, <1>5, <1>6, <1>7, <1>8, <1>9 DEF Met

(* What a condition that was met leaves in the record of the call: one     *)
(* step more.                                                              *)
LEMMA CheckRecord ==
  ASSUME IInv, NEW t \in Threads, Check(t)
  PROVE  LET me == call[t] IN
         /\ OtherCalls(t)
         /\ me.step \in Nat /\ me.step < Len(Conditions(me.kind))
         /\ call'[t].pc = IF me.step + 1 = Len(Conditions(me.kind)) THEN "write"
                          ELSE IF me.step + 1 = 5 THEN "load" ELSE "check"
         /\ call'[t].kind = me.kind /\ call'[t].owner = me.owner /\ call'[t].arg = me.arg
         /\ call'[t].step = me.step + 1 /\ call'[t].action = me.action
         /\ call'[t].loads = me.loads /\ call'[t].seen = me.seen
<1> DEFINE me == call[t]
           order == Conditions(me.kind)
<1>1. me.pc = "check"
  BY DEF Check
<1>2. /\ me.step \in Nat /\ me.step < Len(order) /\ Len(order) \in Nat
      /\ call \in [Threads -> CallRecord]
  BY <1>1, ConditionOrder DEF IInv, TypeOK, CallRecord
<1> DEFINE step == me.step + 1
           next == IF step = Len(order) THEN "write" ELSE IF step = 5 THEN "load" ELSE "check"
           stepped == [call EXCEPT ![t].step = step]
<1>3. step \in Nat /\ step =< Len(order)
  BY <1>2
<1>4. Onward(me.kind, step) = next
  BY <1>3, OnwardPlace
<1>5. call' = [stepped EXCEPT ![t].pc = next]
  BY <1>4 DEF Check
<1>6. next \in {"check", "load", "write"}
  OBVIOUS
<1> HIDE DEF next, step
<1>7. /\ stepped \in [Threads -> CallRecord]
      /\ \A u \in Threads \ {t} : stepped[u] = call[u]
      /\ stepped[t].kind = me.kind /\ stepped[t].owner = me.owner
      /\ stepped[t].arg = me.arg /\ stepped[t].action = me.action
      /\ stepped[t].step = step /\ stepped[t].loads = me.loads
      /\ stepped[t].seen = me.seen
  <2>1. stepped \in [Threads -> CallRecord]
    BY ONLY t \in Threads, <1>2, <1>3, SMTT(20) DEF CallRecord
  <2>2. stepped[t] = [me EXCEPT !.step = step] /\ me \in CallRecord
    BY ONLY t \in Threads, <1>2
  <2>3. \A u \in Threads \ {t} : stepped[u] = call[u]
    BY ONLY t \in Threads, <1>2
  <2> QED
    BY ONLY <2>1, <2>2, <2>3 DEF CallRecord
<1> HIDE DEF stepped
<1>8. /\ OtherCalls(t)
      /\ call'[t].pc = next /\ call'[t].loads = me.loads /\ call'[t].seen = me.seen
      /\ call'[t].kind = me.kind /\ call'[t].owner = me.owner /\ call'[t].arg = me.arg
      /\ call'[t].step = step /\ call'[t].action = me.action
  BY <1>5, <1>6, <1>7 DEF CallRecord, OtherCalls
<1> QED
  BY <1>2, <1>8 DEF next, step

(* A test that succeeds; the ones before it stay met.                      *)
LEMMA CheckStep ==
  ASSUME IInv, NEW t \in Threads, Check(t)
  PROVE  IInv'
<1> DEFINE me == call[t]
           order == Conditions(me.kind)
<1>1. me.pc = "check" /\ UNCHANGED OnlyCall
  BY DEF Check
<1>2. /\ me.owner \in Sessions /\ me.kind \in Kinds
      /\ MutatesIn(me.kind) /\ me.action = "none"
      /\ me.kind = "rule_submit" => me.arg.matches
      /\ Len(order) \in Nat /\ SeenOf(t) /\ wrote[t] = "nothing"
      /\ \A i \in 1..me.step : Met(t, order[i])
  BY <1>1, ConditionOrder
     DEF IInv, CallInv, PlaceOf, TestedOf, ReportOf, InCall, Mutating
<1>3. /\ OtherCalls(t)
      /\ me.step \in Nat /\ me.step < Len(order)
      /\ call'[t].pc = IF me.step + 1 = Len(order) THEN "write"
                       ELSE IF me.step + 1 = 5 THEN "load" ELSE "check"
      /\ call'[t].kind = me.kind /\ call'[t].owner = me.owner /\ call'[t].arg = me.arg
      /\ call'[t].step = me.step + 1 /\ call'[t].action = me.action
      /\ call'[t].loads = me.loads /\ call'[t].seen = me.seen
  BY CheckRecord
<1>4. UNCHANGED <<memory, localTeam, experiment, armed, always, ever, shown, wrote>>
  BY <1>1 DEF OnlyCall, flags, history, writes
<1>5. HistoryOf(t)' /\ SourceOf(t)'
  BY <1>1, <1>3, <1>4, OwnHistory DEF InCall, history
<1>6. PlaceOf(t)'
  BY <1>1, <1>2, <1>3, <1>4 DEF PlaceOf, InCall, Mutating, MutatesIn
<1>7. Len(order) > 6
  BY ConditionOrder
<1>8. SeenOf(t)'
  <2>1. me.loads = IF me.step < 5 THEN 0 ELSE SlotCount + 1
    BY <1>1, <1>2 DEF SeenOf
  <2>2. \A w \in Words : w < me.loads => \E m \in shown[t] : m[w] = me.seen[w]
    BY <1>1, <1>2 DEF SeenOf
  <2>3. call'[t].pc = "load" => call'[t].step = 5
    BY <1>3
  <2>4. call'[t].pc \in {"check", "write"} =>
          call'[t].loads = IF call'[t].step < 5 THEN 0 ELSE SlotCount + 1
    <3>1. call'[t].pc \in {"check", "write"} => me.step + 1 # 5
      BY <1>2, <1>3, <1>7
    <3>2. me.step + 1 # 5 => (me.step < 5 <=> me.step + 1 < 5)
      BY <1>3
    <3> QED
      BY <1>3, <2>1, <3>1, <3>2
  <2> QED
    BY <1>3, <1>4, <2>2, <2>3, <2>4 DEF SeenOf
<1>9. TestedOf(t)'
  <2>1. ASSUME NEW i \in 1..me.step, NEW c, c = order[i] PROVE Met(t, c)'
    BY <1>2, <1>3, <1>4, <2>1 DEF Met
  <2>2. \A c : c = order[me.step + 1] => Met(t, c)'
    BY TestMet DEF Tested
  <2>3. \A i \in 1..(me.step + 1) : \A c : c = order[i] => Met(t, c)'
    BY <1>3, <2>1, <2>2
  <2> QED
    BY <1>2, <1>3, <2>3 DEF TestedOf
<1>10. OutcomeOf(t)' /\ ReportOf(t)'
  BY <1>2, <1>3, <1>4 DEF OutcomeOf, ReportOf, Over
<1>11. ProgressOf(t)'
  <2>1. call'[t].step =< Len(order)
        /\ (call'[t].pc \in {"check", "load"} => call'[t].step < Len(order))
    BY <1>2, <1>3, <1>7
  <2>2. call'[t].pc = "load" => call'[t].loads = 0
    <3>1. call'[t].pc = "load" => me.step < 5
      BY <1>3
    <3> QED
      BY <1>1, <1>2, <1>3, <3>1 DEF SeenOf
  <2>3. 0 \in Words
    BY ExperimentAssumption DEF Words
  <2> QED
    BY <1>3, <2>1, <2>2, <2>3 DEF ProgressOf
<1> QED
  BY <1>1, <1>3, <1>5, <1>6, <1>8, <1>9, <1>10, <1>11, CallStep DEF CallInv

(* What the load of one word leaves in the record of the call.             *)
LEMMA LoadRecord ==
  ASSUME IInv, NEW t \in Threads, LoadWord(t)
  PROVE  LET me == call[t] IN
         /\ OtherCalls(t)
         /\ me.loads \in Words
         /\ call'[t].pc = IF me.loads = SlotCount THEN "check" ELSE "load"
         /\ call'[t].kind = me.kind /\ call'[t].owner = me.owner /\ call'[t].arg = me.arg
         /\ call'[t].step = me.step /\ call'[t].action = me.action
         /\ call'[t].loads = me.loads + 1
         /\ \A w \in Words :
              call'[t].seen[w] = IF w = me.loads THEN table[me.owner][w] ELSE me.seen[w]
<1> DEFINE me == call[t]
           word == table[me.owner][me.loads]
           next == IF me.loads = SlotCount THEN "check" ELSE "load"
           loads == me.loads + 1
           seen == [me.seen EXCEPT ![me.loads] = word]
           read == [call EXCEPT ![t].seen = seen]
           counted == [read EXCEPT ![t].loads = loads]
<1>1. /\ me.pc = "load" /\ me.loads \in Words /\ call \in [Threads -> CallRecord]
      /\ me.owner \in Sessions /\ me.seen \in Table /\ table[me.owner] \in Table
  BY DEF LoadWord, IInv, TypeOK, CallRecord, CallInv, PlaceOf, InCall
<1>2. word \in Identities \cup {NoIdentity}
  BY <1>1 DEF Table
<1>3. /\ seen \in Table
      /\ \A w \in Words : seen[w] = IF w = me.loads THEN word ELSE me.seen[w]
  BY <1>1, <1>2 DEF Table
<1>4. loads \in 0..(SlotCount + 1)
  BY <1>1, ExperimentAssumption DEF Words
<1>5. next \in {"check", "load"}
  OBVIOUS
<1>6. call' = [counted EXCEPT ![t].pc = next]
  BY <1>1 DEF LoadWord, CallRecord
<1> HIDE DEF seen, loads, next
<1>7. /\ read \in [Threads -> CallRecord]
      /\ \A u \in Threads \ {t} : read[u] = call[u]
      /\ read[t].kind = me.kind /\ read[t].owner = me.owner
      /\ read[t].arg = me.arg /\ read[t].action = me.action
      /\ read[t].step = me.step /\ read[t].seen = seen
  BY <1>1, <1>3 DEF CallRecord
<1> HIDE DEF read
<1>8. /\ counted \in [Threads -> CallRecord]
      /\ \A u \in Threads \ {t} : counted[u] = call[u]
      /\ counted[t].kind = me.kind /\ counted[t].owner = me.owner
      /\ counted[t].arg = me.arg /\ counted[t].action = me.action
      /\ counted[t].step = me.step /\ counted[t].seen = seen
      /\ counted[t].loads = loads
  BY <1>4, <1>7 DEF CallRecord
<1> HIDE DEF counted
<1>9. /\ OtherCalls(t)
      /\ call'[t].pc = next /\ call'[t].loads = loads /\ call'[t].seen = seen
      /\ call'[t].kind = me.kind /\ call'[t].owner = me.owner /\ call'[t].arg = me.arg
      /\ call'[t].step = me.step /\ call'[t].action = me.action
  BY <1>5, <1>6, <1>8 DEF CallRecord, OtherCalls
<1> HIDE DEF word
<1>10. \A w \in Words : call'[t].seen[w] = IF w = me.loads THEN table[me.owner][w]
                                                          ELSE me.seen[w]
  BY <1>3, <1>9 DEF word
<1> QED
  BY <1>1, <1>9, <1>10 DEF next, loads

(* The table that is there has been there, so the word has.                *)
LEMMA LoadStep ==
  ASSUME IInv, NEW t \in Threads, LoadWord(t)
  PROVE  IInv'
<1> DEFINE me == call[t]
           order == Conditions(me.kind)
<1>1. me.pc = "load" /\ UNCHANGED OnlyCall
  BY DEF LoadWord
<1>2. /\ OtherCalls(t)
      /\ me.loads \in Words
      /\ call'[t].pc = IF me.loads = SlotCount THEN "check" ELSE "load"
      /\ call'[t].kind = me.kind /\ call'[t].owner = me.owner /\ call'[t].arg = me.arg
      /\ call'[t].step = me.step /\ call'[t].action = me.action
      /\ call'[t].loads = me.loads + 1
      /\ \A w \in Words :
           call'[t].seen[w] = IF w = me.loads THEN table[me.owner][w] ELSE me.seen[w]
  BY LoadRecord
<1>3. /\ me.owner \in Sessions /\ me.kind \in Kinds
      /\ MutatesIn(me.kind) /\ me.action = "none"
      /\ me.kind = "rule_submit" => me.arg.matches
      /\ me.step = 5 /\ wrote[t] = "nothing" /\ table[me.owner] \in shown[t]
      /\ \A w \in Words : w < me.loads => \E m \in shown[t] : m[w] = me.seen[w]
      /\ \A i \in 1..me.step : Met(t, order[i])
  BY <1>1
     DEF IInv, CallInv, HistoryOf, PlaceOf, SeenOf, TestedOf, ReportOf, InCall, Mutating
<1>4. UNCHANGED <<memory, localTeam, experiment, armed, always, ever, shown, wrote>>
  BY <1>1 DEF OnlyCall, flags, history, writes
<1>5. HistoryOf(t)' /\ SourceOf(t)'
  BY <1>1, <1>2, <1>4, OwnHistory DEF InCall, history
<1>6. PlaceOf(t)'
  BY <1>2, <1>3, <1>4 DEF PlaceOf, InCall, Mutating, MutatesIn
<1>7. SeenOf(t)'
  <2>1. ASSUME NEW w \in Words, w < me.loads + 1
        PROVE  \E m \in shown'[t] : m[w] = call'[t].seen[w]
    <3>1. CASE w = me.loads
      BY <1>2, <1>3, <1>4, <3>1
    <3>2. CASE w # me.loads
      <4>1. w < me.loads
        BY <1>2, <2>1, <3>2 DEF Words
      <4> QED
        BY <1>2, <1>3, <1>4, <3>2, <4>1
    <3> QED
      BY <3>1, <3>2
  <2> QED
    BY <1>2, <1>3, <2>1 DEF SeenOf
<1>8. TestedOf(t)'
  <2>1. ASSUME NEW i \in 1..me.step, NEW c, c = order[i] PROVE Met(t, c)'
    <3>1. i \in 1..Len(order) /\ i < 6
      <4>1. Len(order) \in Nat /\ Len(order) > 6
        BY ConditionOrder
      <4> QED
        BY <1>3, <4>1
    <3>2. c # "local_slot" /\ c # "own_slot"
      BY <2>1, <3>1, ConditionOrder
    <3> QED
      BY <1>2, <1>3, <1>4, <2>1, <3>2 DEF Met
  <2> QED
    BY <1>2, <2>1 DEF TestedOf
<1>9. OutcomeOf(t)' /\ ReportOf(t)'
  BY <1>2, <1>3, <1>4 DEF OutcomeOf, ReportOf, Over
<1>10. ProgressOf(t)'
  <2>1. call'[t].step =< Len(order) /\ call'[t].step < Len(order)
    BY <1>2, <1>3, ConditionOrder
  <2>2. call'[t].pc = "load" => call'[t].loads \in Words
    BY <1>2, ExperimentAssumption DEF Words
  <2> QED
    BY <1>2, <2>1, <2>2 DEF ProgressOf
<1> QED
  BY <1>1, <1>2, <1>5, <1>6, <1>7, <1>8, <1>9, <1>10, CallStep DEF CallInv

(* If one slot was the local one all the time, it is the one the call has  *)
(* loaded: the identity and that slot's entry never changed, and no entry  *)
(* before it ever was the identity.                                        *)
LEMMA SeenSlot ==
  ASSUME IInv, NEW t \in Threads, call[t].pc \in {"check", "write"}, call[t].step >= 5,
         NEW i \in Slots, HeldSlot(t, i)
  PROVE  LocalSlot(call[t].seen) = i
<1> DEFINE me == call[t]
           identity == table[me.owner][0]
<1>1. /\ table[me.owner] \in shown[t]
      /\ \A m \in shown[t] : m[0] = identity /\ LocalSlot(m) = i
  BY DEF IInv, CallInv, HistoryOf, InCall, HeldSlot
<1>2. \A w \in Words : \E m \in shown[t] : m[w] = me.seen[w]
  <2>1. me.loads = SlotCount + 1
    BY DEF IInv, CallInv, SeenOf, TypeOK, CallRecord
  <2>2. \A w \in Words : w < me.loads
    BY <2>1, ExperimentAssumption DEF Words
  <2> QED
    BY <2>2 DEF IInv, CallInv, SeenOf
<1>3. \A m \in shown[t] : /\ identity # NoIdentity /\ m[i + 1] = identity
                          /\ \A j \in Slots : j < i => m[j + 1] # identity
  BY <1>1, LocalSlotIs DEF IsLocal
<1>4. me.seen[0] = identity
  BY <1>1, <1>2, WordsOfSlot
<1>5. me.seen[i + 1] = identity
  BY <1>2, <1>3, WordsOfSlot
<1>6. ASSUME NEW j \in Slots, j < i PROVE me.seen[j + 1] # identity
  <2>1. PICK m \in shown[t] : m[j + 1] = me.seen[j + 1]
    BY <1>2, WordsOfSlot
  <2> QED
    BY <1>3, <1>6, <2>1
<1>7. IsLocal(me.seen, i)
  BY <1>1, <1>3, <1>4, <1>5, <1>6 DEF IsLocal
<1> QED
  BY <1>7, LocalSlotIs

Actions == {"none", "proposal_00_to_01", "local_mirror_00_to_01"}

(* What the end of the mutation leaves in the record of the call.          *)
LEMMA ConcludeRecord ==
  ASSUME TypeOK, NEW t \in Threads, NEW a \in Actions, Conclude(t, a)
  PROVE  /\ OtherCalls(t)
         /\ call'[t].pc = IF call[t].record THEN "count" ELSE "return"
         /\ call'[t].kind = call[t].kind /\ call'[t].owner = call[t].owner
         /\ call'[t].arg = call[t].arg /\ call'[t].step = call[t].step
         /\ call'[t].action = a
<1> DEFINE next == IF call[t].record THEN "count" ELSE "return"
           acted == [call EXCEPT ![t].action = a]
<1>1. call \in [Threads -> CallRecord] /\ next \in {"count", "return"}
  BY DEF TypeOK
<1>2. call' = [acted EXCEPT ![t].pc = next]
  BY DEF Conclude
<1> HIDE DEF next
<1>3. /\ acted \in [Threads -> CallRecord]
      /\ \A u \in Threads \ {t} : acted[u] = call[u]
      /\ acted[t].kind = call[t].kind /\ acted[t].owner = call[t].owner
      /\ acted[t].arg = call[t].arg /\ acted[t].step = call[t].step
      /\ acted[t].action = a
  BY <1>1 DEF CallRecord, Actions
<1> HIDE DEF acted
<1>4. /\ OtherCalls(t)
      /\ call'[t].pc = next
      /\ call'[t].kind = call[t].kind /\ call'[t].owner = call[t].owner
      /\ call'[t].arg = call[t].arg /\ call'[t].step = call[t].step
      /\ call'[t].action = a
  BY <1>1, <1>2, <1>3 DEF CallRecord, OtherCalls
<1> QED
  BY <1>4 DEF next

(* A test that fails is a condition that does not hold now, or one on the  *)
(* local slot, which cannot fail if that slot was the local one all the    *)
(* time.                                                                   *)
LEMMA Refused ==
  ASSUME IInv, NEW t \in Threads, Refuse(t)
  PROVE  /\ call[t].kind = "rule_submit" /\ Eligible(t) => call[t].arg.team = 1
         /\ call[t].kind = "local_copy" => ~Eligible(t)
<1> DEFINE me == call[t]
           order == Conditions(me.kind)
<1> SUFFICES ASSUME NEW c, c = Tested(t), Eligible(t)
             PROVE  /\ me.kind = "rule_submit" => me.arg.team = 1
                    /\ me.kind # "local_copy"
  OBVIOUS
<1>1. /\ me.pc = "check" /\ ~Holds(t, c) /\ me.owner \in Sessions
      /\ me.step \in Nat /\ me.step + 1 \in 1..Len(order) /\ Len(order) \in Nat
      /\ always[t] \subseteq Foreign(t) /\ c = order[me.step + 1]
  BY ConditionOrder DEF Refuse, IInv, CallInv, PlaceOf, HistoryOf, InCall,
     Mutating, TypeOK, CallRecord, Tested
<1>2. me.arg.team \in {0, 1}
  BY DEF IInv, TypeOK, CallRecord, Argument, Idle
<1>3. c \notin Required(me.kind)
  BY <1>1 DEF Eligible, Foreign
<1>4. c \in OwnConditions(me.kind)
  BY <1>1, <1>3, ConditionOrder
<1>5. c # "local_slot"
  <2> SUFFICES ASSUME c = "local_slot" PROVE FALSE
    OBVIOUS
  <2>1. PICK i \in Slots : HeldSlot(t, i)
    BY DEF Eligible
  <2>2. me.step + 1 = 6
    BY <1>1, ConditionOrder
  <2>3. LocalSlot(me.seen) = i
    BY <1>1, <2>1, <2>2, SeenSlot
  <2> QED
    BY <1>1, <2>3 DEF Holds
<1>6. c # "own_slot"
  <2> SUFFICES ASSUME c = "own_slot" PROVE FALSE
    OBVIOUS
  <2>1. me.kind = "rule_submit" /\ HeldSlot(t, me.arg.slot) /\ me.arg.slot \in Slots
    BY <1>4 DEF OwnConditions, Eligible, HeldSlot
  <2>2. me.step + 1 > 6
    BY <1>1, ConditionOrder
  <2>3. LocalSlot(me.seen) = me.arg.slot
    BY <1>1, <2>1, <2>2, SeenSlot
  <2> QED
    BY <1>1, <2>3 DEF Holds
<1>7. me.kind = "rule_submit" /\ c \in {"proposal_off", "origin"}
  BY <1>4, <1>5, <1>6 DEF OwnConditions
<1>8. c = "proposal_off"
  BY <1>1, <1>7 DEF Holds, Eligible
<1> QED
  BY <1>1, <1>2, <1>7, <1>8 DEF Holds

(* A condition that fails was not one that always held, so the call was    *)
(* not eligible.                                                           *)
LEMMA RefuseStep ==
  ASSUME IInv, NEW t \in Threads, Refuse(t)
  PROVE  IInv'
<1>1. call[t].pc = "check" /\ Conclude(t, "none") /\ UNCHANGED OnlyCall
  BY DEF Refuse
<1>2. /\ OtherCalls(t)
      /\ call'[t].pc \in {"count", "return"}
      /\ call'[t].kind = call[t].kind /\ call'[t].owner = call[t].owner
      /\ call'[t].arg = call[t].arg /\ call'[t].step = call[t].step
      /\ call'[t].action = "none"
  BY <1>1, ConcludeRecord DEF IInv, Actions
<1>3. /\ call[t].owner \in Sessions /\ call[t].kind \in Kinds
      /\ UNCHANGED <<experiment, always, shown, wrote>> /\ wrote[t] = "nothing"
  BY <1>1 DEF IInv, CallInv, PlaceOf, ReportOf, InCall, OnlyCall, flags, history, writes
<1>4. HistoryOf(t)' /\ SourceOf(t)'
  BY <1>1, <1>2, <1>3, OwnHistory DEF InCall, OnlyCall
<1>5. PlaceOf(t)' /\ SeenOf(t)' /\ TestedOf(t)'
  BY <1>2, <1>3 DEF PlaceOf, SeenOf, TestedOf, InCall, Mutating
<1>6. OutcomeOf(t)'
  <2>1. Eligible(t)' => Eligible(t)
    BY <1>2, <1>3 DEF Eligible, HeldSlot
  <2> QED
    BY <1>2, <1>3, <2>1, Refused DEF OutcomeOf
<1>7. ReportOf(t)'
  BY <1>2, <1>3 DEF ReportOf, Over
<1>8. ProgressOf(t)'
  BY <1>2 DEF IInv, TypeOK, ProgressOf
<1> QED
  BY <1>1, <1>2, <1>4, <1>5, <1>6, <1>7, <1>8, CallStep DEF CallInv

(* An argument whose team is turned on differs in that only.               *)
LEMMA TeamOn ==
  \A a \in Argument :
    LET on == [a EXCEPT !.team = 1] IN
    /\ on \in Argument /\ on.team = 1 /\ on.slot = a.slot
    /\ on.matches = a.matches /\ on.origin = a.origin
BY DEF Argument

(* What the write of a proposal leaves in the record of the call.          *)
LEMMA WriteProposalRecord ==
  ASSUME IInv, NEW t \in Threads, WriteProposal(t)
  PROVE  LET me == call[t] IN
         /\ OtherCalls(t)
         /\ call'[t].pc = "readback"
         /\ call'[t].kind = me.kind /\ call'[t].owner = me.owner
         /\ call'[t].action = me.action /\ call'[t].step = me.step
         /\ call'[t].arg.team = 1 /\ call'[t].arg.slot = me.arg.slot
         /\ call'[t].arg.matches = me.arg.matches
<1> DEFINE me == call[t]
           on == [me.arg EXCEPT !.team = 1]
           written == [call EXCEPT ![t].arg = on]
<1>1. /\ me.pc = "write" /\ me.kind = "rule_submit"
      /\ UNCHANGED <<memory, localTeam, flags, armed, counters, bounds, history>>
      /\ changed' = changed \cup {me.owner}
      /\ wrote' = [wrote EXCEPT ![t] = "proposal"]
  BY DEF WriteProposal
<1>2. /\ me.owner \in Sessions /\ me.kind \in Kinds
      /\ me.arg.matches /\ MutatesIn(me.kind)
      /\ me.action = "none" /\ call \in [Threads -> CallRecord]
      /\ changed \subseteq Sessions /\ me.step =< Len(Conditions(me.kind))
  BY <1>1 DEF IInv, CallInv, PlaceOf, InCall, Mutating, TypeOK
<1>3. me.arg \in Argument
  BY <1>2 DEF CallRecord, Idle
<1>4. /\ on \in Argument /\ on.team = 1 /\ on.slot = me.arg.slot
      /\ on.matches = me.arg.matches
  BY <1>3, TeamOn
<1>5. call' = [written EXCEPT ![t].pc = "readback"]
  BY DEF WriteProposal
<1> HIDE DEF on
<1>6. /\ written \in [Threads -> CallRecord]
      /\ \A u \in Threads \ {t} : written[u] = call[u]
      /\ written[t].kind = me.kind /\ written[t].owner = me.owner
      /\ written[t].action = me.action /\ written[t].step = me.step
      /\ written[t].arg = on
  BY <1>2, <1>4 DEF CallRecord
<1> HIDE DEF written
<1> QED
  BY <1>4, <1>5, <1>6 DEF CallRecord, OtherCalls

(* The write of a proposal marks its session and leaves the team on.       *)
LEMMA WriteProposalStep ==
  ASSUME IInv, NEW t \in Threads, WriteProposal(t)
  PROVE  IInv'
<1> DEFINE me == call[t]
<1>1. /\ me.pc = "write" /\ me.kind = "rule_submit"
      /\ UNCHANGED <<memory, localTeam, flags, armed, counters, bounds, history>>
      /\ changed' = changed \cup {me.owner}
      /\ wrote' = [wrote EXCEPT ![t] = "proposal"]
  BY DEF WriteProposal
<1>2. /\ me.owner \in Sessions /\ me.kind \in Kinds
      /\ me.arg.matches /\ MutatesIn(me.kind)
      /\ me.action = "none" /\ call \in [Threads -> CallRecord]
      /\ changed \subseteq Sessions /\ me.step =< Len(Conditions(me.kind))
      /\ wrote'[t] = "proposal" /\ \A u \in Threads \ {t} : wrote'[u] = wrote[u]
      /\ wrote' \in [Threads -> {"nothing", "proposal", "source", "overwritten"}]
  BY <1>1 DEF IInv, CallInv, PlaceOf, InCall, Mutating, TypeOK
<1>3. /\ OtherCalls(t)
      /\ call'[t].pc = "readback"
      /\ call'[t].kind = me.kind /\ call'[t].owner = me.owner
      /\ call'[t].action = me.action /\ call'[t].step = me.step
      /\ call'[t].arg.team = 1 /\ call'[t].arg.slot = me.arg.slot
      /\ call'[t].arg.matches = me.arg.matches
  BY WriteProposalRecord
<1>4. HistoryOf(t)' /\ SourceOf(t)'
  BY <1>1, <1>2, <1>3, OwnHistory DEF InCall, SourceOf
<1>5. PlaceOf(t)' /\ SeenOf(t)' /\ TestedOf(t)'
  BY <1>1, <1>2, <1>3 DEF PlaceOf, SeenOf, TestedOf, InCall, Mutating, MutatesIn, flags
<1>6. OutcomeOf(t)' /\ ReportOf(t)'
  BY <1>1, <1>2, <1>3 DEF OutcomeOf, ReportOf, Over
<1>7. Records'
  BY <1>1, <1>2, SameRecords
<1>8. ProgressOf(t)'
  BY <1>2, <1>3 DEF ProgressOf
<1> QED
  BY <1>1, <1>2, <1>3, <1>4, <1>5, <1>6, <1>7, <1>8, StepKeeps DEF CallInv

(* A step of one call that changes what others observe as well.            *)
LEMMA WitnessKeeps ==
  ASSUME IInv, NEW t \in Threads, Witness, UNCHANGED <<memory, flags, counters, changed>>,
         localTeam' \in [Sessions -> {0, 1}], armed' \in Sessions \cup {NoSession},
         \A s \in Sessions : localTeam[s] = 1 => localTeam'[s] = 1,
         wrote' \in [Threads -> {"nothing", "proposal", "source", "overwritten"}],
         \A u \in Threads \ {t} : wrote'[u] = wrote[u],
         OtherCalls(t), CallInv(t)',
         call'[t].step =< Len(Conditions(call'[t].kind)), call'[t].pc \notin {"check", "load"}
  PROVE  IInv'
<1>1. TypeOK'
  <2>1. table' = table /\ table \in [Sessions -> Table]
    BY DEF IInv, TypeOK, memory
  <2>2. \A u \in Threads : InCall(u) => call[u].owner \in Sessions
    BY DEF IInv, CallInv, PlaceOf
  <2>3. /\ always' \in [Threads -> SUBSET Observed] /\ ever' \in [Threads -> SUBSET Observed]
        /\ shown' \in [Threads -> SUBSET Table]
    BY <2>1, <2>2, WitnessType DEF IInv
  <2>4. /\ call' \in [Threads -> CallRecord]
        /\ \A u \in Threads :
             /\ call'[u].step =< Len(Conditions(call'[u].kind))
             /\ call'[u].pc \in {"check", "load"} =>
                  call'[u].step < Len(Conditions(call'[u].kind))
             /\ call'[u].pc = "load" => call'[u].loads \in Words
    BY DEF IInv, TypeOK, OtherCalls
  <2>5. \A k \in Kinds, m \in BOOLEAN : Cardinality(InBank(k, m)') =< BankLimit
    BY DEF IInv, TypeOK, counters, InBank
  <2> QED
    BY <2>3, <2>4, <2>5 DEF IInv, TypeOK, memory, flags, counters
<1>2. \A u \in Threads \ {t} : CallInv(u)'
  <2> SUFFICES ASSUME NEW u \in Threads \ {t} PROVE CallInv(u)'
    OBVIOUS
  <2>1. OneWord(u)
    BY ExperimentAssumption DEF OneWord, memory, Words
  <2>2. CallInv(u) /\ call'[u] = call[u] /\ experiment' = experiment /\ Overwritten(u)
    BY DEF IInv, flags, OtherCalls, Overwritten
  <2>3. SourceOf(u)'
    <3>1. wrote[u] = "source" => call[u].owner \in Sessions
      BY <2>2 DEF CallInv, PlaceOf, ReportOf, InCall
    <3> QED
      BY <2>2, <3>1 DEF CallInv, SourceOf
  <2> QED
    BY <2>1, <2>2, <2>3, WitnessSteady
<1> QED
  BY <1>1, <1>2 DEF IInv

(* local_copy's own write ends source_off, so the call is eligible no      *)
(* more.                                                                   *)
LEMMA WriteSourceStep ==
  ASSUME IInv, NEW t \in Threads, WriteSource(t)
  PROVE  IInv'
<1> DEFINE me == call[t]
<1>1. /\ me.pc = "write" /\ me.kind # "rule_submit" /\ Goto(t, "readback") /\ Witness
      /\ localTeam' = [localTeam EXCEPT ![me.owner] = 1]
      /\ wrote' = [wrote EXCEPT ![t] = "source"]
      /\ UNCHANGED <<memory, flags, armed, counters, changed>>
  BY DEF WriteSource
<1>2. /\ me.owner \in Sessions /\ me.kind \in Kinds
      /\ MutatesIn(me.kind) /\ me.kind = "local_copy"
      /\ me.action = "none" /\ me.step =< Len(Conditions(me.kind)) /\ HistoryOf(t)
      /\ localTeam \in [Sessions -> {0, 1}] /\ armed \in Sessions \cup {NoSession}
      /\ world \subseteq SharedConditions
      /\ session[me.owner] \subseteq SessionConditions
  BY <1>1 DEF IInv, CallInv, PlaceOf, InCall, Mutating, TypeOK, MutatesIn
<1>3. /\ OtherCalls(t) /\ call'[t].pc = "readback" /\ call'[t].kind = me.kind
      /\ call'[t].owner = me.owner /\ call'[t].step = me.step
      /\ call'[t].action = me.action
  BY <1>1, GotoRecord DEF IInv, Places
<1>4. /\ localTeam'[me.owner] = 1 /\ localTeam' \in [Sessions -> {0, 1}]
      /\ \A s \in Sessions : localTeam[s] = 1 => localTeam'[s] = 1
  BY <1>1, <1>2
<1>5. /\ wrote'[t] = "source" /\ \A u \in Threads \ {t} : wrote'[u] = wrote[u]
      /\ wrote' \in [Threads -> {"nothing", "proposal", "source", "overwritten"}]
  BY <1>1 DEF IInv, TypeOK
<1>6. HistoryOf(t)' /\ SourceOf(t)'
  <2>1. OneWord(t)
    BY <1>1, ExperimentAssumption DEF OneWord, memory, Words
  <2> QED
    BY <1>1, <1>2, <1>3, <1>4, <2>1, Witnessed DEF InCall, SourceOf
<1>7. "source_off" \notin Foreign(t)'
  BY <1>1, <1>2, <1>3, <1>4
     DEF Foreign, Holds, memory, SharedConditions, SessionConditions
<1>8. PlaceOf(t)' /\ SeenOf(t)' /\ TestedOf(t)'
  BY <1>1, <1>2, <1>3 DEF PlaceOf, SeenOf, TestedOf, InCall, Mutating, MutatesIn, flags
<1>9. OutcomeOf(t)'
  <2>1. ~Eligible(t)'
    BY <1>2, <1>3, <1>6, <1>7 DEF Eligible, Required, HistoryOf, InCall
  <2> QED
    BY <1>2, <1>3, <2>1 DEF OutcomeOf
<1>10. ReportOf(t)'
  BY <1>1, <1>3, <1>5 DEF ReportOf, Over
<1> QED
  BY <1>1, <1>2, <1>3, <1>4, <1>5, <1>6, <1>8, <1>9, <1>10, WitnessKeeps DEF CallInv

(* A proposal that reads back right is about to be armed, any other is     *)
(* not.                                                                    *)
LEMMA ReadBackProposalStep ==
  ASSUME IInv, NEW t \in Threads, ReadBackProposal(t)
  PROVE  IInv'
<1> DEFINE me == call[t]
<1>1. /\ me.pc = "readback" /\ me.kind = "rule_submit" /\ UNCHANGED OnlyCall
      /\ me.arg.team = 1 => Goto(t, "arm")
  BY DEF ReadBackProposal
<1>2. /\ me.arg.team = 1 /\ me.owner \in Sessions /\ me.kind \in Kinds
      /\ MutatesIn(me.kind) /\ me.arg.matches
      /\ me.action = "none" /\ me.step =< Len(Conditions(me.kind))
      /\ wrote[t] = "proposal" /\ wrote'[t] = wrote[t]
  BY <1>1 DEF IInv, CallInv, PlaceOf, OutcomeOf, ReportOf, InCall, Mutating, TypeOK,
     OnlyCall, writes
<1>3. /\ OtherCalls(t) /\ call'[t].pc = "arm" /\ call'[t].kind = me.kind
      /\ call'[t].owner = me.owner /\ call'[t].step = me.step
      /\ call'[t].action = me.action /\ call'[t].arg = me.arg
  BY <1>1, <1>2, GotoRecord DEF IInv, Places
<1>4. HistoryOf(t)' /\ SourceOf(t)'
  BY <1>1, <1>2, <1>3, OwnHistory DEF InCall, OnlyCall
<1>5. PlaceOf(t)' /\ SeenOf(t)' /\ TestedOf(t)'
  BY <1>1, <1>2, <1>3 DEF PlaceOf, SeenOf, TestedOf, InCall, Mutating, MutatesIn, OnlyCall,
     flags
<1>6. OutcomeOf(t)' /\ ReportOf(t)' /\ ProgressOf(t)'
  BY <1>1, <1>2, <1>3 DEF OutcomeOf, ReportOf, ProgressOf, Over
<1> QED
  BY <1>1, <1>2, <1>3, <1>4, <1>5, <1>6, CallStep DEF CallInv

(* A source that reads back wrong is reported as no action, and one that   *)
(* nobody wrote over reads back right.                                     *)
LEMMA ReadBackSourceStep ==
  ASSUME IInv, NEW t \in Threads, ReadBackSource(t)
  PROVE  IInv'
<1> DEFINE me == call[t]
           a == IF localTeam[me.owner] = 1 THEN "local_mirror_00_to_01" ELSE "none"
<1>1. /\ me.pc = "readback" /\ me.kind # "rule_submit" /\ UNCHANGED OnlyCall
      /\ Conclude(t, a)
  BY DEF ReadBackSource
<1>2. /\ me.owner \in Sessions /\ me.kind \in Kinds
      /\ experiment /\ me.kind = "local_copy" /\ ~Eligible(t)
      /\ me.step =< Len(Conditions(me.kind))
      /\ wrote[t] \in {"source", "overwritten"}
      /\ wrote[t] = "source" => localTeam[me.owner] = 1
  BY <1>1
     DEF IInv, CallInv, SourceOf, PlaceOf, OutcomeOf, ReportOf, InCall, Mutating, TypeOK,
         MutatesIn
<1>3. /\ a \in {"none", "local_mirror_00_to_01"}
      /\ wrote[t] = "source" => a = "local_mirror_00_to_01"
  BY <1>2
<1> HIDE DEF a
<1>4. /\ OtherCalls(t) /\ call'[t].pc \in {"count", "return"} /\ call'[t].kind = me.kind
      /\ call'[t].owner = me.owner /\ call'[t].step = me.step
      /\ call'[t].action = a /\ call'[t].arg = me.arg
  BY <1>1, <1>3, ConcludeRecord DEF IInv, Actions
<1>5. UNCHANGED <<experiment, always, shown, wrote>>
  BY <1>1 DEF OnlyCall, flags, history, writes
<1>6. HistoryOf(t)' /\ SourceOf(t)'
  BY <1>1, <1>4, <1>5, OwnHistory DEF InCall, OnlyCall
<1>7. PlaceOf(t)' /\ SeenOf(t)' /\ TestedOf(t)'
  BY <1>2, <1>4 DEF PlaceOf, SeenOf, TestedOf, InCall, Mutating
<1>8. OutcomeOf(t)'
  BY <1>1, <1>2, <1>3, <1>4, <1>5 DEF OutcomeOf, Eligible, HeldSlot
<1>9. ReportOf(t)' /\ ProgressOf(t)'
  BY <1>2, <1>3, <1>4, <1>5 DEF ReportOf, ProgressOf, Over
<1> QED
  BY <1>1, <1>2, <1>4, <1>6, <1>7, <1>8, <1>9, CallStep DEF CallInv

(* Arming ends the call with the one action that says so.                  *)
LEMMA ArmStep ==
  ASSUME IInv, NEW t \in Threads, Arm(t)
  PROVE  IInv'
<1> DEFINE me == call[t]
<1>1. /\ me.pc = "arm" /\ Conclude(t, "proposal_00_to_01") /\ Witness
      /\ armed' = me.owner
      /\ UNCHANGED <<memory, localTeam, flags, counters, wrote, changed>>
  BY DEF Arm, writes
<1>2. /\ me.owner \in Sessions /\ me.kind \in Kinds
      /\ experiment /\ me.kind = "rule_submit"
      /\ me.arg.team = 1 /\ me.step =< Len(Conditions(me.kind)) /\ HistoryOf(t)
      /\ localTeam \in [Sessions -> {0, 1}]
      /\ wrote \in [Threads -> {"nothing", "proposal", "source", "overwritten"}]
      /\ wrote[t] = "proposal"
  BY <1>1
     DEF IInv, CallInv, PlaceOf, OutcomeOf, ReportOf, InCall, Mutating, TypeOK, MutatesIn
<1>3. /\ OtherCalls(t) /\ call'[t].pc \in {"count", "return"} /\ call'[t].kind = me.kind
      /\ call'[t].owner = me.owner /\ call'[t].step = me.step
      /\ call'[t].action = "proposal_00_to_01" /\ call'[t].arg = me.arg
  BY <1>1, ConcludeRecord DEF IInv, Actions
<1>4. HistoryOf(t)' /\ SourceOf(t)'
  <2>1. OneWord(t)
    BY <1>1, ExperimentAssumption DEF OneWord, memory, Words
  <2> QED
    BY <1>1, <1>2, <1>3, <2>1, Witnessed DEF InCall, SourceOf
<1>5. PlaceOf(t)' /\ SeenOf(t)' /\ TestedOf(t)'
  BY <1>2, <1>3 DEF PlaceOf, SeenOf, TestedOf, InCall, Mutating
<1>6. OutcomeOf(t)' /\ ReportOf(t)'
  BY <1>1, <1>2, <1>3 DEF OutcomeOf, ReportOf, Over, flags
<1> QED
  BY <1>1, <1>2, <1>3, <1>4, <1>5, <1>6, WitnessKeeps DEF CallInv

-----------------------------------------------------------------------------
(* The recording half of observe, and the ends of a call                   *)

(* The event that is counted for tells what the call has done.             *)
LEMMA CountStep ==
  ASSUME IInv, NEW t \in Threads, Count(t)
  PROVE  IInv'
<1> DEFINE me == call[t]
           coop == "mode" \in world
           moded == [call EXCEPT ![t].mode = coop]
<1>1. /\ me.pc = "count" /\ calls' = [calls EXCEPT ![me.kind] = @ + 1]
      /\ UNCHANGED <<memory, localTeam, flags, armed, dropped, events, history, writes>>
      /\ call' = [moded EXCEPT ![t].pc = "capture"]
  BY DEF Count
<1>2. /\ me.owner \in Sessions /\ me.kind \in Kinds
      /\ me.step =< Len(Conditions(me.kind)) /\ call \in [Threads -> CallRecord]
      /\ coop \in BOOLEAN /\ HistoryOf(t)
  BY <1>1 DEF IInv, CallInv, PlaceOf, InCall, TypeOK
<1> HIDE DEF coop
<1>3. /\ moded \in [Threads -> CallRecord]
      /\ \A u \in Threads \ {t} : moded[u] = call[u]
      /\ moded[t].kind = me.kind /\ moded[t].owner = me.owner
      /\ moded[t].arg = me.arg /\ moded[t].step = me.step
      /\ moded[t].action = me.action
  BY ONLY t \in Threads, <1>2 DEF CallRecord
<1> HIDE DEF moded
<1>4. /\ OtherCalls(t) /\ call'[t].pc = "capture"
      /\ call'[t].kind = me.kind /\ call'[t].owner = me.owner
      /\ call'[t].arg = me.arg /\ call'[t].step = me.step
      /\ call'[t].action = me.action
  BY <1>1, <1>3 DEF CallRecord, OtherCalls
<1>5. HistoryOf(t)' /\ SourceOf(t)'
  BY <1>1, <1>4, OwnHistory DEF InCall, writes
<1>6. PlaceOf(t)' /\ SeenOf(t)' /\ TestedOf(t)'
  BY <1>2, <1>4 DEF PlaceOf, SeenOf, TestedOf, InCall, Mutating
<1>7. OutcomeOf(t)' /\ ReportOf(t)'
  <2>1. OutcomeOf(t)'
    BY <1>1, <1>4 DEF IInv, CallInv, OutcomeOf, Eligible, HeldSlot, flags, history, Over
  <2>2. ReportOf(t)'
    BY <1>1, <1>4 DEF IInv, CallInv, ReportOf, writes, Over
  <2> QED
    BY <2>1, <2>2
<1>8. Records'
  <2>1. calls' \in [Kinds -> Nat]
    <3>1. calls \in [Kinds -> Nat] /\ calls[me.kind] + 1 \in Nat
      BY <1>2 DEF IInv, TypeOK
    <3> QED
      BY <1>1, <3>1
  <2>2. \A k, m : InBank(k, m)' = InBank(k, m)
    BY <1>1 DEF InBank
  <2> QED
    BY <1>1, <2>1, <2>2 DEF IInv, TypeOK, Records, writes
<1>9. ProgressOf(t)'
  BY <1>2, <1>4 DEF ProgressOf
<1> QED
  BY <1>1, <1>2, <1>4, <1>5, <1>6, <1>7, <1>8, <1>9, StepKeeps DEF CallInv, writes

(* A call moves to its end and only the records change.                    *)
LEMMA ReturnKeeps ==
  ASSUME IInv, NEW t \in Threads, call[t].pc = "capture", Goto(t, "return"), Records',
         UNCHANGED <<memory, localTeam, flags, armed, history, wrote>>
  PROVE  IInv'
<1> DEFINE me == call[t]
<1>1. /\ me.owner \in Sessions /\ me.kind \in Kinds
      /\ me.step =< Len(Conditions(me.kind)) /\ HistoryOf(t)
  BY DEF IInv, CallInv, PlaceOf, InCall, TypeOK
<1>2. /\ OtherCalls(t) /\ call'[t].pc = "return"
      /\ call'[t].kind = me.kind /\ call'[t].owner = me.owner
      /\ call'[t].arg = me.arg /\ call'[t].step = me.step
      /\ call'[t].action = me.action
  BY GotoRecord DEF IInv, Places
<1>3. HistoryOf(t)' /\ SourceOf(t)'
  BY <1>2, OwnHistory DEF InCall
<1>4. PlaceOf(t)' /\ SeenOf(t)' /\ TestedOf(t)'
  BY <1>1, <1>2 DEF PlaceOf, SeenOf, TestedOf, InCall, Mutating
<1>5. OutcomeOf(t)'
  BY <1>2 DEF IInv, CallInv, OutcomeOf, Eligible, HeldSlot, flags, history, Over
<1>6. ReportOf(t)'
  BY <1>2 DEF IInv, CallInv, ReportOf, Over
<1>7. ProgressOf(t)'
  BY <1>1, <1>2 DEF ProgressOf
<1> QED
  BY <1>1, <1>2, <1>3, <1>4, <1>5, <1>6, <1>7, StepKeeps DEF CallInv

(* A bank is a finite set of positions, and a new event joins one bank.    *)
LEMMA BankGrows ==
  ASSUME TypeOK, NEW e, events' = Append(events, e), NEW k, NEW m
  PROVE  /\ IsFiniteSet(InBank(k, m)) /\ Len(events) + 1 \notin InBank(k, m)
         /\ InBank(k, m)' = IF e.kind = k /\ e.mode = m
                            THEN InBank(k, m) \cup {Len(events) + 1} ELSE InBank(k, m)
<1>1. /\ Len(events) \in Nat /\ DOMAIN events = 1..Len(events)
      /\ DOMAIN events' = 1..(Len(events) + 1)
      /\ \A i \in 1..Len(events) : events'[i] = events[i]
      /\ events'[Len(events) + 1] = e
  BY DEF TypeOK
<1>2. IsFiniteSet(1..Len(events)) /\ InBank(k, m) \subseteq 1..Len(events)
  BY <1>1, FS_Interval DEF InBank
<1>3. IsFiniteSet(InBank(k, m)) /\ Len(events) + 1 \notin InBank(k, m)
  BY <1>1, <1>2, FS_Subset
<1>4. InBank(k, m)' = {i \in 1..(Len(events) + 1) : events'[i].kind = k /\ events'[i].mode = m}
  BY <1>1 DEF InBank
<1>5. InBank(k, m) = {i \in 1..Len(events) : events[i].kind = k /\ events[i].mode = m}
  BY <1>1 DEF InBank
<1>6. InBank(k, m)' = IF e.kind = k /\ e.mode = m
                      THEN InBank(k, m) \cup {Len(events) + 1} ELSE InBank(k, m)
  BY <1>1, <1>4, <1>5
<1> QED
  BY <1>3, <1>6

(* The event that is stored says of the call what is true of it.           *)
LEMMA CaptureStep ==
  ASSUME IInv, NEW t \in Threads, Capture(t)
  PROVE  IInv'
<1> DEFINE me == call[t]
           e == [kind |-> me.kind, mode |-> me.mode, team |-> ReportedTeam(me),
                 action |-> me.action]
<1>1. /\ me.pc = "capture" /\ Goto(t, "return") /\ events' = Append(events, e)
      /\ Cardinality(InBank(me.kind, me.mode)) < BankLimit
      /\ UNCHANGED <<memory, localTeam, flags, armed, calls, dropped, history, writes>>
  BY DEF Capture
<1>2. /\ me.owner \in Sessions /\ me.kind \in AllKinds /\ me.mode \in BOOLEAN
      /\ me.action \in Actions /\ me.arg.team \in {0, 1} /\ OutcomeOf(t)
      /\ localTeam[me.owner] \in {0, 1}
  BY <1>1, ExperimentAssumption
     DEF IInv, CallInv, PlaceOf, InCall, TypeOK, CallRecord, Actions, Argument, Idle
<1>3. ReportedTeam(me) \in {0, 1}
  BY <1>2 DEF ReportedTeam
<1>4. e \in [kind : AllKinds, mode : BOOLEAN, team : {0, 1},
             action : {"none", "proposal_00_to_01", "local_mirror_00_to_01"}]
  BY <1>2, <1>3 DEF Actions
<1>5. e.kind = me.kind /\ e.mode = me.mode
  OBVIOUS
<1> HIDE DEF e
<1>6. events' \in Seq([kind : AllKinds, mode : BOOLEAN, team : {0, 1},
                       action : {"none", "proposal_00_to_01", "local_mirror_00_to_01"}])
  BY <1>1, <1>4 DEF IInv, TypeOK
<1>7. ASSUME NEW k \in Kinds, NEW m \in BOOLEAN
      PROVE  Cardinality(InBank(k, m)') =< BankLimit
  <2>1. /\ IsFiniteSet(InBank(k, m)) /\ Len(events) + 1 \notin InBank(k, m)
        /\ InBank(k, m)' = IF e.kind = k /\ e.mode = m
                           THEN InBank(k, m) \cup {Len(events) + 1} ELSE InBank(k, m)
    BY <1>1, BankGrows DEF IInv
  <2>2. Cardinality(InBank(k, m)) \in Nat /\ Cardinality(InBank(k, m)) =< BankLimit
    BY <2>1, FS_CardinalityType DEF IInv, TypeOK
  <2>3. Cardinality(InBank(k, m) \cup {Len(events) + 1}) = Cardinality(InBank(k, m)) + 1
    BY <2>1, FS_AddElement
  <2> QED
    BY <1>1, <1>5, <2>1, <2>2, <2>3, ExperimentAssumption
<1>8. Records'
  BY <1>1, <1>6, <1>7 DEF IInv, TypeOK, Records, writes
<1> QED
  BY <1>1, <1>8, ReturnKeeps DEF writes

(* A dropped event is counted as dropped and stores nothing.               *)
LEMMA DropStep ==
  ASSUME IInv, NEW t \in Threads, Drop(t)
  PROVE  IInv'
<1>1. /\ call[t].pc = "capture" /\ Goto(t, "return") /\ dropped' = dropped + 1
      /\ UNCHANGED <<memory, localTeam, flags, armed, calls, events, history, writes>>
  BY DEF Drop
<1>2. Records'
  BY <1>1 DEF IInv, TypeOK, Records, InBank, writes
<1> QED
  BY <1>1, <1>2, ReturnKeeps DEF writes

(* A call that has left is idle.                                           *)
LEMMA LeaveStep ==
  ASSUME IInv, NEW t \in Threads, Leave(t)
  PROVE  IInv'
<1>1. /\ call' = [call EXCEPT ![t] = Idle]
      /\ always' = [always EXCEPT ![t] = {}] /\ ever' = [ever EXCEPT ![t] = {}]
      /\ shown' = [shown EXCEPT ![t] = {}] /\ wrote' = [wrote EXCEPT ![t] = "nothing"]
      /\ UNCHANGED <<memory, localTeam, flags, armed, counters, changed>>
  BY DEF Leave
<1>2. call \in [Threads -> CallRecord] /\ Idle \in CallRecord
  BY ExperimentAssumption DEF IInv, TypeOK, CallRecord, Idle, Table
<1>3. OtherCalls(t) /\ call'[t] = Idle
  BY <1>1, <1>2 DEF OtherCalls
<1>4. OtherHistories(t)
  BY <1>1 DEF IInv, TypeOK, OtherHistories
<1>5. CallInv(t)'
  <2>1. wrote'[t] = "nothing"
    BY <1>1 DEF IInv, TypeOK
  <2> QED
    BY <1>3, <2>1 DEF CallInv, HistoryOf, SourceOf, PlaceOf, SeenOf, TestedOf, OutcomeOf,
       ReportOf, InCall, Mutating, Over, Idle
<1>6. Records'
  BY <1>1, SameRecords DEF IInv, TypeOK
<1>7. ProgressOf(t)'
  <2>1. Len(Conditions(Idle.kind)) \in Nat /\ Idle.step = 0 /\ Idle.pc = "idle"
    BY ConditionOrder DEF Idle
  <2> QED
    BY <1>3, <2>1 DEF ProgressOf
<1> QED
  BY <1>1, <1>3, <1>4, <1>5, <1>6, <1>7, EdgeKeeps

(* A call enters with its history begun at what holds then.                *)
LEMMA EnterStep ==
  ASSUME IInv, NEW t \in Threads, Enter(t)
  PROVE  IInv'
<1>1. PICK k \in Kinds, s \in Sessions, a \in Arguments \cup {Idle.arg} :
        call' = [call EXCEPT ![t] =
                  [Idle EXCEPT !.pc = "policy", !.kind = k, !.owner = s, !.arg = a]]
  BY DEF Enter
<1> DEFINE new == [Idle EXCEPT !.pc = "policy", !.kind = k, !.owner = s, !.arg = a]
<1>2. /\ always' = [always EXCEPT ![t] = Foreign(t)'] /\ ever' = [ever EXCEPT ![t] = Foreign(t)']
      /\ shown' = [shown EXCEPT ![t] = {table[call'[t].owner]}]
      /\ UNCHANGED <<memory, localTeam, flags, armed, counters, writes>>
  BY DEF Enter
<1>3. /\ new \in CallRecord /\ new.pc = "policy" /\ new.kind = k /\ new.owner = s
      /\ new.step = 0 /\ new.action = "none" /\ new.loads = 0
  <2>1. Idle.seen \in Table /\ 0 \in 0..(SlotCount + 1)
    BY ExperimentAssumption DEF Idle, Table
  <2>2. k \in AllKinds /\ a \in Argument \cup {Idle.arg}
    BY ExperimentAssumption
  <2> QED
    BY <2>1, <2>2 DEF Idle, CallRecord
<1> HIDE DEF new
<1>4. OtherCalls(t) /\ call'[t] = new
  BY <1>1, <1>3 DEF IInv, TypeOK, OtherCalls, new
<1>5. /\ OtherHistories(t) /\ always'[t] = Foreign(t)' /\ ever'[t] = Foreign(t)'
      /\ shown'[t] = {table[s]} /\ table' = table
      /\ wrote'[t] = wrote[t] /\ wrote[t] = "nothing"
  <2>1. Foreign(t)' \subseteq Observed
    BY DEF Foreign
  <2>2. table[s] \in Table /\ call'[t].owner = s
    BY <1>3, <1>4 DEF IInv, TypeOK
  <2>3. wrote[t] = "nothing"
    BY DEF Enter, IInv, CallInv, ReportOf, InCall
  <2> QED
    BY <1>2, <2>1, <2>2, <2>3 DEF IInv, TypeOK, OtherHistories, memory, writes
<1>6. CallInv(t)'
  <2>1. HistoryOf(t)'
    BY <1>3, <1>4, <1>5 DEF HistoryOf
  <2>2. SourceOf(t)' /\ PlaceOf(t)' /\ SeenOf(t)' /\ TestedOf(t)'
    BY <1>3, <1>4, <1>5 DEF SourceOf, PlaceOf, SeenOf, TestedOf, InCall, Mutating
  <2>3. OutcomeOf(t)' /\ ReportOf(t)'
    BY <1>3, <1>4, <1>5 DEF OutcomeOf, ReportOf, Over
  <2> QED
    BY <2>1, <2>2, <2>3 DEF CallInv
<1>7. Records'
  BY <1>2, SameRecords DEF IInv, TypeOK, writes
<1>8. ProgressOf(t)'
  <2>1. Len(Conditions(new.kind)) \in Nat
    BY ConditionOrder
  <2> QED
    BY <1>3, <1>4, <2>1 DEF ProgressOf
<1> QED
  BY <1>2, <1>3, <1>4, <1>5, <1>6, <1>7, <1>8, EdgeKeeps

-----------------------------------------------------------------------------
(* The game and the plugin's other threads                                 *)

(* What the game changes is seen by the history of every call.             *)
LEMMA ChangeStep ==
  ASSUME IInv, Change
  PROVE  IInv'
<1> DEFINE Written == {"nothing", "proposal", "source", "overwritten"}
<1>1. Witness /\ UNCHANGED <<armed, call, flags, counters, changed>>
  BY DEF Change
<1>2. /\ world' \subseteq SharedConditions
      /\ session' \in [Sessions -> SUBSET SessionConditions]
      /\ table' \in [Sessions -> Table]
      /\ localTeam' \in [Sessions -> {0, 1}]
      /\ wrote' \in [Threads -> Written]
      /\ \A t \in Threads : InCall(t) => OneWord(t)
      /\ \A t \in Threads : Overwritten(t) /\ SourceOf(t)'
  <2>1. /\ world \subseteq SharedConditions
        /\ session \in [Sessions -> SUBSET SessionConditions]
        /\ table \in [Sessions -> Table]
        /\ localTeam \in [Sessions -> {0, 1}]
        /\ wrote \in [Threads -> Written]
        /\ \A t \in Threads : SourceOf(t) /\ (InCall(t) => call[t].owner \in Sessions)
        /\ \A t \in Threads : wrote[t] = "source" => InCall(t)
    BY DEF IInv, TypeOK, CallInv, PlaceOf, ReportOf, InCall
  <2>2. table' = table => \A t \in Threads : OneWord(t)
    BY ExperimentAssumption DEF OneWord, Words
  <2>3. UNCHANGED <<localTeam, wrote>> => \A t \in Threads : Overwritten(t) /\ SourceOf(t)'
    BY <1>1, <2>1 DEF Overwritten, SourceOf
  <2>4. ASSUME NEW c \in SharedConditions, world' = Toggle(world, c),
               UNCHANGED <<session, table, localTeam, wrote>>
        PROVE  <1>2
    BY <2>1, <2>2, <2>3, <2>4 DEF Toggle
  <2>5. ASSUME NEW s \in Sessions, NEW c \in SessionConditions,
               session' = [session EXCEPT ![s] = Toggle(@, c)],
               UNCHANGED <<world, table, localTeam, wrote>>
        PROVE  <1>2
    <3>1. session' \in [Sessions -> SUBSET SessionConditions]
      BY <2>1, <2>5 DEF Toggle
    <3> QED
      BY <2>1, <2>2, <2>3, <2>5, <3>1
  <2>6. ASSUME NEW s \in Sessions, NEW w \in Words, NEW v \in Identities \cup {NoIdentity},
               table' = [table EXCEPT ![s][w] = v],
               UNCHANGED <<world, session, localTeam, wrote>>
        PROVE  <1>2
    <3>1. table[s] \in [Words -> Identities \cup {NoIdentity}]
      BY <2>1 DEF Table
    <3>2. table' = [table EXCEPT ![s] = [table[s] EXCEPT ![w] = v]]
      BY <2>6
    <3>3. /\ [table[s] EXCEPT ![w] = v] \in Table
          /\ \A x \in Words \ {w} : [table[s] EXCEPT ![w] = v][x] = table[s][x]
      BY <3>1 DEF Table
    <3>4. table' \in [Sessions -> Table]
      BY <2>1, <3>2, <3>3
    <3>5. ASSUME NEW t \in Threads, InCall(t) PROVE OneWord(t)
      <4>1. call[t].owner \in Sessions
        BY <2>1, <3>5
      <4>2. \A x \in Words \ {w} : table'[call[t].owner][x] = table[call[t].owner][x]
        BY <2>1, <3>2, <3>3, <4>1
      <4> QED
        BY <4>2 DEF OneWord
    <3> QED
      BY <2>1, <2>3, <2>6, <3>4, <3>5
  <2>7. ASSUME NEW s \in Sessions, Overwrite(s), UNCHANGED <<world, session, table>>
        PROVE  <1>2
    <3>1. /\ localTeam' = [localTeam EXCEPT ![s] = 1 - @]
          /\ wrote' = [t \in Threads |->
                        IF wrote[t] = "source" /\ call[t].owner = s THEN "overwritten"
                                                                  ELSE wrote[t]]
      BY <2>7 DEF Overwrite
    <3>2. 1 - localTeam[s] \in {0, 1}
      BY <2>1
    <3>3. localTeam' \in [Sessions -> {0, 1}] /\ wrote' \in [Threads -> Written]
      BY <2>1, <3>1, <3>2
    <3>4. ASSUME NEW t \in Threads PROVE Overwritten(t) /\ SourceOf(t)'
      <4>1. Overwritten(t)
        BY <3>1 DEF Overwritten
      <4>2. ASSUME wrote'[t] = "source" PROVE localTeam'[call[t].owner] = 1
        <5>1. wrote[t] = "source" /\ call[t].owner # s
          BY <3>1, <4>2
        <5>2. call[t].owner \in Sessions /\ localTeam[call[t].owner] = 1
          BY <2>1, <5>1 DEF SourceOf
        <5> QED
          BY <2>1, <3>1, <5>1, <5>2
      <4> QED
        BY <1>1, <4>1, <4>2 DEF SourceOf
    <3> QED
      BY <2>1, <2>2, <2>7, <3>3, <3>4
  <2> QED
    BY <2>4, <2>5, <2>6, <2>7 DEF Change
<1>3. ASSUME NEW t \in Threads PROVE CallInv(t)'
  <2>1. CallInv(t) /\ call'[t] = call[t] /\ experiment' = experiment
    BY <1>1 DEF IInv, flags
  <2>2. CASE InCall(t)
    BY <1>1, <1>2, <2>1, <2>2, WitnessSteady
  <2>3. CASE ~InCall(t)
    BY <1>1, <1>2, <2>1, <2>3, IdleSteady
  <2> QED
    BY <2>2, <2>3
<1>4. TypeOK'
  <2>1. /\ always' \in [Threads -> SUBSET Observed] /\ ever' \in [Threads -> SUBSET Observed]
        /\ shown' \in [Threads -> SUBSET Table]
    BY <1>1, <1>2, WitnessType DEF IInv, CallInv, PlaceOf
  <2> QED
    BY <1>1, <1>2, <2>1 DEF IInv, TypeOK, flags, counters, InBank
<1> QED
  BY <1>3, <1>4 DEF IInv

(* A session no call is about is nobody's to observe.                      *)
LEMMA ReallocateStep ==
  ASSUME IInv, NEW s \in Sessions, Reallocate(s)
  PROVE  IInv'
<1>1. /\ \A t \in Threads : call[t].owner # s
      /\ session' = [session EXCEPT ![s] = SessionConditions]
      /\ localTeam' = [localTeam EXCEPT ![s] = 0]
      /\ changed' = changed \ {s}
      /\ UNCHANGED <<world, table, flags, armed, call, counters, history, wrote>>
  BY DEF Reallocate
<1>2. ASSUME NEW t \in Threads PROVE CallInv(t)'
  <2>1. /\ CallInv(t) /\ call'[t] = call[t] /\ experiment' = experiment
        /\ Grown(t) /\ Overwritten(t)
    BY <1>1 DEF IInv, flags, history, Grown, Overwritten
  <2>2. CASE InCall(t)
    <3>1. call[t].owner \in Sessions
      BY <2>1, <2>2 DEF CallInv, PlaceOf
    <3>2. /\ session'[call[t].owner] = session[call[t].owner]
          /\ localTeam'[call[t].owner] = localTeam[call[t].owner]
      BY <1>1, <3>1 DEF IInv, TypeOK
    <3>3. Foreign(t)' = Foreign(t)
      BY <1>1, <3>2 DEF Foreign, Holds
    <3>4. \A i : HeldSlot(t, i)' <=> HeldSlot(t, i)
      BY <1>1 DEF HeldSlot, history
    <3>5. HistoryOf(t)'
      BY <1>1, <2>1, <3>3, <3>4 DEF CallInv, HistoryOf, InCall, history
    <3>6. SourceOf(t)'
      BY <1>1, <2>1, <3>2 DEF CallInv, SourceOf
    <3> QED
      BY <2>1, <3>5, <3>6, Steady
  <2>3. CASE ~InCall(t)
    <3>1. SourceOf(t)'
      BY <1>1, <2>1, <2>3 DEF CallInv, ReportOf, InCall, SourceOf
    <3> QED
      BY <2>1, <2>3, <3>1, IdleSteady
  <2> QED
    BY <2>2, <2>3
<1>3. TypeOK'
  BY <1>1 DEF IInv, TypeOK, flags, counters, history, InBank
<1> QED
  BY <1>2, <1>3 DEF IInv

(* start and stop_recording touch ACTIVE, which no call's invariant reads. *)
LEMMA RecordingStep ==
  ASSUME IInv, active' \in BOOLEAN, started' \in BOOLEAN,
         UNCHANGED <<memory, localTeam, experiment, armed, call, counters, history, writes>>
  PROVE  IInv'
<1>1. ASSUME NEW t \in Threads PROVE CallInv(t)'
  <2>1. CallInv(t) /\ Grown(t) /\ Overwritten(t) /\ call'[t] = call[t]
    BY DEF IInv, history, writes, Grown, Overwritten
  <2>2. SourceOf(t)'
    BY <2>1 DEF CallInv, SourceOf, writes
  <2>3. CASE InCall(t)
    <3>1. HistoryOf(t)'
      BY <2>1, <2>3, SameHistory DEF CallInv, history
    <3> QED
      BY <2>1, <2>2, <3>1, Steady
  <2>4. CASE ~InCall(t)
    BY <2>1, <2>2, <2>4, IdleSteady
  <2> QED
    BY <2>3, <2>4
<1>2. TypeOK'
  BY DEF IInv, TypeOK, memory, counters, history, writes, InBank
<1> QED
  BY <1>1, <1>2 DEF IInv

-----------------------------------------------------------------------------
(* The invariant, and what follows from it                                 *)

(* No thread is in a call at first.                                        *)
LEMMA Initially ==
  Init => IInv
<1> SUFFICES ASSUME Init PROVE IInv
  OBVIOUS
<1>1. call = [t \in Threads |-> Idle] /\ events = <<>>
  BY DEF Init
<1>2. Idle \in CallRecord
  BY ExperimentAssumption DEF CallRecord, Idle, Table
<1>3. \A k, m : Cardinality(InBank(k, m)) =< BankLimit
  <2>1. \A k, m : InBank(k, m) = {}
    BY <1>1 DEF InBank
  <2> QED
    BY <2>1, FS_EmptySet, ExperimentAssumption
<1>4. Len(Conditions(Idle.kind)) \in Nat /\ Idle.step = 0 /\ Idle.pc = "idle"
  BY ConditionOrder DEF Idle
<1>5. events \in Seq([kind : AllKinds, mode : BOOLEAN, team : {0, 1},
                      action : {"none", "proposal_00_to_01", "local_mirror_00_to_01"}])
  BY <1>1
<1>6. experiment \in BOOLEAN
  BY ExperimentAssumption DEF Init
<1>7. TypeOK
  <2>1. call \in [Threads -> CallRecord]
    BY <1>1, <1>2
  <2>2. \A t \in Threads : /\ call[t].step =< Len(Conditions(call[t].kind))
                           /\ call[t].pc \notin {"check", "load"}
    BY <1>1, <1>4
  <2> QED
    BY <1>3, <1>5, <1>6, <2>1, <2>2, ExperimentAssumption DEF TypeOK, Init
<1>8. ASSUME NEW t \in Threads PROVE CallInv(t)
  <2>1. call[t].pc = "idle" /\ call[t].action = "none" /\ wrote[t] = "nothing"
    BY <1>1 DEF Init, Idle
  <2> QED
    BY <2>1 DEF CallInv, HistoryOf, SourceOf, PlaceOf, SeenOf, TestedOf, OutcomeOf, ReportOf,
       InCall, Mutating, Over
<1> QED
  BY <1>7, <1>8 DEF IInv

(* Nothing changes when nothing happens.                                   *)
LEMMA StutterStep ==
  ASSUME IInv, UNCHANGED vars
  PROVE  IInv'
BY RecordingStep DEF vars, flags, IInv, TypeOK

(* The invariant holds after every step.                                   *)
LEMMA Inductive ==
  ASSUME IInv, [Next]_vars
  PROVE  IInv'
<1>1. ASSUME NEW t \in Threads, Hook(t) PROVE IInv'
  BY <1>1, EnterStep, IgnoreStep, ReadPolicyStep, CheckStep, LoadStep, RefuseStep,
     WriteProposalStep, WriteSourceStep, ReadBackProposalStep, ReadBackSourceStep,
     ArmStep, CountStep, CaptureStep, DropStep, LeaveStep
     DEF Hook, MutateStep, RecordStep
<1>2. StartRecording => IInv'
  BY RecordingStep DEF StartRecording
<1>3. StopRecording => IInv'
  BY RecordingStep DEF StopRecording, IInv, TypeOK
<1> QED
  BY <1>1, <1>2, <1>3, ChangeStep, ReallocateStep, StutterStep DEF Next

(* The inductive invariant holds in every state the hooks can reach.       *)
THEOREM Invariance == Spec => []IInv
<1>1. Init => IInv
  BY Initially
<1>2. IInv /\ [Next]_vars => IInv'
  BY Inductive
<1> QED
  BY <1>1, <1>2, PTL DEF Spec

(* Every variable of the hooks keeps its type and no bank of EVENTS ever   *)
(* holds more than BANK_LIMIT events.                                      *)
THEOREM TypeCorrect == Spec => []TypeOK
<1>1. IInv => TypeOK
  BY DEF IInv
<1> QED
  BY <1>1, Invariance, PTL

(* An eligible local proposal leaves rule_submit with Team Attack ON,      *)
(* whatever becomes of the recording.                                      *)
THEOREM EligibleChanged == Spec => []EligibleProposalChanged
<1>1. IInv => EligibleProposalChanged
  BY DEF IInv, CallInv, OutcomeOf, Eligible, HeldSlot, EligibleProposalChanged, Over
<1> QED
  BY <1>1, Invariance, PTL

(* No local copy that could have been mirrored leaves its hook unmirrored. *)
THEOREM ArmedMirrored == Spec => []ArmedSourceMirrored
<1>1. IInv => ArmedSourceMirrored
  BY DEF IInv, CallInv, OutcomeOf, Eligible, ArmedSourceMirrored, Over
<1> QED
  BY <1>1, Invariance, PTL

-----------------------------------------------------------------------------
(* What a write has been preceded by                                       *)

(* A hook steps no call but its own.                                       *)
LEMMA OwnCallOnly ==
  ASSUME IInv, NEW t \in Threads, Hook(t), NEW u \in Threads, u # t
  PROVE  call'[u] = call[u]
<1>1. call \in [Threads -> CallRecord]
  BY DEF IInv, TypeOK
<1>2. Enter(t) \/ Ignore(t) \/ ReadPolicy(t) \/ Leave(t) => call'[u] = call[u]
  BY <1>1 DEF Enter, Ignore, ReadPolicy, Leave, Goto
<1>3. MutateStep(t) => call'[u] = call[u]
  BY <1>1 DEF MutateStep, Check, LoadWord, Refuse, WriteProposal, WriteSource,
     ReadBackProposal, ReadBackSource, Arm, Goto, Conclude
<1>4. RecordStep(t) => call'[u] = call[u]
  BY <1>1 DEF RecordStep, Count, Capture, Drop, Goto
<1> QED
  BY <1>2, <1>3, <1>4 DEF Hook

(* Only the two write steps change what a call's argument or source says.  *)
LEMMA OnlyWriteSteps ==
  ASSUME IInv, [Next]_vars, NEW t \in Threads, Writes(t)
  PROVE  WriteProposal(t) \/ WriteSource(t)
<1>1. call'[t] # call[t] /\ call[t].pc = "write"
  BY DEF Writes
<1>2. PICK u \in Threads : Hook(u)
  BY <1>1 DEF Next, vars, Change, Reallocate, StartRecording, StopRecording
<1>3. Hook(t)
  BY <1>1, <1>2, OwnCallOnly
<1> QED
  BY <1>1, <1>3 DEF Hook, MutateStep, RecordStep, Enter, Ignore, ReadPolicy, Leave, Check,
     LoadWord, Refuse, ReadBackProposal, ReadBackSource, Arm, Count, Capture, Drop, InCall

(* A call about to write has met every condition, and loaded a local slot. *)
LEMMA AllMet ==
  ASSUME IInv, NEW t \in Threads, call[t].pc = "write"
  PROVE  LET me == call[t] IN
         /\ Required(me.kind) \subseteq ever[t]
         /\ LocalSlot(me.seen) \in Slots /\ me.seen \in Loadable(shown[t])
         /\ me.kind = "rule_submit" =>
              /\ me.arg.team = 0 /\ me.arg.origin /\ me.arg.matches
              /\ LocalSlot(me.seen) = me.arg.slot
         /\ MutatesIn(me.kind)
<1> DEFINE me == call[t]
<1>1. \A i \in 1..Len(Conditions(me.kind)) : Met(t, Conditions(me.kind)[i])
  BY DEF IInv, CallInv, TestedOf
<1>2. \A c \in Required(me.kind) \cup OwnConditions(me.kind) : Met(t, c)
  <2> SUFFICES ASSUME NEW c \in Required(me.kind) \cup OwnConditions(me.kind)
               PROVE  Met(t, c)
    OBVIOUS
  <2>1. PICK i \in 1..Len(Conditions(me.kind)) : Conditions(me.kind)[i] = c
    BY ConditionOrder
  <2> QED
    BY <1>1, <2>1
<1>3. Required(me.kind) \subseteq Observed
  BY DEF Required, Observed
<1>4. Required(me.kind) \subseteq ever[t]
  BY <1>2, <1>3 DEF Met
<1>5. /\ LocalSlot(me.seen) \in Slots
      /\ me.kind = "rule_submit" =>
           me.arg.team = 0 /\ me.arg.origin /\ LocalSlot(me.seen) = me.arg.slot
  BY <1>2 DEF OwnConditions, Met
<1>6. me.seen \in Loadable(shown[t])
  <2>1. me.step >= 5 /\ me.step \in Nat
    BY ConditionOrder DEF IInv, CallInv, TestedOf
  <2>2. me.loads = SlotCount + 1
    BY <2>1 DEF IInv, CallInv, SeenOf
  <2>3. \A w \in Words : w < me.loads
    BY <2>2, ExperimentAssumption DEF Words
  <2>4. \A w \in Words : \E m \in shown[t] : m[w] = me.seen[w]
    BY <2>3 DEF IInv, CallInv, SeenOf
  <2>5. me.seen \in Table
    BY DEF IInv, TypeOK, CallRecord
  <2> QED
    BY <2>4, <2>5 DEF Loadable
<1> QED
  BY <1>4, <1>5, <1>6 DEF IInv, CallInv, PlaceOf, Mutating

(* Every byte the hooks write is sanctioned: all the reviewed conditions   *)
(* were met during the call, by the hook that may write that byte.         *)
THEOREM WritesSanctioned == Spec => WritesAreSanctioned
<1> DEFINE Sanctioned ==
      \A t \in Threads :
        LET me == call[t] IN
        /\ WroteProposal(t) =>
             /\ me.arg.team = 0 /\ call'[t].arg = [me.arg EXCEPT !.team = 1]
             /\ me.arg.matches /\ me.arg.origin
        /\ Writes(t) =>
             /\ experiment
             /\ me.kind = IF WroteSource(t) THEN "local_copy" ELSE "rule_submit"
             /\ Required(me.kind) \subseteq ever[t]
             /\ \E m \in Loadable(shown[t]) :
                  LocalSlot(m) \in IF WroteSource(t) THEN Slots ELSE {me.arg.slot}
<1>1. IInv /\ [Next]_vars => Sanctioned
  <2> SUFFICES ASSUME IInv, [Next]_vars, NEW t \in Threads, Writes(t)
               PROVE  LET me == call[t] IN
                      /\ WroteProposal(t) =>
                           /\ me.arg.team = 0 /\ call'[t].arg = [me.arg EXCEPT !.team = 1]
                           /\ me.arg.matches /\ me.arg.origin
                      /\ experiment
                      /\ me.kind = IF WroteSource(t) THEN "local_copy" ELSE "rule_submit"
                      /\ Required(me.kind) \subseteq ever[t]
                      /\ \E m \in Loadable(shown[t]) :
                           LocalSlot(m) \in IF WroteSource(t) THEN Slots ELSE {me.arg.slot}
    BY DEF WroteProposal
  <2> DEFINE me == call[t]
  <2>1. /\ Required(me.kind) \subseteq ever[t] /\ MutatesIn(me.kind)
        /\ LocalSlot(me.seen) \in Slots /\ me.seen \in Loadable(shown[t])
        /\ me.kind = "rule_submit" =>
             /\ me.arg.team = 0 /\ me.arg.origin /\ me.arg.matches
             /\ LocalSlot(me.seen) = me.arg.slot
        /\ call \in [Threads -> CallRecord]
    BY AllMet DEF Writes, IInv, TypeOK
  <2>2. CASE WriteProposal(t)
    <3>1. me.kind = "rule_submit" /\ call'[t].arg = [me.arg EXCEPT !.team = 1]
      BY <2>1, <2>2 DEF WriteProposal, CallRecord
    <3>2. me.arg \in Argument
      BY <2>1, <3>1 DEF CallRecord, Idle
    <3> DEFINE on == [me.arg EXCEPT !.team = 1]
    <3>3. on.team = 1 /\ call'[t].arg = on
      BY <3>1, <3>2, TeamOn
    <3> HIDE DEF on
    <3>4. call'[t].arg # me.arg
      BY <2>1, <3>1, <3>3
    <3> QED
      BY <2>1, <3>1, <3>4 DEF WroteProposal, WroteSource, MutatesIn
  <2>3. CASE WriteSource(t)
    <3>1. me.kind # "rule_submit" /\ call'[t].arg = me.arg
      BY <2>1, <2>3, GotoRecord DEF WriteSource, Places, IInv
    <3> QED
      BY <2>1, <3>1 DEF WroteProposal, WroteSource, MutatesIn
  <2> QED
    BY <2>2, <2>3, OnlyWriteSteps
<1> QED
  BY <1>1, Invariance, PTL DEF Spec, WritesAreSanctioned

-----------------------------------------------------------------------------
(* What an event tells                                                     *)

(* Only the capture of a call logs it.                                     *)
LEMMA OnlyCaptureLogs ==
  ASSUME IInv, [Next]_vars, NEW t \in Threads, Logs(t)
  PROVE  Capture(t)
<1>1. call'[t] # call[t] /\ call[t].pc = "capture" /\ events' # events
  BY DEF Logs
<1>2. PICK u \in Threads : Hook(u)
  BY <1>1 DEF Next, vars, Change, Reallocate, StartRecording, StopRecording
<1>3. Hook(t)
  BY <1>1, <1>2, OwnCallOnly
<1> QED
  BY <1>1, <1>3 DEF Hook, MutateStep, RecordStep, Enter, Ignore, ReadPolicy, Leave, Check,
     LoadWord, Refuse, WriteProposal, WriteSource, ReadBackProposal, ReadBackSource, Arm,
     Count, Drop, InCall

(* An event reports the mutation its call has made, and shows it unless    *)
(* the game wrote over it.                                                 *)
THEOREM EventsTrue == Spec => EventsTellTheTruth
<1> DEFINE Told(e, t) ==
      /\ e.action = "proposal_00_to_01" <=> wrote[t] = "proposal"
      /\ e.action = "proposal_00_to_01" => e.kind = "rule_submit" /\ e.team = 1
      /\ e.action = "local_mirror_00_to_01" =>
           e.kind = "local_copy" /\ wrote[t] \in {"source", "overwritten"}
      /\ wrote[t] = "source" => e.action = "local_mirror_00_to_01" /\ e.team = 1
      /\ e.action # "none" => experiment
<1>1. IInv /\ [Next]_vars => \A t \in Threads : Logs(t) => Told(events'[Len(events')], t)
  <2> SUFFICES ASSUME IInv, [Next]_vars, NEW t \in Threads, Logs(t)
               PROVE  Told(events'[Len(events')], t)
    OBVIOUS
  <2> DEFINE me == call[t]
             e == [kind |-> me.kind, mode |-> me.mode, team |-> ReportedTeam(me),
                   action |-> me.action]
  <2>1. me.pc = "capture" /\ events' = Append(events, e)
    BY OnlyCaptureLogs DEF Capture
  <2>2. events'[Len(events')] = e
    BY <2>1 DEF IInv, TypeOK
  <2>3. OutcomeOf(t) /\ ReportOf(t) /\ SourceOf(t) /\ me.action \in Actions
    BY DEF IInv, CallInv, TypeOK, CallRecord, Actions
  <2>4. Told(e, t)
    BY <2>1, <2>3 DEF OutcomeOf, ReportOf, SourceOf, ReportedTeam, Actions, Over
  <2> HIDE DEF e, Told
  <2> QED
    BY <2>2, <2>4
<1> QED
  BY <1>1, Invariance, PTL DEF Spec, EventsTellTheTruth

-----------------------------------------------------------------------------
(* What the counters say                                                   *)

(* The invariant of the account: the sets that it counts are finite.       *)
AccountInv ==
  IsFiniteSet(CountedCalls) /\ IsFiniteSet(Capturing) /\ CallsAccounted

(* The counted calls are those up to the counter of their hook.            *)
LEMMA CountedCall ==
  ASSUME NEW k, NEW n
  PROVE  <<k, n>> \in CountedCalls <=> k \in Kinds /\ n \in 1..calls[k]
BY DEF CountedCalls

(* A count adds the next call of its hook.                                 *)
LEMMA CountGrows ==
  ASSUME calls \in [Kinds -> Nat], NEW k \in Kinds, calls' = [calls EXCEPT ![k] = @ + 1]
  PROVE  /\ <<k, calls[k] + 1>> \notin CountedCalls
         /\ CountedCalls' = CountedCalls \cup {<<k, calls[k] + 1>>}
<1> DEFINE new == <<k, calls[k] + 1>>
<1>1. new \notin CountedCalls
  BY CountedCall
<1>2. \A j \in Kinds : {j} \X (1..calls'[j]) =
        ({j} \X (1..calls[j])) \cup (IF j = k THEN {new} ELSE {})
  <2> SUFFICES ASSUME NEW j \in Kinds
               PROVE  {j} \X (1..calls'[j]) =
                        ({j} \X (1..calls[j])) \cup (IF j = k THEN {new} ELSE {})
    OBVIOUS
  <2>1. CASE j = k
    <3>1. 1..calls'[j] = (1..calls[j]) \cup {calls[j] + 1}
      BY <2>1
    <3> QED
      BY <2>1, <3>1
  <2>2. CASE j # k
    BY <2>2
  <2> QED
    BY <2>1, <2>2
<1> HIDE DEF new
<1>3. CountedCalls' = CountedCalls \cup {new}
  BY <1>2 DEF CountedCalls
<1> QED
  BY <1>1, <1>3 DEF new

(* A step of one call moves nobody else into or out of the capture.        *)
LEMMA CapturingMoves ==
  ASSUME IInv, NEW t \in Threads, Hook(t)
  PROVE  Capturing' = IF call'[t].pc = "capture" THEN Capturing \cup {t}
                                                 ELSE Capturing \ {t}
BY OwnCallOnly DEF Capturing

(* Every step but those of the record half leaves the account alone.       *)
LEMMA Unrecorded ==
  ASSUME IInv, NEW t \in Threads, Hook(t), ~RecordStep(t)
  PROVE  UNCHANGED counters /\ Capturing' = Capturing
<1>1. call \in [Threads -> CallRecord]
  BY DEF IInv, TypeOK
<1>2. CASE Enter(t)
  BY <1>1, <1>2 DEF Enter, Idle, InCall, Capturing
<1>3. CASE Ignore(t) \/ ReadPolicy(t) \/ Leave(t)
  <2>1. UNCHANGED counters
    BY <1>3 DEF Ignore, ReadPolicy, Leave, OnlyCall
  <2>2. call[t].pc # "capture" /\ call'[t].pc # "capture"
    <3>1. CASE Ignore(t)
      BY <3>1, GotoRecord DEF Ignore, IInv, Places
    <3>2. CASE ReadPolicy(t)
      <4>1. call[t].pc = "policy"
        BY <3>2 DEF ReadPolicy
      <4> QED
        BY <3>2, <4>1, ReadPolicyRecord
    <3>3. CASE Leave(t)
      <4>1. call[t].pc = "return" /\ call'[t] = Idle
        BY <1>1, <3>3 DEF Leave
      <4> QED
        BY <4>1 DEF Idle
    <3> QED
      BY <1>3, <3>1, <3>2, <3>3
  <2> QED
    BY <2>1, <2>2, CapturingMoves DEF Capturing
<1>4. CASE MutateStep(t)
  <2>1. UNCHANGED counters
    BY <1>4 DEF MutateStep, Check, LoadWord, Refuse, WriteProposal, WriteSource,
       ReadBackProposal, ReadBackSource, Arm, OnlyCall
  <2>2. call[t].pc # "capture"
    BY <1>4 DEF MutateStep, Check, LoadWord, Refuse, WriteProposal, WriteSource,
       ReadBackProposal, ReadBackSource, Arm
  <2>3. \A a \in Actions : Conclude(t, a) => call'[t].pc # "capture"
    BY ConcludeRecord DEF IInv
  <2>4. \A pc \in Places : Goto(t, pc) => call'[t].pc = pc
    BY GotoRecord DEF IInv
  <2>5. call'[t].pc # "capture"
    <3>1. Check(t) \/ LoadWord(t) \/ WriteProposal(t) => call'[t].pc # "capture"
      BY CheckRecord, LoadRecord, WriteProposalRecord
    <3>2. Refuse(t) \/ WriteSource(t) \/ Arm(t) => call'[t].pc # "capture"
      BY <2>3, <2>4 DEF Refuse, WriteSource, Arm, Actions, Places
    <3>3. ReadBackProposal(t) \/ ReadBackSource(t) => call'[t].pc # "capture"
      BY <2>3, <2>4 DEF ReadBackProposal, ReadBackSource, Actions, Places
    <3> QED
      BY <1>4, <3>1, <3>2, <3>3 DEF MutateStep
  <2> QED
    BY <2>1, <2>2, <2>5, CapturingMoves DEF Capturing
<1> QED
  BY <1>2, <1>3, <1>4 DEF Hook

(* The account stays even: a count adds a call that is about to be         *)
(* recorded, and a capture or a drop is the end of one.                    *)
LEMMA RecordKeeps ==
  ASSUME IInv, AccountInv, NEW t \in Threads, RecordStep(t)
  PROVE  AccountInv'
<1> DEFINE k == call[t].kind
<1>1. /\ calls \in [Kinds -> Nat] /\ dropped \in Nat /\ call \in [Threads -> CallRecord]
      /\ Len(events) \in Nat
  BY DEF IInv, TypeOK
<1>2. Hook(t)
  BY DEF Hook
<1>3. Cardinality(CountedCalls) \in Nat /\ Cardinality(Capturing) \in Nat
  BY FS_CardinalityType DEF AccountInv
<1>4. CASE Count(t)
  <2>1. /\ call[t].pc = "count" /\ call'[t].pc = "capture" /\ UNCHANGED <<events, dropped>>
        /\ calls' = [calls EXCEPT ![k] = @ + 1]
    BY <1>1, <1>4 DEF Count
  <2>2. k \in Kinds
    BY <2>1 DEF IInv, CallInv, PlaceOf, InCall
  <2>3. IsFiniteSet(CountedCalls') /\ Cardinality(CountedCalls') = Cardinality(CountedCalls) + 1
    <3> DEFINE new == <<k, calls[k] + 1>>
    <3>1. new \notin CountedCalls /\ CountedCalls' = CountedCalls \cup {new}
      BY <1>1, <2>1, <2>2, CountGrows
    <3> HIDE DEF new
    <3>2. IsFiniteSet(CountedCalls)
      BY DEF AccountInv
    <3> QED
      BY ONLY <3>1, <3>2, FS_AddElement
  <2>4. t \notin Capturing /\ Capturing' = Capturing \cup {t}
    BY <1>2, <2>1, CapturingMoves DEF Capturing
  <2>5. IsFiniteSet(Capturing') /\ Cardinality(Capturing') = Cardinality(Capturing) + 1
    BY <2>4, FS_AddElement DEF AccountInv
  <2> QED
    BY <1>1, <1>3, <2>1, <2>3, <2>5 DEF AccountInv, CallsAccounted
<1>5. CASE Capture(t) \/ Drop(t)
  <2>1. /\ call[t].pc = "capture" /\ call'[t].pc = "return" /\ UNCHANGED calls
        /\ dropped' \in Nat /\ Len(events') \in Nat
        /\ Len(events') + dropped' = Len(events) + dropped + 1
    <3>1. /\ call[t].pc = "capture" /\ Goto(t, "return") /\ UNCHANGED calls
          /\ \/ dropped' = dropped /\ Len(events') = Len(events) + 1
             \/ dropped' = dropped + 1 /\ events' = events
      <4>1. CASE Capture(t)
        BY <4>1 DEF Capture, IInv, TypeOK
      <4>2. CASE Drop(t)
        BY <4>2 DEF Drop
      <4> QED
        BY <1>5, <4>1, <4>2
    <3>2. call'[t].pc = "return"
      BY <1>1, <3>1 DEF Goto
    <3> QED
      BY <1>1, <3>1, <3>2
  <2>2. t \in Capturing /\ Capturing' = Capturing \ {t}
    BY <1>2, <2>1, CapturingMoves DEF Capturing
  <2>3. IsFiniteSet(Capturing') /\ Cardinality(Capturing') = Cardinality(Capturing) - 1
    BY <2>2, FS_RemoveElement DEF AccountInv
  <2>4. CountedCalls' = CountedCalls
    BY <2>1 DEF CountedCalls
  <2> QED
    BY <1>1, <1>3, <2>1, <2>3, <2>4 DEF AccountInv, CallsAccounted
<1> QED
  BY <1>4, <1>5 DEF RecordStep

(* Every counted call is recorded, dropped, or about to be one of the two, *)
(* however the calls of the hooks interleave.                              *)
THEOREM Account == Spec => []CallsAccounted
<1>1. Init => AccountInv
  <2> SUFFICES ASSUME Init PROVE AccountInv
    OBVIOUS
  <2>1. Capturing = {} /\ Len(events) = 0 /\ dropped = 0
    BY DEF Init, Capturing, Idle
  <2>2. CountedCalls = {}
    <3>1. \A k \in Kinds : {k} \X (1..calls[k]) = {}
      BY DEF Init
    <3> QED
      BY <3>1 DEF CountedCalls
  <2> QED
    BY <2>1, <2>2, FS_EmptySet DEF AccountInv, CallsAccounted
<1>2. IInv /\ AccountInv /\ [Next]_vars => AccountInv'
  <2> SUFFICES ASSUME IInv, AccountInv, [Next]_vars PROVE AccountInv'
    OBVIOUS
  <2>1. UNCHANGED counters /\ Capturing' = Capturing => AccountInv'
    BY DEF counters, AccountInv, CallsAccounted, CountedCalls
  <2>2. (\E t \in Threads : Hook(t)) => AccountInv'
    BY <2>1, Unrecorded, RecordKeeps
  <2>3. UNCHANGED <<counters, call>> => AccountInv'
    BY <2>1 DEF Capturing
  <2> QED
    BY <2>2, <2>3 DEF Next, vars, Change, Reallocate, StartRecording, StopRecording
<1>3. AccountInv => CallsAccounted
  BY DEF AccountInv
<1> QED
  BY <1>1, <1>2, <1>3, Invariance, PTL DEF Spec

-----------------------------------------------------------------------------
(* The mirror follows a proposal, as long as no session takes the address  *)
(* of one that ended: the run on reused addresses shows that it need not.  *)

(* Only changed sessions get as far as being armed, and only the armed one *)
(* gets past the seventh condition of a local copy.                        *)
MirrorOf(t) ==
  LET me == call[t] IN
  /\ me.kind = "rule_submit" /\ me.pc \in {"readback", "arm"} => me.owner \in changed
  /\ me.kind # "rule_submit" /\ me.pc \in {"check", "load", "write"} /\ me.step >= 7
       => me.owner \in changed

MirrorInv ==
  /\ armed \in Sessions => armed \in changed
  /\ \A t \in Threads : MirrorOf(t)

(* The step of the call itself.                                            *)
LEMMA MirrorOwn ==
  ASSUME IInv, MirrorInv, NEW t \in Threads, Hook(t)
  PROVE  MirrorOf(t)'
<1> DEFINE me == call[t]
<1>1. MirrorOf(t) /\ (armed \in Sessions => armed \in changed)
  BY DEF MirrorInv
<1>2. call'[t].pc \notin Mutating => MirrorOf(t)'
  BY DEF MirrorOf, Mutating
<1>3. CASE Enter(t)
  <2>1. call'[t].pc = "policy"
    BY <1>3 DEF Enter, IInv, TypeOK, Idle
  <2> QED
    BY <1>2, <2>1 DEF Mutating
<1>4. CASE Ignore(t)
  BY <1>2, <1>4, GotoRecord DEF Ignore, IInv, Places, Mutating
<1>5. CASE ReadPolicy(t)
  <2>1. me.step = 0
    BY <1>5 DEF ReadPolicy, IInv, CallInv, PlaceOf
  <2> QED
    BY <1>5, <2>1, ReadPolicyRecord DEF MirrorOf
<1>6. CASE Check(t)
  <2>1. /\ call'[t].pc \in {"check", "load", "write"} /\ call'[t].kind = me.kind
        /\ call'[t].owner = me.owner /\ call'[t].step = me.step + 1
    BY <1>6, CheckRecord
  <2>2. /\ me.pc = "check" /\ Holds(t, Tested(t)) /\ me.step \in Nat
        /\ changed' = changed /\ me.owner \in Sessions
        /\ world \subseteq SharedConditions
        /\ session[me.owner] \subseteq SessionConditions
    <3>1. me.pc = "check" /\ Holds(t, Tested(t)) /\ changed' = changed
      BY <1>6 DEF Check, OnlyCall, writes
    <3>2. /\ me.step \in Nat /\ session \in [Sessions -> SUBSET SessionConditions]
          /\ world \subseteq SharedConditions
      BY DEF IInv, TypeOK, CallRecord
    <3>3. me.owner \in Sessions
      BY <3>1 DEF IInv, CallInv, PlaceOf, InCall
    <3> QED
      BY ONLY <3>1, <3>2, <3>3
  <2>3. ASSUME me.kind # "rule_submit", me.step = 6 PROVE me.owner \in changed
    <3>1. Tested(t) = "armed"
      BY <2>3, MirrorOrder DEF Tested
    <3>2. armed = me.owner
      BY <2>2, <3>1 DEF Holds, SharedConditions, SessionConditions
    <3> QED
      BY <1>1, <2>2, <3>2
  <2> QED
    BY <1>1, <2>1, <2>2, <2>3 DEF MirrorOf
<1>7. CASE LoadWord(t)
  <2>1. me.pc = "load" /\ changed' = changed
    BY ONLY <1>7 DEF LoadWord, OnlyCall, writes
  <2>2. /\ call'[t].pc \in {"check", "load"} /\ call'[t].kind = me.kind
        /\ call'[t].owner = me.owner /\ call'[t].step = me.step
    BY <1>7, LoadRecord
  <2> QED
    BY ONLY <1>1, <2>1, <2>2 DEF MirrorOf
<1>8. CASE Refuse(t)
  BY <1>2, <1>8, ConcludeRecord DEF Refuse, IInv, Actions, Mutating
<1>9. CASE WriteProposal(t)
  <2>1. me.kind = "rule_submit" /\ changed' = changed \cup {me.owner}
    BY <1>9 DEF WriteProposal
  <2> QED
    BY <1>9, <2>1, WriteProposalRecord DEF MirrorOf
<1>10. CASE WriteSource(t)
  BY <1>10, GotoRecord DEF WriteSource, IInv, Places, MirrorOf
<1>11. CASE ReadBackProposal(t)
  <2>1. me.pc = "readback" /\ me.kind = "rule_submit" /\ changed' = changed
    BY <1>11 DEF ReadBackProposal, OnlyCall, writes
  <2>2. CASE Goto(t, "arm")
    BY <1>1, <2>1, <2>2, GotoRecord DEF IInv, Places, MirrorOf
  <2>3. CASE Conclude(t, "none")
    BY <1>2, <2>3, ConcludeRecord DEF IInv, Actions, Mutating
  <2> QED
    BY <1>11, <2>2, <2>3 DEF ReadBackProposal
<1>12. CASE ReadBackSource(t)
  <2>1. PICK a \in Actions : Conclude(t, a)
    BY <1>12 DEF ReadBackSource, Actions
  <2> QED
    BY <1>2, <2>1, ConcludeRecord DEF IInv, Mutating
<1>13. CASE Arm(t)
  BY <1>2, <1>13, ConcludeRecord DEF Arm, IInv, Actions, Mutating
<1>14. CASE Count(t)
  <2>1. call'[t].pc = "capture"
    BY <1>14 DEF Count, IInv, TypeOK, CallRecord
  <2> QED
    BY <1>2, <2>1 DEF Mutating
<1>15. CASE Capture(t) \/ Drop(t)
  <2>1. Goto(t, "return")
    BY <1>15 DEF Capture, Drop
  <2> QED
    BY <1>2, <2>1, GotoRecord DEF IInv, Places, Mutating
<1>16. CASE Leave(t)
  <2>1. call \in [Threads -> CallRecord] /\ call' = [call EXCEPT ![t] = Idle]
    BY <1>16 DEF Leave, IInv, TypeOK
  <2>2. call'[t].pc = "idle"
    BY ONLY t \in Threads, <2>1, SMTT(20) DEF Idle
  <2> QED
    BY <1>2, <2>2 DEF Mutating
<1> QED
  BY <1>3, <1>4, <1>5, <1>6, <1>7, <1>8, <1>9, <1>10, <1>11, <1>12, <1>13, <1>14, <1>15, <1>16
     DEF Hook, MutateStep, RecordStep

(* Hooks only ever add to changed, and only Arm changes what is armed.     *)
LEMMA MirrorMemory ==
  ASSUME IInv, MirrorInv, NEW t \in Threads, Hook(t)
  PROVE  changed \subseteq changed' /\ (armed' \in Sessions => armed' \in changed')
<1>1. CASE Arm(t)
  BY <1>1 DEF Arm, MirrorInv, MirrorOf, IInv, CallInv, PlaceOf, writes
<1>2. CASE WriteProposal(t)
  BY <1>2 DEF WriteProposal, MirrorInv
<1>3. CASE UNCHANGED <<armed, changed>>
  BY <1>3 DEF MirrorInv
<1> QED
  BY <1>1, <1>2, <1>3
     DEF Hook, MutateStep, RecordStep, Enter, Ignore, ReadPolicy, Leave, Check, LoadWord,
         Refuse, WriteSource, ReadBackProposal, ReadBackSource, Count, Capture, Drop,
         OnlyCall, writes

(* A mirror is armed for, and writes, changed sessions only, if no session *)
(* is freed and its address used again.                                    *)
LEMMA MirrorStep ==
  ASSUME Reuse = FALSE, IInv, MirrorInv, [Next]_vars
  PROVE  MirrorInv'
<1>1. ASSUME NEW t \in Threads, Hook(t) PROVE MirrorInv'
  <2>1. \A u \in Threads \ {t} : call'[u] = call[u]
    BY <1>1, OwnCallOnly
  <2>2. \A u \in Threads \ {t} : MirrorOf(u)'
    BY <1>1, <2>1, MirrorMemory DEF MirrorInv, MirrorOf
  <2> QED
    BY <1>1, <2>2, MirrorOwn, MirrorMemory DEF MirrorInv
<1>2. ASSUME UNCHANGED <<armed, call, changed>> PROVE MirrorInv'
  BY <1>2 DEF MirrorInv, MirrorOf
<1> QED
  BY <1>1, <1>2 DEF Next, Change, Reallocate, StartRecording, StopRecording, vars, writes

(* No source is written for a session none of whose proposals was changed, *)
(* in a game that does not free a session and reuse its address.           *)
THEOREM MirrorFollows ==
  ASSUME Reuse = FALSE
  PROVE  Spec => MirrorFollowsProposal
<1> DEFINE Follows == \A t \in Threads : WroteSource(t) => call[t].owner \in changed
<1>1. Init => MirrorInv
  BY ExperimentAssumption DEF Init, MirrorInv, MirrorOf, Idle
<1>2. IInv /\ MirrorInv /\ [Next]_vars => MirrorInv'
  BY MirrorStep
<1>3. IInv /\ MirrorInv /\ [Next]_vars => Follows
  <2> SUFFICES ASSUME IInv, MirrorInv, [Next]_vars, NEW t \in Threads, WroteSource(t)
               PROVE  call[t].owner \in changed
    OBVIOUS
  <2>1. call[t].pc = "write" /\ Writes(t) /\ call'[t].arg = call[t].arg
    BY DEF WroteSource, Writes
  <2>2. ~WriteProposal(t)
    <3> SUFFICES ASSUME WriteProposal(t) PROVE FALSE
      OBVIOUS
    <3>1. call[t].kind = "rule_submit" /\ call'[t].arg.team = 1
      BY WriteProposalRecord DEF WriteProposal
    <3> QED
      BY <2>1, <3>1, AllMet
  <2>3. call[t].kind # "rule_submit"
    BY <2>1, <2>2, OnlyWriteSteps DEF WriteSource
  <2>4. call[t].step >= 7
    BY <2>1, <2>3, MirrorOrder DEF IInv, CallInv, TestedOf
  <2> QED
    BY <2>1, <2>3, <2>4 DEF MirrorInv, MirrorOf
<1> QED
  BY <1>1, <1>2, <1>3, Invariance, PTL DEF Spec, MirrorFollowsProposal
=============================================================================
