------------------------- MODULE CaptureStoreProofs -------------------------
(***************************************************************************)
(* Safety of CaptureStore for any numbers of producers, consumers, slots   *)
(* and samples.                                                            *)
(***************************************************************************)
EXTENDS CaptureStore, SequenceTheorems, TLAPS

Owning == {"sample", "write", "writing", "publish"}

(* A producer's view of next never overtakes it, and a producer past the   *)
(* compare-exchange owns an unpublished slot that nobody else owns.        *)
ViewInv ==
  \A p \in Producers :
    /\ seen[p] =< next
    /\ pc[p] = "cas" => seen[p] < Bound
    /\ pc[p] \in Owning => seen[p] < next /\ state[seen[p]] = 0

OneOwner ==
  \A p, q \in Producers :
    pc[p] \in Owning /\ pc[q] \in Owning /\ seen[p] = seen[q] => p = q

(* What a producer carries, and what it has written, bears its index.      *)
CarriedInv ==
  \A p \in Producers :
    /\ pc[p] \in {"write", "writing"} =>
         held[p] \in Capture /\ held[p].sequence = seen[p]
    /\ pc[p] = "publish" =>
         value[seen[p]] \in Capture /\ value[seen[p]].sequence = seen[p]

SlotInv ==
  \A i \in Slots :
    /\ i >= next => state[i] = 0 /\ value[i] = Uninit
    /\ i < next /\ state[i] = 0 =>
         \E p \in Producers : pc[p] \in Owning /\ seen[p] = i
    /\ state[i] # 0 => value[i] \in Capture /\ value[i].sequence = i

(* A consumer past its compare-exchange is alone with a consumed slot      *)
(* whose capture has not been delivered yet.                               *)
ReaderInv ==
  \A c \in Consumers : cpc[c] = "read" =>
    /\ state[cursor[c]] = 2
    /\ \A k \in DOMAIN delivered : delivered[k].sequence # cursor[c]
    /\ \A d \in Consumers : cpc[d] = "read" /\ cursor[d] = cursor[c] => d = c

DeliveredInv ==
  \A k \in DOMAIN delivered :
    /\ delivered[k] \in Capture
    /\ state[delivered[k].sequence] = 2
    /\ value[delivered[k].sequence] = delivered[k]

IInv ==
  /\ TypeOK
  /\ ViewInv
  /\ OneOwner
  /\ CarriedInv
  /\ SlotInv
  /\ ReaderInv
  /\ DeliveredInv
  /\ DeliveredOnce

-----------------------------------------------------------------------------

(* The bound on reservations is a number of slots a drain pass visits.     *)
LEMMA BoundType == Bound \in Nat /\ Bound =< ScanLength /\ ScanLength =< Capacity
BY SizeAssumption DEF Bound, Least

(* A call that finds the store full moves nothing but its view of next:    *)
(* the owner of a reserved slot is another thread, still where it was.     *)
LEMMA LoadFullStep ==
  ASSUME NEW p \in Producers, IInv, LoadFull(p)
  PROVE  IInv'
<1> USE DEF IInv, LoadFull
<1>1. TypeOK'
  BY BoundType DEF TypeOK, consumerVars
<1>2. ViewInv'
  BY DEF ViewInv, Owning
<1>3. OneOwner'
  BY DEF OneOwner, Owning
<1>4. CarriedInv'
  BY DEF CarriedInv
<1>5. SlotInv'
  <2>1. ASSUME NEW i \in Slots, i < next, state[i] = 0
        PROVE  \E q \in Producers : pc'[q] \in Owning /\ seen'[q] = i
    <3>1. PICK q \in Producers : pc[q] \in Owning /\ seen[q] = i
      BY <2>1 DEF SlotInv
    <3>2. q # p
      BY <3>1 DEF Owning
    <3>3. pc'[q] = pc[q] /\ seen'[q] = seen[q]
      BY <3>2 DEF TypeOK
    <3> QED
      BY <3>1, <3>3
  <2> QED
    BY <2>1 DEF SlotInv, Slots
<1>6. ReaderInv'
  BY DEF ReaderInv, consumerVars
<1>7. DeliveredInv'
  BY DEF DeliveredInv, consumerVars
<1>8. DeliveredOnce'
  BY DEF DeliveredOnce, consumerVars
<1> QED
  BY <1>1, <1>2, <1>3, <1>4, <1>5, <1>6, <1>7, <1>8

(* A call that reads an index below the limit owns nothing yet.            *)
LEMMA LoadStep ==
  ASSUME NEW p \in Producers, IInv, Load(p)
  PROVE  IInv'
<1> USE DEF IInv, Load
<1>1. TypeOK'
  BY BoundType DEF TypeOK, consumerVars
<1>2. ViewInv'
  BY BoundType DEF ViewInv, TypeOK, Full, Owning
<1>3. OneOwner'
  BY DEF OneOwner, Owning
<1>4. CarriedInv'
  BY DEF CarriedInv
<1>5. SlotInv'
  <2>1. ASSUME NEW i \in Slots, i < next, state[i] = 0
        PROVE  \E q \in Producers : pc'[q] \in Owning /\ seen'[q] = i
    <3>1. PICK q \in Producers : pc[q] \in Owning /\ seen[q] = i
      BY <2>1 DEF SlotInv
    <3>2. q # p
      BY <3>1 DEF Owning
    <3>3. pc'[q] = pc[q] /\ seen'[q] = seen[q]
      BY <3>2 DEF TypeOK
    <3> QED
      BY <3>1, <3>3
  <2> QED
    BY <2>1 DEF SlotInv, Slots
<1>6. ReaderInv'
  BY DEF ReaderInv, consumerVars
<1>7. DeliveredInv'
  BY DEF DeliveredInv, consumerVars
<1>8. DeliveredOnce'
  BY DEF DeliveredOnce, consumerVars
<1> QED
  BY <1>1, <1>2, <1>3, <1>4, <1>5, <1>6, <1>7, <1>8

(* The compare-exchange succeeds on the value read, so the reserved index  *)
(* is next itself, which nobody owns, and it is below the limit.           *)
LEMMA ReserveStep ==
  ASSUME NEW p \in Producers, IInv, Reserve(p)
  PROVE  IInv'
<1> USE DEF IInv, Reserve
<1>1. TypeOK'
  BY BoundType DEF TypeOK, ViewInv, consumerVars
<1>2. ViewInv'
  BY SizeAssumption, BoundType DEF ViewInv, TypeOK, SlotInv, Slots
<1>3. OneOwner'
  BY DEF OneOwner, TypeOK, ViewInv
<1>4. CarriedInv'
  BY DEF CarriedInv
<1>5. SlotInv'
  <2>1. ASSUME NEW i \in Slots, i < next', state[i] = 0
        PROVE  \E q \in Producers : pc'[q] \in Owning /\ seen'[q] = i
    <3>1. CASE i = next
      BY <3>1 DEF Owning, TypeOK
    <3>2. CASE i < next
      <4>1. PICK q \in Producers : pc[q] \in Owning /\ seen[q] = i
        BY <2>1, <3>2 DEF SlotInv
      <4>2. pc'[q] = pc[q]
        BY <4>1 DEF Owning, TypeOK
      <4> QED
        BY <4>1, <4>2
    <3> QED
      BY <2>1, <3>1, <3>2, BoundType DEF TypeOK, Slots
  <2> QED
    BY <2>1, BoundType DEF SlotInv, TypeOK, Slots
<1>6. ReaderInv'
  BY DEF ReaderInv, consumerVars
<1>7. DeliveredInv'
  BY DEF DeliveredInv, consumerVars
<1>8. DeliveredOnce'
  BY DEF DeliveredOnce, consumerVars
<1> QED
  BY <1>1, <1>2, <1>3, <1>4, <1>5, <1>6, <1>7, <1>8

(* A failed compare-exchange leaves the store as it was.                   *)
LEMMA LoseRaceStep ==
  ASSUME NEW p \in Producers, IInv, LoseRace(p)
  PROVE  IInv'
<1> USE DEF IInv, LoseRace
<1>1. TypeOK'
  BY DEF TypeOK, consumerVars
<1>2. ViewInv'
  BY DEF ViewInv, Owning
<1>3. OneOwner'
  BY DEF OneOwner, Owning
<1>4. CarriedInv'
  BY DEF CarriedInv
<1>5. SlotInv'
  BY ValueAssumption DEF SlotInv, CarriedInv, Owning
<1>6. ReaderInv'
  BY DEF ReaderInv, consumerVars
<1>7. DeliveredInv'
  BY DEF DeliveredInv, consumerVars
<1>8. DeliveredOnce'
  BY DEF DeliveredOnce, consumerVars
<1> QED
  BY <1>1, <1>2, <1>3, <1>4, <1>5, <1>6, <1>7, <1>8

(* The sample is built for the index the thread owns.                      *)
LEMMA SampleStep ==
  ASSUME NEW p \in Producers, IInv, Sample(p)
  PROVE  IInv'
<1> USE DEF IInv, Sample
<1>1. TypeOK'
  BY SizeAssumption, BoundType
     DEF TypeOK, ViewInv, Slots, Capture, Owning, consumerVars
<1>2. ViewInv'
  BY DEF ViewInv, Owning
<1>3. OneOwner'
  BY DEF OneOwner, Owning
<1>4. CarriedInv'
  BY SizeAssumption, BoundType
     DEF CarriedInv, TypeOK, ViewInv, Slots, Capture, Owning
<1>5. SlotInv'
  BY DEF SlotInv, Owning
<1>6. ReaderInv'
  BY DEF ReaderInv, consumerVars
<1>7. DeliveredInv'
  BY DEF DeliveredInv, consumerVars
<1>8. DeliveredOnce'
  BY DEF DeliveredOnce, consumerVars
<1> QED
  BY <1>1, <1>2, <1>3, <1>4, <1>5, <1>6, <1>7, <1>8

(* Writing tears the payload of the one slot the thread owns, which is     *)
(* unpublished, so no capture anybody can see is torn.                     *)
LEMMA BeginWriteStep ==
  ASSUME NEW p \in Producers, IInv, BeginWrite(p)
  PROVE  IInv'
<1> USE DEF IInv, BeginWrite
<1>1. TypeOK'
  BY DEF TypeOK, PayloadSet, consumerVars
<1>2. ViewInv'
  BY DEF ViewInv, Owning
<1>3. OneOwner'
  BY DEF OneOwner, Owning
<1>4. CarriedInv'
  BY DEF CarriedInv, OneOwner, Owning
<1>5. SlotInv'
  BY DEF SlotInv, TypeOK, ViewInv, Owning
<1>6. ReaderInv'
  BY DEF ReaderInv, consumerVars
<1>7. DeliveredInv'
  BY DEF DeliveredInv, ViewInv, Owning, consumerVars
<1>8. DeliveredOnce'
  BY DEF DeliveredOnce, consumerVars
<1> QED
  BY <1>1, <1>2, <1>3, <1>4, <1>5, <1>6, <1>7, <1>8

(* The write ends with the whole capture in the slot it was built for.     *)
LEMMA EndWriteStep ==
  ASSUME NEW p \in Producers, IInv, EndWrite(p)
  PROVE  IInv'
<1> USE DEF IInv, EndWrite
<1>1. TypeOK'
  BY DEF TypeOK, CarriedInv, PayloadSet, consumerVars
<1>2. ViewInv'
  BY DEF ViewInv, Owning
<1>3. OneOwner'
  BY DEF OneOwner, Owning
<1>4. CarriedInv'
  BY DEF CarriedInv, TypeOK, Capture
<1>5. SlotInv'
  BY DEF SlotInv, TypeOK, ViewInv, Owning
<1>6. ReaderInv'
  BY DEF ReaderInv, consumerVars
<1>7. DeliveredInv'
  BY DEF DeliveredInv, ViewInv, Owning, consumerVars
<1>8. DeliveredOnce'
  BY DEF DeliveredOnce, consumerVars
<1> QED
  BY <1>1, <1>2, <1>3, <1>4, <1>5, <1>6, <1>7, <1>8

(* Publication hands the slot over: its payload is complete by now.        *)
LEMMA PublishStep ==
  ASSUME NEW p \in Producers, IInv, Publish(p)
  PROVE  IInv'
<1> USE DEF IInv, Publish
<1>1. TypeOK'
  BY BoundType
     DEF TypeOK, ViewInv, CarriedInv, Capture, Owning, consumerVars
<1>2. ViewInv'
  BY DEF ViewInv, TypeOK, OneOwner, Owning
<1>3. OneOwner'
  BY DEF OneOwner, TypeOK, Owning
<1>4. CarriedInv'
  BY DEF CarriedInv, TypeOK
<1>5. SlotInv'
  BY DEF SlotInv, TypeOK, ViewInv, CarriedInv, Owning
<1>6. ReaderInv'
  BY DEF ReaderInv, ViewInv, Owning, consumerVars
<1>7. DeliveredInv'
  BY DEF DeliveredInv, ViewInv, Owning, consumerVars
<1>8. DeliveredOnce'
  BY DEF DeliveredOnce, consumerVars
<1> QED
  BY <1>1, <1>2, <1>3, <1>4, <1>5, <1>6, <1>7, <1>8

(* Passing over a slot changes only the cursor, which stays in the scan.   *)
LEMMA SkipStep ==
  ASSUME NEW c \in Consumers, IInv, Skip(c)
  PROVE  IInv'
<1> USE DEF IInv, Skip
<1>1. TypeOK'
  BY SizeAssumption
     DEF TypeOK, DeliveredOnce, Advance, Capture, producerVars
<1>2. ViewInv'
  BY DEF ViewInv, producerVars
<1>3. OneOwner'
  BY DEF OneOwner, producerVars
<1>4. CarriedInv'
  BY DEF CarriedInv, producerVars
<1>5. SlotInv'
  BY DEF SlotInv, producerVars
<1>6. ReaderInv'
  BY DEF ReaderInv
<1>7. DeliveredInv'
  BY DEF DeliveredInv
<1>8. DeliveredOnce'
  BY DEF DeliveredOnce
<1> QED
  BY <1>1, <1>2, <1>3, <1>4, <1>5, <1>6, <1>7, <1>8

(* A consumer claims a ready slot, which no consumer reads and no          *)
(* delivered capture came from.                                            *)
LEMMA ClaimStep ==
  ASSUME NEW c \in Consumers, IInv, Claim(c)
  PROVE  IInv'
<1> USE DEF IInv, Claim
<1>1. TypeOK'
  BY SizeAssumption DEF TypeOK, Slots, producerVars
<1>2. ViewInv'
  BY DEF ViewInv, producerVars
<1>3. OneOwner'
  BY DEF OneOwner, producerVars
<1>4. CarriedInv'
  BY DEF CarriedInv, producerVars
<1>5. SlotInv'
  BY DEF SlotInv, producerVars
<1>6. ReaderInv'
  BY SizeAssumption
     DEF ReaderInv, TypeOK, CarriedInv, DeliveredInv, Slots, Capture
<1>7. DeliveredInv'
  BY DEF DeliveredInv
<1>8. DeliveredOnce'
  BY DEF DeliveredOnce
<1> QED
  BY <1>1, <1>2, <1>3, <1>4, <1>5, <1>6, <1>7, <1>8

(* A claimed slot delivers its own complete capture, for the first time.   *)
LEMMA ReadStep ==
  ASSUME NEW c \in Consumers, IInv, Read(c)
  PROVE  IInv'
<1> USE DEF IInv, Read
<1>1. TypeOK'
  BY SizeAssumption
     DEF TypeOK, Advance, Slots, Capture, producerVars
<1>2. ViewInv'
  BY DEF ViewInv, producerVars
<1>3. OneOwner'
  BY DEF OneOwner, producerVars
<1>4. CarriedInv'
  BY DEF CarriedInv, producerVars
<1>5. SlotInv'
  BY DEF SlotInv, producerVars
<1>6. ReaderInv'
  BY SizeAssumption DEF ReaderInv, TypeOK, SlotInv, Slots
<1>7. DeliveredInv'
  BY SizeAssumption
     DEF DeliveredInv, TypeOK, SlotInv, ReaderInv, Slots
<1>8. DeliveredOnce'
  BY SizeAssumption
     DEF DeliveredOnce, TypeOK, SlotInv, ReaderInv, Slots
<1> QED
  BY <1>1, <1>2, <1>3, <1>4, <1>5, <1>6, <1>7, <1>8

-----------------------------------------------------------------------------
(* The strengthened invariant holds initially: nothing is reserved.        *)
LEMMA InitInv == Init => IInv
<1> SUFFICES ASSUME Init PROVE IInv
  OBVIOUS
<1> USE DEF Init, IInv
<1>1. TypeOK
  BY SizeAssumption, BoundType, EmptySeq DEF TypeOK, PayloadSet, Slots
<1>2. ViewInv /\ OneOwner /\ CarriedInv
  BY DEF ViewInv, OneOwner, CarriedInv, Owning
<1>3. SlotInv
  BY SizeAssumption DEF SlotInv, Slots
<1>4. ReaderInv /\ DeliveredInv /\ DeliveredOnce
  BY DEF ReaderInv, DeliveredInv, DeliveredOnce
<1> QED
  BY <1>1, <1>2, <1>3, <1>4

(* Every step of a producer or of a consumer, and stuttering, keeps it.    *)
LEMMA NextInv == IInv /\ [Next]_vars => IInv'
<1> SUFFICES ASSUME IInv, [Next]_vars PROVE IInv'
  OBVIOUS
<1>1. ASSUME NEW p \in Producers, Call(p) PROVE IInv'
  BY <1>1, LoadStep, LoadFullStep DEF Call
<1>2. ASSUME NEW p \in Producers, Finish(p) PROVE IInv'
  BY <1>2, ReserveStep, LoseRaceStep, SampleStep, BeginWriteStep,
     EndWriteStep, PublishStep DEF Finish
<1>3. ASSUME NEW c \in Consumers, Drain(c) PROVE IInv'
  BY <1>3, SkipStep, ClaimStep, ReadStep DEF Drain
<1>4. CASE UNCHANGED vars
  BY <1>4 DEF vars, producerVars, consumerVars, IInv, TypeOK, ViewInv, OneOwner,
     CarriedInv, SlotInv, ReaderInv, DeliveredInv, DeliveredOnce
<1> QED
  BY <1>1, <1>2, <1>3, <1>4 DEF Next

(* The strengthened invariant holds in every reachable state of the store. *)
THEOREM Invariance == Spec => []IInv
BY InitInv, NextInv, PTL DEF Spec

-----------------------------------------------------------------------------
(* The variables keep their types: an index never leaves the array,        *)
(* whatever the limit, and Slot::state is always one of its three values.  *)
THEOREM TypeCorrect == Spec => []TypeOK
<1>1. IInv => TypeOK
  BY DEF IInv
<1> QED
  BY <1>1, Invariance, PTL

(* The soundness argument of "unsafe impl Sync for Slot": no two threads   *)
(* are ever inside the payload of one slot.  Two producers writing it      *)
(* would both own it, two consumers reading it would both have claimed it, *)
(* and an owned slot is unpublished while a claimed one is consumed.       *)
THEOREM Exclusion == Spec => []ExclusiveSlots
<1>1. ASSUME IInv, NEW i \in Slots PROVE \A p, q \in Writers(i) : p = q
  BY <1>1 DEF IInv, OneOwner, Owning, Writers
<1>2. ASSUME IInv, NEW i \in Slots PROVE \A c, d \in Readers(i) : c = d
  BY <1>2 DEF IInv, ReaderInv, Readers
<1>3. ASSUME IInv, NEW i \in Slots PROVE Writers(i) = {} \/ Readers(i) = {}
  BY <1>3 DEF IInv, ViewInv, ReaderInv, Owning, Writers, Readers
<1>4. IInv => ExclusiveSlots
  BY <1>1, <1>2, <1>3 DEF ExclusiveSlots
<1> QED
  BY <1>4, Invariance, PTL

(* take returns only complete captures, each the one of the slot it names. *)
THEOREM Intact == Spec => []IntactCaptures
<1>1. IInv => IntactCaptures
  BY DEF IInv, DeliveredInv, IntactCaptures
<1> QED
  BY <1>1, Invariance, PTL

(* No slot is delivered twice, whatever the consumers and their passes.    *)
THEOREM AtMostOnce == Spec => []DeliveredOnce
<1>1. IInv => DeliveredOnce
  BY DEF IInv
<1> QED
  BY <1>1, Invariance, PTL

(* Every reserved slot is owned or published and no other was touched.     *)
THEOREM Accounted == Spec => []ReservationsAccounted
<1>1. ASSUME IInv, NEW i \in Slots, i < next, state[i] = 0 PROVE Owners(i) # {}
  BY <1>1 DEF IInv, SlotInv, Owners, Owning
<1>2. ASSUME IInv, NEW i \in Slots, NEW p \in Owners(i)
      PROVE  i < next /\ state[i] = 0
  BY <1>2 DEF IInv, ViewInv, Owners, Owning
<1>3. ASSUME IInv, NEW i \in Slots, i >= next PROVE state[i] = 0 /\ value[i] = Uninit
  BY <1>3 DEF IInv, SlotInv
<1>4. ASSUME IInv, NEW i \in Slots, i >= next PROVE ~(i < next)
  BY <1>4 DEF IInv, TypeOK, Slots
<1>5. IInv => ReservationsAccounted
  BY <1>1, <1>2, <1>3, <1>4 DEF ReservationsAccounted
<1> QED
  BY <1>5, Invariance, PTL

(* A slot goes from unpublished to ready to consumed and never back, and   *)
(* its payload does not change once it is published.                       *)
THEOREM SingleUse == Spec => SlotsAreSingleUse
<1> DEFINE Kept(i) == /\ state'[i] = state[i] \/ state'[i] = state[i] + 1
                      /\ state[i] # 0 => value'[i] = value[i]
<1>1. ASSUME IInv, NEW p \in Producers, Call(p), NEW i \in Slots PROVE Kept(i)
  BY <1>1 DEF Call, Load, LoadFull
<1>2. ASSUME IInv, NEW p \in Producers, Finish(p), NEW i \in Slots PROVE Kept(i)
  <2>1. CASE Reserve(p) \/ LoseRace(p) \/ Sample(p)
    BY <2>1 DEF Reserve, LoseRace, Sample
  <2>2. CASE BeginWrite(p) \/ EndWrite(p)
    BY <1>2, <2>2 DEF BeginWrite, EndWrite, IInv, TypeOK, ViewInv, Owning
  <2>3. CASE Publish(p)
    BY <1>2, <2>3 DEF Publish, IInv, TypeOK, ViewInv, Owning
  <2> QED
    BY <1>2, <2>1, <2>2, <2>3 DEF Finish
<1>3. ASSUME IInv, NEW c \in Consumers, Drain(c), NEW i \in Slots PROVE Kept(i)
  BY <1>3 DEF Drain, Skip, Claim, Read, IInv, TypeOK
<1>4. ASSUME UNCHANGED vars, NEW i \in Slots PROVE Kept(i)
  BY <1>4 DEF vars
<1>5. IInv /\ [Next]_vars => [\A i \in Slots : Kept(i)]_vars
  BY <1>1, <1>2, <1>3, <1>4 DEF Next
<1> QED
  BY <1>5, Invariance, PTL DEF Spec, SlotsAreSingleUse

-----------------------------------------------------------------------------
(* Refinement of CaptureChannel *)

(* A step that publishes nothing and changes no published payload is       *)
(* invisible to the channel's producers.                                   *)
LEMMA PublishedKept ==
  ASSUME \A i \in Slots : (state'[i] # 0) <=> (state[i] # 0),
         \A i \in Slots : state[i] # 0 => value'[i] = value[i]
  PROVE  Published' = Published
BY DEF Published

(* The store implements the safety part of CaptureChannel: publication     *)
(* accepts a capture under a number no accepted capture bears, the read in *)
(* take delivers an accepted capture not delivered before, and every other *)
(* step is invisible.                                                      *)
THEOREM Refinement == Spec => Channel!Init /\ [][Channel!Next]_(Channel!vars)
<1>1. Init => Channel!Init
  BY DEF Init, Channel!Init, Published
<1>2. ASSUME IInv, NEW p \in Producers, Publish(p) PROVE Channel!Accept
  <2> DEFINE i == seen[p]
             c == value[i]
  <2>1. i \in Slots /\ i < Bound /\ state[i] = 0
    BY <1>2, BoundType, SizeAssumption
       DEF Publish, IInv, TypeOK, ViewInv, Owning, Slots
  <2>2. c \in Capture /\ c.sequence = i
    BY <1>2 DEF Publish, IInv, CarriedInv
  <2>3. c \in Channel!Capture
    BY <2>1, <2>2, BoundType DEF Capture, Channel!Capture, Slots
  <2>4. \A d \in Published : d.sequence # c.sequence
    BY <1>2, <2>1, <2>2 DEF IInv, SlotInv, Published
  <2>5. Published' = Published \cup {c}
    BY <1>2, <2>1 DEF Publish, Published, IInv, TypeOK
  <2> QED
    BY <1>2, <2>3, <2>4, <2>5 DEF Channel!Accept, Publish, consumerVars
<1>3. ASSUME IInv, NEW c \in Consumers, Read(c) PROVE Channel!Deliver
  <2> DEFINE i == cursor[c]
  <2>1. i \in Slots /\ state[i] = 2 /\ \A k \in DOMAIN delivered : delivered[k].sequence # i
    BY <1>3, SizeAssumption DEF Read, IInv, TypeOK, ReaderInv, Slots
  <2>2. value[i] \in Published /\ value[i].sequence = i
    BY <1>3, <2>1 DEF IInv, SlotInv, Published
  <2>3. value[i] \notin Channel!Delivered
    BY <2>1, <2>2 DEF Channel!Delivered
  <2>4. Published' = Published
    BY <1>3 DEF Read, Published
  <2> QED
    BY <1>3, <2>2, <2>3, <2>4 DEF Channel!Deliver, Read
<1>4. ASSUME IInv, NEW p \in Producers,
             \/ Call(p) \/ Reserve(p) \/ LoseRace(p) \/ Sample(p)
             \/ BeginWrite(p) \/ EndWrite(p)
      PROVE  UNCHANGED Channel!vars
  <2>1. UNCHANGED <<state, delivered>>
    BY <1>4 DEF Call, Load, LoadFull, Reserve, LoseRace, Sample, BeginWrite,
       EndWrite, consumerVars
  <2>2. \A i \in Slots : state[i] # 0 => value'[i] = value[i]
    <3>1. CASE BeginWrite(p) \/ EndWrite(p)
      BY <1>4, <3>1 DEF BeginWrite, EndWrite, IInv, TypeOK, ViewInv, Owning
    <3>2. CASE Call(p) \/ Reserve(p) \/ LoseRace(p) \/ Sample(p)
      BY <3>2 DEF Call, Load, LoadFull, Reserve, LoseRace, Sample
    <3> QED
      BY <1>4, <3>1, <3>2
  <2>3. Published' = Published
    BY <2>1, <2>2, PublishedKept
  <2> QED
    BY <2>1, <2>3 DEF Channel!vars
<1>5. ASSUME IInv, NEW c \in Consumers, Skip(c) \/ Claim(c) PROVE UNCHANGED Channel!vars
  <2>1. \A i \in Slots : (state'[i] # 0) <=> (state[i] # 0)
    BY <1>5 DEF Skip, Claim, IInv, TypeOK
  <2>2. UNCHANGED <<value, delivered>>
    BY <1>5 DEF Skip, Claim
  <2>3. Published' = Published
    BY <2>1, <2>2, PublishedKept
  <2> QED
    BY <2>2, <2>3 DEF Channel!vars
<1>6. ASSUME UNCHANGED vars PROVE UNCHANGED Channel!vars
  BY <1>6 DEF vars, consumerVars, Published, Channel!vars
<1>7. IInv /\ [Next]_vars => [Channel!Next]_(Channel!vars)
  BY <1>2, <1>3, <1>4, <1>5, <1>6 DEF Next, Finish, Drain, Channel!Next
<1> QED
  BY <1>1, <1>7, Invariance, PTL DEF Spec
=============================================================================
