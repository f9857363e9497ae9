---------------------------- MODULE CaptureStore ----------------------------
(***************************************************************************)
(* The lock-free capture store of src/src/capture.rs: an array of          *)
(* single-use slots.  A producer (a game thread inside a hook) reserves    *)
(* the next index with one weak compare-exchange, writes its sample into   *)
(* the slot and publishes it with a Release store.  A consumer (the writer *)
(* thread) scans the slots and takes each published one with an Acquire    *)
(* compare-exchange.  Every atomic access and both ends of the non-atomic  *)
(* payload write are steps of their own.                                   *)
(***************************************************************************)
EXTENDS Naturals, Sequences

CONSTANTS
  Producers,   \* threads that call try_capture
  Consumers,   \* threads that call take; the plugin starts one
  Samples,     \* what the sample closure can return
  Limit,       \* the "limit" argument, one value for a store
  Capacity,    \* CAPTURE_CAPACITY, 256
  ScanLength,  \* how many slots a drain pass visits
  Uninit,      \* MaybeUninit::uninit()
  Torn         \* a payload whose write has begun and not ended

Least(a, b) == IF a < b THEN a ELSE b

\* limit.min(CAPTURE_CAPACITY)
Bound == Least(Limit, Capacity)

Slots == 0..(Capacity - 1)

Capture == [sequence : Slots, bytes : Samples]

(* Every drain loop of the plugin visits all the slots its store can fill: *)
(* 0..BANK_LIMIT for a store limited to BANK_LIMIT, 0..CAPTURE_CAPACITY    *)
(* for the two others.                                                     *)
ASSUME SizeAssumption ==
  /\ Limit \in Nat /\ Capacity \in Nat \ {0} /\ ScanLength \in Nat \ {0}
  /\ Bound =< ScanLength /\ ScanLength =< Capacity

ASSUME ValueAssumption == Uninit # Torn /\ {Uninit, Torn} \cap Capture = {}

VARIABLES
  next,        \* AtomicUsize: the first index never reserved
  state,       \* Slot::state: 0 unpublished, 1 ready, 2 consumed
  value,       \* Slot::value
  pc,          \* where a producer is in try_capture
  seen,        \* the last value of next a producer read: its local "index"
  held,        \* the Capture a producer has built and not yet written
  cpc,         \* where a consumer is in take
  cursor,      \* the index a consumer's drain loop has reached
  delivered    \* the captures take has returned, oldest first

producerVars == <<pc, seen, held>>
consumerVars == <<cpc, cursor, delivered>>
vars == <<next, state, value, producerVars, consumerVars>>

Init ==
  /\ next = 0
  /\ state = [i \in Slots |-> 0]
  /\ value = [i \in Slots |-> Uninit]
  /\ pc = [p \in Producers |-> "idle"]
  /\ seen = [p \in Producers |-> 0]
  /\ held = [p \in Producers |-> Uninit]
  /\ cpc = [c \in Consumers |-> "scan"]
  /\ cursor = [c \in Consumers |-> 0]
  /\ delivered = <<>>

-----------------------------------------------------------------------------
(* try_capture *)

MFullOffByOne(i) == i > Bound

Full(i) == i >= Bound

(* The Relaxed load of next may return any value the counter has held      *)
(* since the one this thread read last.                                    *)
LoadFull(p) ==
  /\ pc[p] = "idle"
  /\ \E i \in seen[p]..next :
       /\ Full(i)
       /\ seen' = [seen EXCEPT ![p] = i]
  /\ UNCHANGED <<next, state, value, pc, held, consumerVars>>

Load(p) ==
  /\ pc[p] = "idle"
  /\ \E i \in seen[p]..next :
       /\ ~Full(i)
       /\ seen' = [seen EXCEPT ![p] = i]
  /\ pc' = [pc EXCEPT ![p] = "cas"]
  /\ UNCHANGED <<next, state, value, held, consumerVars>>

MReserveUnchecked(p) ==
  /\ pc[p] = "cas"
  /\ next' = seen[p] + 1
  /\ pc' = [pc EXCEPT ![p] = "sample"]
  /\ UNCHANGED <<state, value, seen, held, consumerVars>>

(* compare_exchange_weak succeeds: only if next still has the value read.  *)
Reserve(p) ==
  /\ pc[p] = "cas"
  /\ next = seen[p]
  /\ next' = next + 1
  /\ pc' = [pc EXCEPT ![p] = "sample"]
  /\ UNCHANGED <<state, value, seen, held, consumerVars>>

(* It fails, through contention or spuriously, and the sample is dropped.  *)
LoseRace(p) ==
  /\ pc[p] = "cas"
  /\ pc' = [pc EXCEPT ![p] = "idle"]
  /\ UNCHANGED <<next, state, value, seen, held, consumerVars>>

Sample(p) ==
  /\ pc[p] = "sample"
  /\ \E s \in Samples :
       held' = [held EXCEPT ![p] = [sequence |-> seen[p], bytes |-> s]]
  /\ pc' = [pc EXCEPT ![p] = "write"]
  /\ UNCHANGED <<next, state, value, seen, consumerVars>>

MPublishBeforeWrite(p) ==
  /\ pc[p] = "write"
  /\ value' = [value EXCEPT ![seen[p]] = Torn]
  /\ state' = [state EXCEPT ![seen[p]] = 1]
  /\ pc' = [pc EXCEPT ![p] = "writing"]
  /\ UNCHANGED <<next, seen, held, consumerVars>>

BeginWrite(p) ==
  /\ pc[p] = "write"
  /\ value' = [value EXCEPT ![seen[p]] = Torn]
  /\ pc' = [pc EXCEPT ![p] = "writing"]
  /\ UNCHANGED <<next, state, seen, held, consumerVars>>

EndWrite(p) ==
  /\ pc[p] = "writing"
  /\ value' = [value EXCEPT ![seen[p]] = held[p]]
  /\ held' = [held EXCEPT ![p] = Uninit]
  /\ pc' = [pc EXCEPT ![p] = "publish"]
  /\ UNCHANGED <<next, state, seen, consumerVars>>

(* state.store(1, Release), and try_capture returns true; the thread's own *)
(* increment of next is the last value of it that it knows.                *)
Publish(p) ==
  /\ pc[p] = "publish"
  /\ state' = [state EXCEPT ![seen[p]] = 1]
  /\ seen' = [seen EXCEPT ![p] = seen[p] + 1]
  /\ pc' = [pc EXCEPT ![p] = "idle"]
  /\ UNCHANGED <<next, value, held, consumerVars>>

-----------------------------------------------------------------------------
(* take, called for 0, 1, ..., ScanLength - 1 and again from 0 in the      *)
(* consumer's next pass                                                    *)

MAdvanceShort(i) == (i + 1) % (ScanLength - 1)

Advance(i) == IF i + 1 = ScanLength THEN 0 ELSE i + 1

(* The compare-exchange finds the slot unpublished or consumed: None.      *)
Skip(c) ==
  /\ cpc[c] = "scan"
  /\ state[cursor[c]] # 1
  /\ cursor' = [cursor EXCEPT ![c] = Advance(cursor[c])]
  /\ UNCHANGED <<next, state, value, producerVars, cpc, delivered>>

MClaimLoadOnly(c) ==
  /\ cpc[c] = "scan"
  /\ state[cursor[c]] = 1
  /\ cpc' = [cpc EXCEPT ![c] = "read"]
  /\ UNCHANGED <<next, state, value, producerVars, cursor, delivered>>

MClaimAndReuse(c) ==
  /\ cpc[c] = "scan"
  /\ state[cursor[c]] = 1
  /\ state' = [state EXCEPT ![cursor[c]] = 0]
  /\ cpc' = [cpc EXCEPT ![c] = "read"]
  /\ UNCHANGED <<next, value, producerVars, cursor, delivered>>

MClaimUnpublished(c) ==
  /\ cpc[c] = "scan"
  /\ state[cursor[c]] # 2
  /\ cursor[c] < next
  /\ state' = [state EXCEPT ![cursor[c]] = 2]
  /\ cpc' = [cpc EXCEPT ![c] = "read"]
  /\ UNCHANGED <<next, value, producerVars, cursor, delivered>>

Claim(c) ==
  /\ cpc[c] = "scan"
  /\ state[cursor[c]] = 1
  /\ state' = [state EXCEPT ![cursor[c]] = 2]
  /\ cpc' = [cpc EXCEPT ![c] = "read"]
  /\ UNCHANGED <<next, value, producerVars, cursor, delivered>>

Read(c) ==
  /\ cpc[c] = "read"
  /\ delivered' = Append(delivered, value[cursor[c]])
  /\ cursor' = [cursor EXCEPT ![c] = Advance(cursor[c])]
  /\ cpc' = [cpc EXCEPT ![c] = "scan"]
  /\ UNCHANGED <<next, state, value, producerVars>>

-----------------------------------------------------------------------------

Call(p) == Load(p) \/ LoadFull(p)

(* What remains of a call once it has read next.                           *)
Finish(p) ==
  \/ Reserve(p) \/ LoseRace(p) \/ Sample(p)
  \/ BeginWrite(p) \/ EndWrite(p) \/ Publish(p)

Drain(c) == Skip(c) \/ Claim(c) \/ Read(c)

Next ==
  \/ \E p \in Producers : Call(p) \/ Finish(p)
  \/ \E c \in Consumers : Drain(c)

(* The game calls the hooks when it likes; a call that has begun runs to   *)
(* its end (no lock, no wait), and the consumer keeps scanning: its loop   *)
(* sleeps and waits for nobody.                                            *)
Fairness ==
  /\ \A p \in Producers : WF_vars(Finish(p))
  /\ \A c \in Consumers : WF_vars(Drain(c))

Spec == Init /\ [][Next]_vars

FairSpec == Spec /\ Fairness

-----------------------------------------------------------------------------
(* Correctness *)

PayloadSet == Capture \cup {Uninit, Torn}

(* Every variable has its type: slot states are the three of Slot::state,  *)
(* and indices stay inside the array.                                      *)
TypeOK ==
  /\ next \in 0..Bound
  /\ state \in [Slots -> 0..2]
  /\ value \in [Slots -> PayloadSet]
  /\ pc \in [Producers -> {"idle", "cas", "sample", "write", "writing", "publish"}]
  /\ seen \in [Producers -> 0..Bound]
  /\ held \in [Producers -> Capture \cup {Uninit}]
  /\ cpc \in [Consumers -> {"scan", "read"}]
  /\ cursor \in [Consumers -> 0..(ScanLength - 1)]
  /\ delivered \in Seq(PayloadSet)

Writers(i) == {p \in Producers : pc[p] = "writing" /\ seen[p] = i}

Readers(i) == {c \in Consumers : cpc[c] = "read" /\ cursor[c] = i}

(* The comment on "unsafe impl Sync for Slot": each slot has one producer  *)
(* and one successful consumer, so no two threads are ever in the payload  *)
(* of one slot, which is what makes the non-atomic write and the move out  *)
(* of MaybeUninit sound.                                                   *)
ExclusiveSlots ==
  \A i \in Slots :
    /\ \A p, q \in Writers(i) : p = q
    /\ \A c, d \in Readers(i) : c = d
    /\ Writers(i) = {} \/ Readers(i) = {}

(* take never returns an unpublished or half-written payload: what it      *)
(* returned is the complete capture of the slot whose number it bears, so  *)
(* the log's sequence numbers name slots.                                  *)
IntactCaptures ==
  \A k \in DOMAIN delivered :
    /\ delivered[k] \in Capture
    /\ value[delivered[k].sequence] = delivered[k]

(* No capture is returned twice, however many consumers and passes there   *)
(* are: the log never repeats a sequence number.                           *)
DeliveredOnce ==
  \A j, k \in DOMAIN delivered :
    delivered[j].sequence = delivered[k].sequence => j = k

\* The producers that have reserved slot i and not yet published it.
Owners(i) ==
  {p \in Producers :
     pc[p] \in {"sample", "write", "writing", "publish"} /\ seen[p] = i}

(* Every slot up to next has exactly one of: a producer that will publish  *)
(* it, a published capture, a consumed capture; none beyond it was ever    *)
(* touched.  A reservation is never lost and never made for nobody.        *)
ReservationsAccounted ==
  \A i \in Slots :
    /\ i < next => ((state[i] = 0) <=> (Owners(i) # {}))
    /\ i >= next => state[i] = 0 /\ Owners(i) = {} /\ value[i] = Uninit

(* A slot's state only moves from unpublished to ready to consumed, and    *)
(* its payload is frozen from its publication on: slots are single-use.    *)
SlotsAreSingleUse ==
  [][\A i \in Slots :
       /\ state'[i] = state[i] \/ state'[i] = state[i] + 1
       /\ state[i] # 0 => value'[i] = value[i]]_vars

(* Every index that was reserved is delivered in the end: no capture the   *)
(* store accepted stays behind the consumer's scan.                        *)
EveryReservationDelivered ==
  \A i \in Slots :
    (i < next) ~> (\E k \in DOMAIN delivered : delivered[k].sequence = i)

\* The captures in slots that have been published, consumed ones included.
Published == {value[i] : i \in {j \in Slots : state[j] # 0}}

Channel ==
  INSTANCE CaptureChannel
    WITH Budget <- Bound, accepted <- Published, delivered <- delivered

(* The store implements the channel it stands for: publication is the      *)
(* moment a capture is accepted, the read in take the moment it is         *)
(* delivered.                                                              *)
ImplementsChannel == Channel!Spec
=============================================================================
