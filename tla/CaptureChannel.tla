--------------------------- MODULE CaptureChannel ---------------------------
(***************************************************************************)
(* What a CaptureStore (src/src/capture.rs) promises to the hooks that     *)
(* fill it and to the thread that empties it: a bounded channel that may   *)
(* refuse a sample, gives each sample it accepts a sequence number of its  *)
(* own, and hands it over whole, exactly once and in any order.            *)
(***************************************************************************)
EXTENDS Naturals, Sequences

CONSTANTS Samples,  \* what a sample closure can return
          Budget    \* how many samples are ever accepted

VARIABLES accepted,   \* the captures handed over by producers
          delivered   \* the captures given to the consumer, oldest first

vars == <<accepted, delivered>>

Capture == [sequence : 0..(Budget - 1), bytes : Samples]

Delivered == {delivered[k] : k \in DOMAIN delivered}

Init == accepted = {} /\ delivered = <<>>

(* A sample is accepted under a sequence number nobody else has.  A call  *)
(* that is refused changes nothing.                                        *)
Accept ==
  \E c \in Capture :
    /\ \A d \in accepted : d.sequence # c.sequence
    /\ accepted' = accepted \cup {c}
    /\ UNCHANGED delivered

Deliver ==
  \E c \in accepted \ Delivered :
    /\ delivered' = Append(delivered, c)
    /\ UNCHANGED accepted

Next == Accept \/ Deliver

Spec == Init /\ [][Next]_vars /\ WF_vars(Deliver)
=============================================================================
