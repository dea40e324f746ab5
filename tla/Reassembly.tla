---------------------------- MODULE Reassembly -----------------------------
(***************************************************************************)
(* What a reassembler of segmented messages promises: it collects the      *)
(* segments of each message by itself, in any order, ignores one it has    *)
(* already, and delivers the message with the step that brings the last    *)
(* one, after which it starts anew.                                        *)
(***************************************************************************)
EXTENDS Integers

CONSTANTS
  Messages,
  Offsets    \* the offsets of the segments of each message

VARIABLES
  got,       \* the segments of each message collected so far
  delivered  \* how many times each message has been delivered

Init ==
  /\ got = [m \in Messages |-> {}]
  /\ delivered = [m \in Messages |-> 0]

Collect(m, o) ==
  /\ got[m] \union {o} # Offsets[m]
  /\ got' = [got EXCEPT ![m] = @ \union {o}]
  /\ UNCHANGED delivered

Deliver(m, o) ==
  /\ got[m] \union {o} = Offsets[m]
  /\ got' = [got EXCEPT ![m] = {}]
  /\ delivered' = [delivered EXCEPT ![m] = @ + 1]

Forget ==
  /\ got' = [m \in Messages |-> {}]
  /\ UNCHANGED delivered

Next ==
  \/ \E m \in Messages : \E o \in Offsets[m] : Collect(m, o) \/ Deliver(m, o)
  \/ Forget

Spec == Init /\ [][Next]_<<got, delivered>>
=============================================================================
