-------------------------------- MODULE Tp ---------------------------------
(***************************************************************************)
(* SOME/IP-TP: segment_message cuts the payload of a message into segments,*)
(* and tp_assembler::feed puts them together again at the other end of a   *)
(* network that loses, duplicates and reorders them.                       *)
(*                                                                         *)
(* A byte of a payload is told apart only by the message it belongs to, so *)
(* a segment's payload is [msg, len] and its place is its offset.          *)
(***************************************************************************)
EXTENDS Integers

CONSTANTS
  Messages,
  Keys,        \* the values of tp_stream_key
  Key,         \* the stream key of each message: sessions are used again
  PayloadSize, \* the number of bytes of each payload
  MaxSize,     \* bound: of the payload sizes
  MaxSegment,  \* max_segment_payload
  MaxCopies,   \* bound: copies of a segment that the network makes
  Absent

ASSUME TpAssumption ==
  /\ Key \in [Messages -> Keys]
  /\ MaxSize \in Nat /\ PayloadSize \in [Messages -> 0 .. MaxSize]
  /\ MaxSegment \in Nat \ {0}
  /\ MaxCopies \in Nat
  /\ Absent \notin [msg : Messages, len : 1 .. MaxSegment]

VARIABLES
  streams,   \* tp_assembler::streams_
  sent,      \* the messages that were sent
  network,   \* copies of each segment under way
  result,    \* what the last call of feed returned
  delivered  \* history: how often each message was returned

tpVars == <<streams, sent, network, result, delivered>>

Bytes == 0 .. MaxSize

(* segment_message starts a segment at every multiple of the maximum, so   *)
(* an empty payload has none; every segment but the last is full.          *)
Offsets == [m \in Messages |-> {o \in Bytes : o < PayloadSize[m] /\ o % MaxSegment = 0}]
Length_Full(m, o) == MaxSegment
Length(m, o) ==
  IF PayloadSize[m] - o > MaxSegment THEN MaxSegment ELSE PayloadSize[m] - o
more_segments_OffByOne(m, o) == o + Length(m, o) <= PayloadSize[m]
more_segments_IfWhole(m, o) == o + Length(m, o) + MaxSegment <= PayloadSize[m]
more_segments(m, o) == o + Length(m, o) < PayloadSize[m]

Segments == {x \in Messages \X Bytes : x[2] \in Offsets[x[1]]}

(* A stream: the fragment at each offset, and final_offset, which is 0     *)
(* until the last segment has come.                                        *)
Fragment == [msg : Messages, len : 1 .. MaxSegment]
Stream   == [fragments : [Bytes -> Fragment \union {Absent}], final : Bytes]
NoStream == [fragments |-> [o \in Bytes |-> Absent], final |-> 0]
Present(s) == {o \in Bytes : s.fragments[o] # Absent}
End(s, o)  == o + s.fragments[o].len

(* The loop of feed goes over the fragments by offset: each starts where   *)
(* the one before it ends, the first at 0, and the last ends at            *)
(* final_offset.                                                           *)
Follows(s, o) ==
  \/ o = 0
  \/ \E p \in Present(s) : End(s, p) = o /\ ~ \E q \in Present(s) : p < q /\ q < o
Complete_IgnoresGaps(s) ==
  /\ s.final # 0
  /\ \E o \in Present(s) : End(s, o) = s.final
Complete(s) ==
  /\ s.final # 0
  /\ \A o \in Present(s) : Follows(s, o)
  /\ \E o \in Present(s) : End(s, o) = s.final /\ \A p \in Present(s) : p <= o

(* The payload feed returns: who each byte position comes from.            *)
Payload(s) == [o \in Present(s) |-> s.fragments[o]]
Original(m) == [o \in Offsets[m] |-> [msg |-> m, len |-> Length(m, o)]]
-----------------------------------------------------------------------------
TpInit ==
  /\ streams = [k \in Keys |-> NoStream]
  /\ sent = {}
  /\ network = [x \in Segments |-> 0]
  /\ result = Absent
  /\ delivered = [m \in Messages |-> 0]

(* A message is segmented and every segment sent; the network makes up to  *)
(* MaxCopies copies of each, none if it loses it.  A session number comes  *)
(* again long after nothing of the message that had it is under way.       *)
segment_message(m) ==
  /\ m \notin sent
  /\ \A x \in Segments : Key[x[1]] = Key[m] => network[x] = 0
  /\ sent' = sent \union {m}
  /\ \E copies \in [Offsets[m] -> 0 .. MaxCopies] :
       network' = [x \in Segments |-> IF x[1] = m THEN copies[x[2]] ELSE network[x]]
  /\ UNCHANGED <<streams, result, delivered>>

(* The fragment is stored, over one that is there already, and a last      *)
(* segment sets final_offset; then feed tries to assemble.                 *)
Store(m, o) ==
  LET s == streams[Key[m]] IN
    [fragments |-> [s.fragments EXCEPT ![o] = [msg |-> m, len |-> Length(m, o)]],
     final |-> IF more_segments(m, o) THEN s.final ELSE o + Length(m, o)]

(* The completed stream is erased.                                         *)
Erased_Kept(s) == [s EXCEPT !.final = 0]
Erased(s) == NoStream

feed(m, o) ==
  /\ network[<<m, o>>] > 0
  /\ network' = [network EXCEPT ![<<m, o>>] = @ - 1]
  /\ LET s == Store(m, o) IN
       \/ /\ Complete(s)
          /\ streams' = [streams EXCEPT ![Key[m]] = Erased(s)]
          /\ result' = Payload(s)
          /\ delivered' = [delivered EXCEPT ![m] = IF Payload(s) = Original(m) THEN @ + 1 ELSE @]
       \/ /\ ~ Complete(s)
          /\ streams' = [streams EXCEPT ![Key[m]] = s]
          /\ result' = Absent
          /\ UNCHANGED delivered
  /\ UNCHANGED sent

clear ==
  /\ streams' = [k \in Keys |-> NoStream]
  /\ result' = Absent
  /\ UNCHANGED <<sent, network, delivered>>

TpNext ==
  \/ \E m \in Messages : segment_message(m)
  \/ \E m \in Messages : \E o \in Offsets[m] : feed(m, o)
  \/ clear

TpSpec == TpInit /\ [][TpNext]_tpVars
-----------------------------------------------------------------------------
(* Every variable has its type; no fragment is longer than a segment.      *)
TpTypeOK ==
  /\ streams \in [Keys -> Stream]
  /\ sent \subseteq Messages
  /\ network \in [Segments -> 0 .. MaxCopies]
  /\ delivered \in [Messages -> 0 .. MaxCopies]

(* What feed returns is the payload of one message, whole.                 *)
ReturnsAMessage == result # Absent => \E m \in Messages : result = Original(m)

(* No message is stuck: when every segment of it is there, in whatever     *)
(* order they came, feed has returned it and erased the stream.            *)
NothingStuck ==
  \A m \in Messages : PayloadSize[m] > 0 =>
    \E o \in Offsets[m] : streams[Key[m]].fragments[o] # [msg |-> m, len |-> Length(m, o)]

(* feed copies every fragment it finds into a result of final_offset bytes.*)
NothingPastEnd ==
  \A k \in Keys : \A o \in Present(streams[k]) :
    streams[k].final # 0 => End(streams[k], o) <= streams[k].final

(* Messages of distinct keys are reassembled as promised.                  *)
Got == [m \in Messages |-> Present(streams[Key[m]])]
Abstract == INSTANCE Reassembly WITH got <- Got
Promise  == Abstract!Spec
=============================================================================
