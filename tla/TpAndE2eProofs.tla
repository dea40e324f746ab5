--------------------------- MODULE TpAndE2eProofs ---------------------------
(***************************************************************************)
(* What two ways of carrying messages promise whatever their parameters.   *)
(* Tp, for messages of any number and size, segments of any length and any *)
(* number of copies, when messages under way have distinct keys:           *)
(* tp_assembler implements a reassembler.  E2e, for every width of the     *)
(* counters, every limit on a gap and any number of messages; and that the *)
(* access control of Enforced leaves these promises as they are.           *)
(***************************************************************************)
EXTENDS Tp, Enforced, DataLemmas, TLAPS

Distinct == \A m, n \in Messages : Key[m] = Key[n] => m = n

(* The fragment that a segment becomes.                                    *)
Part(m, o) == [msg |-> m, len |-> Length(m, o)]
-----------------------------------------------------------------------------
(* What segment_message does: a segment ends where the next one begins, or *)
(* with the payload.                                                       *)
LEMMA Sizes ==
  ASSUME NEW m \in Messages
  PROVE  /\ PayloadSize[m] \in Nat /\ PayloadSize[m] <= MaxSize /\ MaxSize \in Nat
         /\ MaxSegment \in Nat /\ MaxSegment > 0
         /\ Offsets[m] = {o \in Bytes : o < PayloadSize[m] /\ o % MaxSegment = 0}
         /\ \A o \in Offsets[m] : o \in Nat /\ o \in Bytes /\ o < PayloadSize[m]
BY TpAssumption DEF Offsets, Bytes

LEMMA SegmentEnds ==
  ASSUME NEW m \in Messages, NEW o \in Offsets[m]
  PROVE  /\ Length(m, o) \in 1 .. MaxSegment
         /\ o + Length(m, o) <= PayloadSize[m]
         /\ ~ more_segments(m, o) => o + Length(m, o) = PayloadSize[m]
         /\ more_segments(m, o) => Length(m, o) = MaxSegment
BY Sizes DEF Length, more_segments

LEMMA NextOffset ==
  ASSUME NEW m \in Messages, NEW o \in Offsets[m], more_segments(m, o)
  PROVE  o + MaxSegment \in Offsets[m]
<1>1. (o + MaxSegment) % MaxSegment = o % MaxSegment
  BY Sizes, AddDivisor
<1>2. o + MaxSegment < PayloadSize[m]
  BY Sizes, SegmentEnds DEF more_segments
<1>. QED BY <1>1, <1>2, Sizes DEF Bytes

LEMMA Spaced ==
  ASSUME NEW m \in Messages, NEW p \in Offsets[m], NEW q \in Offsets[m], p < q
  PROVE  p + MaxSegment <= q
<1>1. PICK a \in Int, b \in Int : p = MaxSegment * a /\ q = MaxSegment * b
  <2>1. p = MaxSegment * (p \div MaxSegment) /\ p \div MaxSegment \in Int
    BY Sizes, Division
  <2>2. q = MaxSegment * (q \div MaxSegment) /\ q \div MaxSegment \in Int
    BY Sizes, Division
  <2>. QED BY <2>1, <2>2
<1>2. MaxSegment * (b - a) = q - p /\ MaxSegment * (a - b) = p - q
  BY <1>1, Sizes
<1>3. ~ (a - b >= 1)
  <2>1. a - b >= 1 => MaxSegment * (a - b) >= MaxSegment
    BY <1>1, Sizes, Multiple
  <2>. QED BY <1>2, <2>1, Sizes
<1>4. a # b
  BY <1>1, Sizes
<1>5. b - a >= 1
  BY <1>1, <1>3, <1>4
<1>6. MaxSegment * (b - a) >= MaxSegment
  <2>1. b - a \in Int
    BY <1>1
  <2>. QED BY <1>5, <2>1, Sizes, Multiple
<1>. QED BY <1>2, <1>6, Sizes

LEMMA FirstOffset ==
  ASSUME NEW m \in Messages, PayloadSize[m] > 0
  PROVE  0 \in Offsets[m]
<1>1. 0 % MaxSegment = 0
  BY Sizes, SmallRemainder
<1>. QED BY <1>1, Sizes DEF Bytes

LEMMA PreviousOffset ==
  ASSUME NEW m \in Messages, NEW o \in Offsets[m], o # 0
  PROVE  /\ o - MaxSegment \in Offsets[m]
         /\ Length(m, o - MaxSegment) = MaxSegment
<1>1. MaxSegment <= o
  BY Sizes, FirstOffset, Spaced
<1>2. (o - MaxSegment) % MaxSegment = o % MaxSegment
  BY Sizes, AddDivisor
<1>3. o - MaxSegment \in Offsets[m]
  BY <1>1, <1>2, Sizes DEF Bytes
<1>. QED BY <1>3, Sizes DEF Length

LEMMA LastOffset ==
  ASSUME NEW m \in Messages, PayloadSize[m] > 0
  PROVE  \E o \in Offsets[m] : ~ more_segments(m, o)
<1>1. PICK d \in Int, r \in 0 .. MaxSegment - 1 : PayloadSize[m] - 1 = MaxSegment * d + r
  <2>1. PayloadSize[m] - 1 \in Int
    BY Sizes
  <2>. QED BY <2>1, Sizes, Division
<1>2. ~ (-d >= 1)
  <2>1. MaxSegment * (-d) = r - (PayloadSize[m] - 1)
    BY <1>1, Sizes
  <2>. QED BY <2>1, Sizes, Multiple
<1>3. MaxSegment * d \in Nat
  BY <1>1, <1>2, Sizes
<1>4. (MaxSegment * d) % MaxSegment = 0
  BY Sizes, MultipleRemainder
<1>5. PICK o \in Nat : o = MaxSegment * d /\ PayloadSize[m] - 1 = o + r /\ o % MaxSegment = 0
  BY <1>1, <1>3, <1>4, Sizes
<1>6. o \in Offsets[m] /\ ~ more_segments(m, o)
  BY <1>5, Sizes DEF Bytes, more_segments, Length
<1>. QED BY <1>6

LEMMA OneLast ==
  ASSUME NEW m \in Messages, NEW p \in Offsets[m], NEW q \in Offsets[m], ~ more_segments(m, p)
  PROVE  q <= p
<1>1. ~ (p < q)
  BY Spaced, SegmentEnds, Sizes
<1>. QED BY <1>1, Sizes
-----------------------------------------------------------------------------
(* A stream that holds nothing but parts of one message, and knows where   *)
(* the message ends if and only if it has the last of them.                *)
Own(s, m) ==
  /\ s \in Stream
  /\ \A o \in Present(s) : o \in Offsets[m] /\ s.fragments[o] = Part(m, o)
  /\ s.final = IF \E o \in Present(s) : ~ more_segments(m, o) THEN PayloadSize[m] ELSE 0

LEMMA Parts ==
  ASSUME NEW m \in Messages, NEW o \in Offsets[m]
  PROVE  /\ Part(m, o) \in Fragment /\ Part(m, o) # Absent
         /\ Part(m, o).len = Length(m, o) /\ Part(m, o).msg = m
BY SegmentEnds, TpAssumption DEF Part, Fragment

LEMMA EmptyStream ==
  ASSUME NEW m \in Messages
  PROVE  Own(NoStream, m) /\ Present(NoStream) = {}
BY Sizes DEF Own, NoStream, Present, Stream, Bytes

LEMMA OwnEnds ==
  ASSUME NEW m \in Messages, NEW s, Own(s, m), NEW o \in Present(s)
  PROVE  o \in Offsets[m] /\ End(s, o) = o + Length(m, o)
BY Parts DEF Own, End

(* feed finds a message complete when, and only when, all its segments are *)
(* there.                                                                  *)
LEMMA CompleteOnly ==
  ASSUME NEW m \in Messages, NEW s, Own(s, m), Complete(s)
  PROVE  Present(s) = Offsets[m]
<1>. SUFFICES ASSUME Present(s) # Offsets[m] PROVE FALSE
  OBVIOUS
<1>. DEFINE T == Offsets[m] \ Present(s)
<1>1. T \subseteq 0 .. MaxSize /\ T # {}
  BY Sizes DEF Own, Bytes
<1>2. PICK x \in T : \A y \in T : y <= x
  <2>. HIDE DEF T
  <2>. QED BY <1>1, Sizes, Greatest
<1>3. x \in Offsets[m] /\ x \notin Present(s)
  OBVIOUS
<1>4. PICK last \in Present(s) : last \in Offsets[m] /\ ~ more_segments(m, last)
  BY DEF Complete, Own
<1>5. more_segments(m, x)
  <2>. SUFFICES ASSUME ~ more_segments(m, x) PROVE FALSE
    OBVIOUS
  <2>1. x <= last /\ last <= x
    BY <1>3, <1>4, OneLast
  <2>. QED BY <2>1, <1>3, <1>4, Sizes
<1>6. x + MaxSegment \in Offsets[m]
  BY <1>3, <1>5, NextOffset
<1>7. x + MaxSegment \in Present(s)
  <2>1. ~ (x + MaxSegment <= x)
    BY <1>3, Sizes
  <2>. QED BY <1>2, <1>6, <2>1
<1>8. PICK p \in Present(s) : End(s, p) = x + MaxSegment
  <2>1. x + MaxSegment # 0
    BY <1>3, Sizes
  <2>. QED BY <1>7, <2>1 DEF Complete, Follows
<1>9. /\ p \in Offsets[m] /\ p + Length(m, p) = x + MaxSegment
      /\ Length(m, p) \in 1 .. MaxSegment
  BY <1>8, OwnEnds, SegmentEnds
<1>10. p # x
  BY <1>3
<1>11. ~ (p < x)
  BY <1>3, <1>9, Spaced, Sizes
<1>12. ~ (x < p)
  BY <1>3, <1>9, Spaced, Sizes
<1>. QED BY <1>3, <1>9, <1>10, <1>11, <1>12, Sizes

LEMMA CompleteIf ==
  ASSUME NEW m \in Messages, NEW s, Own(s, m), Present(s) = Offsets[m], Offsets[m] # {}
  PROVE  Complete(s)
<1>1. PayloadSize[m] > 0
  BY Sizes
<1>2. PICK last \in Offsets[m] : ~ more_segments(m, last)
  BY <1>1, LastOffset
<1>3. s.final = PayloadSize[m] /\ s.final # 0
  BY <1>1, <1>2, Sizes DEF Own
<1>4. ASSUME NEW o \in Present(s) PROVE Follows(s, o)
  <2>1. CASE o = 0
    BY <2>1 DEF Follows
  <2>2. CASE o # 0
    <3>1. /\ o - MaxSegment \in Present(s)
          /\ Length(m, o - MaxSegment) = MaxSegment
      BY <2>2, PreviousOffset
    <3>2. PICK p \in Present(s) : p = o - MaxSegment /\ Length(m, p) = MaxSegment
      BY <3>1
    <3>3. End(s, p) = o
      BY <3>2, OwnEnds, Sizes
    <3>4. ~ \E q \in Present(s) : p < q /\ q < o
      BY <3>2, Spaced, Sizes
    <3>. QED BY <3>3, <3>4 DEF Follows
  <2>. QED BY <2>1, <2>2
<1>5. End(s, last) = s.final /\ \A p \in Present(s) : p <= last
  BY <1>2, <1>3, OwnEnds, SegmentEnds, OneLast
<1>. QED BY <1>2, <1>3, <1>4, <1>5 DEF Complete

(* A stored segment.                                                       *)
LEMMA Stored ==
  ASSUME NEW m \in Messages, NEW o \in Offsets[m], Own(streams[Key[m]], m)
  PROVE  /\ Own(Store(m, o), m)
         /\ Present(Store(m, o)) = Present(streams[Key[m]]) \union {o}
<1>. DEFINE s == streams[Key[m]]
<1>0. /\ s \in Stream /\ o \in Bytes /\ Part(m, o) \in Fragment /\ Part(m, o) # Absent
  BY Parts, Sizes DEF Own
<1>1. Store(m, o) = [fragments |-> [s.fragments EXCEPT ![o] = Part(m, o)],
                     final |-> IF more_segments(m, o) THEN s.final ELSE o + Length(m, o)]
  BY DEF Store, Part
<1>2. o + Length(m, o) \in Bytes
  BY SegmentEnds, Sizes DEF Bytes
<1>. HIDE DEF s
<1>3. Store(m, o) \in Stream
  BY <1>0, <1>1, <1>2 DEF Stream
<1>4. /\ Present(Store(m, o)) = Present(s) \union {o}
      /\ Store(m, o).fragments[o] = Part(m, o)
      /\ \A p \in Present(s) \ {o} : Store(m, o).fragments[p] = s.fragments[p]
  BY <1>0, <1>1 DEF Present, Stream
<1>5. \A p \in Present(Store(m, o)) : p \in Offsets[m] /\ Store(m, o).fragments[p] = Part(m, p)
  BY <1>4 DEF Own, s
<1>6. Store(m, o).final = IF \E p \in Present(Store(m, o)) : ~ more_segments(m, p)
                          THEN PayloadSize[m] ELSE 0
  <2>1. CASE more_segments(m, o)
    <3>1. Store(m, o).final = s.final
      BY <1>1, <2>1
    <3>. QED BY <1>4, <2>1, <3>1 DEF Own, s
  <2>2. CASE ~ more_segments(m, o)
    BY <1>1, <1>4, <2>2, SegmentEnds
  <2>. QED BY <2>1, <2>2
<1>. QED BY <1>3, <1>4, <1>5, <1>6 DEF Own, s

(* What feed returns.                                                      *)
LEMMA Returned ==
  ASSUME NEW m \in Messages, NEW s, Own(s, m), Present(s) = Offsets[m]
  PROVE  Payload(s) = Original(m)
BY DEF Own, Payload, Original, Part
-----------------------------------------------------------------------------
(* The inductive invariant.  The copies of a segment that are left, with   *)
(* those that were used up, never exceed what the network makes.           *)
StreamOf(m) == streams[Key[m]]

Owned    == \A m \in Messages : Own(StreamOf(m), m)
Unowned  == \A k \in Keys : (\A m \in Messages : Key[m] # k) => streams[k] = NoStream
NotWhole == \A m \in Messages : Offsets[m] # {} => Present(StreamOf(m)) # Offsets[m]

Used(m, o) == IF o \in Present(StreamOf(m)) THEN 1 ELSE 0
Copies ==
  \A m \in Messages : \A o \in Offsets[m] :
    delivered[m] + network[<<m, o>>] + Used(m, o) <= MaxCopies
Unsent ==
  \A m \in Messages \ sent :
    /\ delivered[m] = 0
    /\ Present(StreamOf(m)) = {}
    /\ \A o \in Offsets[m] : network[<<m, o>>] = 0

TpInv ==
  /\ TpTypeOK /\ Owned /\ Unowned /\ NotWhole /\ Copies /\ Unsent
  /\ ReturnsAMessage

LEMMA SegmentsAre ==
  ASSUME NEW m \in Messages, NEW o \in Offsets[m]
  PROVE  <<m, o>> \in Segments
BY Sizes DEF Segments

LEMMA InitTpInv == TpInit => TpInv
<1>. SUFFICES ASSUME TpInit PROVE TpInv
  OBVIOUS
<1>1. /\ NoStream \in Stream
      /\ MaxCopies \in Nat
  BY TpAssumption DEF NoStream, Stream, Bytes
<1>2. TpTypeOK
  BY <1>1 DEF TpInit, TpTypeOK
<1>3. \A m \in Messages : StreamOf(m) = NoStream
  BY TpAssumption DEF TpInit, StreamOf
<1>4. Owned /\ NotWhole /\ Unsent
  BY <1>3, EmptyStream, SegmentsAre DEF TpInit, Owned, NotWhole, Unsent
<1>5. Copies
  <2>. SUFFICES ASSUME NEW m \in Messages, NEW o \in Offsets[m]
                PROVE  delivered[m] + network[<<m, o>>] + Used(m, o) <= MaxCopies
    BY DEF Copies
  <2>1. Used(m, o) = 0 /\ delivered[m] = 0 /\ network[<<m, o>>] = 0
    BY <1>3, EmptyStream, SegmentsAre DEF Used, TpInit
  <2>. QED BY <1>1, <2>1
<1>. QED BY <1>2, <1>4, <1>5 DEF TpInit, TpInv, Unowned, ReturnsAMessage

(* The state after feed: the stream of the message has one more segment,   *)
(* or is gone if the message was complete.                                 *)
LEMMA FeedStep ==
  ASSUME Distinct, TpInv, NEW m \in Messages, NEW o \in Offsets[m], feed(m, o)
  PROVE  /\ network' = [network EXCEPT ![<<m, o>>] = @ - 1]
         /\ network[<<m, o>>] \in 1 .. MaxCopies
         /\ sent' = sent
         /\ \A n \in Messages \ {m} : StreamOf(n)' = StreamOf(n)
         /\ \A k \in Keys \ {Key[m]} : streams'[k] = streams[k]
         /\ Own(StreamOf(m)', m)
         /\ streams' \in [Keys -> Stream]
         /\ \/ /\ Present(StreamOf(m)) \union {o} = Offsets[m]
               /\ Present(StreamOf(m)') = {}
               /\ delivered' = [delivered EXCEPT ![m] = @ + 1]
               /\ result' = Original(m)
            \/ /\ Present(StreamOf(m)) \union {o} # Offsets[m]
               /\ Present(StreamOf(m)') = Present(StreamOf(m)) \union {o}
               /\ delivered' = delivered
               /\ result' = Absent
<1>. DEFINE s == Store(m, o)
<1>1. /\ Own(s, m)
      /\ Present(s) = Present(StreamOf(m)) \union {o}
  BY Stored DEF TpInv, Owned, StreamOf
<1>2. Complete(s) <=> Present(s) = Offsets[m]
  BY <1>1, CompleteOnly, CompleteIf
<1>3. /\ network' = [network EXCEPT ![<<m, o>>] = @ - 1]
      /\ sent' = sent
      /\ network[<<m, o>>] > 0
  BY DEF feed
<1>4. network[<<m, o>>] \in 1 .. MaxCopies
  BY <1>3, SegmentsAre, TpAssumption DEF TpInv, TpTypeOK
<1>5. Key \in [Messages -> Keys] /\ streams \in [Keys -> Stream] /\ Key[m] \in Keys
  BY TpAssumption DEF TpInv, TpTypeOK
<1>6. ASSUME NEW t, streams' = [streams EXCEPT ![Key[m]] = t], t \in Stream
      PROVE  /\ \A n \in Messages \ {m} : StreamOf(n)' = StreamOf(n)
             /\ \A k \in Keys \ {Key[m]} : streams'[k] = streams[k]
             /\ StreamOf(m)' = t
             /\ streams' \in [Keys -> Stream]
  BY <1>5, <1>6 DEF StreamOf, Distinct
<1>7. CASE Complete(s)
  <2>1. /\ streams' = [streams EXCEPT ![Key[m]] = NoStream]
        /\ result' = Payload(s)
        /\ delivered' = [delivered EXCEPT ![m] = IF Payload(s) = Original(m) THEN @ + 1 ELSE @]
    BY <1>7 DEF feed, Erased
  <2>2. Payload(s) = Original(m)
    BY <1>1, <1>2, <1>7, Returned
  <2>3. NoStream \in Stream /\ Own(NoStream, m) /\ Present(NoStream) = {}
    BY EmptyStream DEF Own
  <2>. HIDE DEF s
  <2>. QED BY <1>1, <1>2, <1>3, <1>4, <1>6, <1>7, <2>1, <2>2, <2>3
<1>8. CASE ~ Complete(s)
  <2>1. streams' = [streams EXCEPT ![Key[m]] = s] /\ result' = Absent /\ delivered' = delivered
    BY <1>8 DEF feed
  <2>2. s \in Stream
    BY <1>1 DEF Own
  <2>. HIDE DEF s
  <2>. QED BY <1>1, <1>2, <1>3, <1>4, <1>6, <1>8, <2>1, <2>2
<1>. QED BY <1>7, <1>8

LEMMA NextTpInv ==
  ASSUME Distinct, TpInv, [TpNext]_tpVars
  PROVE  TpInv'
<1>1. ASSUME NEW m \in Messages, NEW o \in Offsets[m], feed(m, o)
      PROVE  TpInv'
  <2>1. /\ network' = [network EXCEPT ![<<m, o>>] = @ - 1]
        /\ network[<<m, o>>] \in 1 .. MaxCopies
        /\ sent' = sent
        /\ \A n \in Messages \ {m} : StreamOf(n)' = StreamOf(n)
        /\ \A k \in Keys \ {Key[m]} : streams'[k] = streams[k]
        /\ Own(StreamOf(m)', m)
        /\ streams' \in [Keys -> Stream]
    BY <1>1, FeedStep
  <2>2. \/ /\ Present(StreamOf(m)) \union {o} = Offsets[m]
           /\ Present(StreamOf(m)') = {}
           /\ delivered' = [delivered EXCEPT ![m] = @ + 1]
           /\ result' = Original(m)
        \/ /\ Present(StreamOf(m)) \union {o} # Offsets[m]
           /\ Present(StreamOf(m)') = Present(StreamOf(m)) \union {o}
           /\ delivered' = delivered
           /\ result' = Absent
    BY <1>1, FeedStep
  <2>3. /\ MaxCopies \in Nat
        /\ delivered \in [Messages -> 0 .. MaxCopies]
        /\ network \in [Segments -> 0 .. MaxCopies]
        /\ <<m, o>> \in Segments
    BY SegmentsAre, TpAssumption DEF TpInv, TpTypeOK
  <2>4. /\ network'[<<m, o>>] = network[<<m, o>>] - 1
        /\ \A n \in Messages : \A p \in Offsets[n] :
             <<n, p>> # <<m, o>> => network'[<<n, p>>] = network[<<n, p>>]
    BY <2>1, <2>3, SegmentsAre
  <2>5. network' \in [Segments -> 0 .. MaxCopies]
    BY <2>1, <2>3
  <2>6. \A n \in Messages : \A p \in Offsets[n] :
          /\ delivered[n] \in Nat /\ network[<<n, p>>] \in Nat /\ Used(n, p) \in {0, 1}
          /\ delivered[n] + network[<<n, p>>] + Used(n, p) <= MaxCopies
    <3>. TAKE n \in Messages
    <3>. TAKE p \in Offsets[n]
    <3>1. delivered[n] \in Nat
      BY <2>3
    <3>2. network[<<n, p>>] \in Nat
      BY <2>3, SegmentsAre
    <3>3. Used(n, p) \in {0, 1}
      BY DEF Used
    <3>4. delivered[n] + network[<<n, p>>] + Used(n, p) <= MaxCopies
      BY DEF TpInv, Copies
    <3>. QED BY <3>1, <3>2, <3>3, <3>4
  <2>7. delivered[m] + 1 <= MaxCopies
    <3>1. /\ delivered[m] \in Nat /\ Used(m, o) \in {0, 1}
          /\ delivered[m] + network[<<m, o>>] + Used(m, o) <= MaxCopies
      BY <2>6
    <3>. QED BY <2>1, <2>3, <3>1
  <2>8. delivered' \in [Messages -> 0 .. MaxCopies]
    BY <2>2, <2>3, <2>7
  <2>9. TpTypeOK'
    BY <2>1, <2>5, <2>8 DEF TpInv, TpTypeOK
  <2>10. Owned'
    BY <2>1 DEF TpInv, Owned
  <2>11. Unowned'
    BY <2>1 DEF TpInv, Unowned
  <2>12. NotWhole'
    BY <2>1, <2>2 DEF TpInv, NotWhole
  <2>13. m \in sent
    BY <2>1 DEF TpInv, Unsent
  <2>14. Unsent'
    <3>. SUFFICES ASSUME NEW n \in Messages \ sent
                  PROVE  /\ delivered'[n] = 0
                         /\ Present(StreamOf(n)') = {}
                         /\ \A p \in Offsets[n] : network'[<<n, p>>] = 0
      BY <2>1 DEF Unsent
    <3>1. n # m
      BY <2>13
    <3>2. delivered'[n] = delivered[n]
      BY <2>2, <2>3, <3>1
    <3>3. \A p \in Offsets[n] : network'[<<n, p>>] = network[<<n, p>>]
      BY <2>4, <3>1
    <3>. QED BY <2>1, <3>1, <3>2, <3>3 DEF TpInv, Unsent
  <2>15. Copies'
    <3>. SUFFICES ASSUME NEW n \in Messages, NEW p \in Offsets[n]
                  PROVE  delivered'[n] + network'[<<n, p>>] + Used(n, p)' <= MaxCopies
      BY DEF Copies
    <3>0. /\ delivered[n] \in Nat /\ network[<<n, p>>] \in Nat /\ Used(n, p) \in {0, 1}
          /\ delivered[n] + network[<<n, p>>] + Used(n, p) <= MaxCopies
          /\ MaxCopies \in Nat
      BY <2>3, <2>6
    <3>1. Used(n, p)' = IF p \in Present(StreamOf(n)') THEN 1 ELSE 0
      BY DEF Used
    <3>2. CASE n # m
      <4>1. /\ delivered'[n] = delivered[n]
            /\ network'[<<n, p>>] = network[<<n, p>>]
            /\ Used(n, p)' = Used(n, p)
        BY <2>1, <2>2, <2>3, <2>4, <3>1, <3>2 DEF Used
      <4>. QED BY <3>0, <4>1
    <3>3. CASE n = m /\ Present(StreamOf(m)) \union {o} = Offsets[m]
      <4>1. delivered'[n] = delivered[n] + 1 /\ Used(n, p)' = 0
        BY <2>2, <2>3, <3>1, <3>3
      <4>2. CASE p = o
        <5>1. network'[<<n, p>>] = network[<<n, p>>] - 1
          BY <2>4, <3>3, <4>2
        <5>. QED BY <3>0, <4>1, <5>1
      <4>3. CASE p # o
        <5>1. Used(n, p) = 1 /\ network'[<<n, p>>] = network[<<n, p>>]
          BY <2>4, <3>3, <4>3 DEF Used
        <5>. QED BY <3>0, <4>1, <5>1
      <4>. QED BY <4>2, <4>3
    <3>4. CASE n = m /\ Present(StreamOf(m)) \union {o} # Offsets[m]
      <4>1. delivered'[n] = delivered[n]
        BY <2>2, <3>4
      <4>2. CASE p = o
        <5>1. Used(n, p)' = 1 /\ network'[<<n, p>>] = network[<<n, p>>] - 1
          BY <2>2, <2>4, <3>1, <3>4, <4>2
        <5>. QED BY <3>0, <4>1, <5>1
      <4>3. CASE p # o
        <5>1. Used(n, p)' = Used(n, p) /\ network'[<<n, p>>] = network[<<n, p>>]
          BY <2>2, <2>4, <3>1, <3>4, <4>3 DEF Used
        <5>. QED BY <3>0, <4>1, <5>1
      <4>. QED BY <4>2, <4>3
    <3>. QED BY <3>2, <3>3, <3>4
  <2>16. ReturnsAMessage'
    BY <2>2 DEF ReturnsAMessage
  <2>. QED BY <2>9, <2>10, <2>11, <2>12, <2>14, <2>15, <2>16 DEF TpInv
<1>2. ASSUME NEW m \in Messages, segment_message(m)
      PROVE  TpInv'
  <2>0. UNCHANGED <<streams, result, delivered>> /\ m \notin sent /\ sent' = sent \union {m}
    BY <1>2 DEF segment_message
  <2>1. PICK copies \in [Offsets[m] -> 0 .. MaxCopies] :
          network' = [x \in Segments |-> IF x[1] = m THEN copies[x[2]] ELSE network[x]]
    BY <1>2 DEF segment_message
  <2>2. network' \in [Segments -> 0 .. MaxCopies]
    BY <2>1 DEF TpInv, TpTypeOK, Segments
  <2>3. TpTypeOK'
    BY <2>0, <2>2 DEF TpInv, TpTypeOK
  <2>4. Owned' /\ Unowned' /\ NotWhole' /\ ReturnsAMessage'
    BY <2>0 DEF TpInv, Owned, Unowned, NotWhole, ReturnsAMessage, StreamOf
  <2>5. Unsent'
    <3>. SUFFICES ASSUME NEW n \in Messages \ sent', NEW o \in Offsets[n]
                  PROVE  network'[<<n, o>>] = 0
      BY <2>0 DEF TpInv, Unsent, StreamOf
    <3>1. n # m /\ n \in Messages \ sent
      BY <2>0
    <3>. QED BY <2>1, <3>1, SegmentsAre DEF TpInv, Unsent
  <2>6. Copies'
    <3>. SUFFICES ASSUME NEW n \in Messages, NEW o \in Offsets[n]
                  PROVE  delivered[n] + network'[<<n, o>>] + Used(n, o) <= MaxCopies
      BY <2>0 DEF Copies, Used, StreamOf
    <3>1. CASE n = m
      <4>1. delivered[n] = 0 /\ Used(n, o) = 0
        BY <2>0, <3>1 DEF TpInv, Unsent, Used
      <4>2. network'[<<n, o>>] \in 0 .. MaxCopies
        BY <2>2, SegmentsAre
      <4>. QED BY <4>1, <4>2, TpAssumption
    <3>2. CASE n # m
      <4>1. network'[<<n, o>>] = network[<<n, o>>]
        BY <2>1, <3>2, SegmentsAre
      <4>. QED BY <4>1 DEF TpInv, Copies
    <3>. QED BY <3>1, <3>2
  <2>. QED BY <2>3, <2>4, <2>5, <2>6 DEF TpInv
<1>3. ASSUME clear
      PROVE  TpInv'
  <2>1. /\ streams' = [k \in Keys |-> NoStream] /\ result' = Absent
        /\ UNCHANGED <<sent, network, delivered>>
    BY <1>3 DEF clear
  <2>2. \A m \in Messages : StreamOf(m)' = NoStream
    BY <2>1, TpAssumption DEF StreamOf
  <2>3. Owned' /\ NotWhole' /\ Unsent'
    BY <2>1, <2>2, EmptyStream DEF TpInv, Owned, NotWhole, Unsent
  <2>4. TpTypeOK'
    <3>1. NoStream \in Stream
      BY TpAssumption DEF NoStream, Stream, Bytes
    <3>. QED BY <2>1, <3>1 DEF TpInv, TpTypeOK
  <2>5. Copies'
    <3>. SUFFICES ASSUME NEW m \in Messages, NEW o \in Offsets[m]
                  PROVE  delivered[m] + network[<<m, o>>] + Used(m, o)' <= MaxCopies
      BY <2>1 DEF Copies
    <3>1. Used(m, o)' = 0 /\ Used(m, o) \in {0, 1}
      BY <2>2, EmptyStream DEF Used
    <3>2. delivered[m] + network[<<m, o>>] + Used(m, o) <= MaxCopies
      BY DEF TpInv, Copies
    <3>3. delivered[m] \in Nat /\ network[<<m, o>>] \in Nat
      BY SegmentsAre, TpAssumption DEF TpInv, TpTypeOK
    <3>. QED BY <3>1, <3>2, <3>3, TpAssumption
  <2>6. Unowned' /\ ReturnsAMessage'
    BY <2>1 DEF Unowned, ReturnsAMessage
  <2>. QED BY <2>3, <2>4, <2>5, <2>6 DEF TpInv
<1>4. ASSUME UNCHANGED tpVars
      PROVE  TpInv'
  BY <1>4 DEF tpVars, TpInv, TpTypeOK, Owned, Unowned, NotWhole, Copies, Used, Unsent,
              ReturnsAMessage, StreamOf
<1>. QED BY <1>1, <1>2, <1>3, <1>4 DEF TpNext
-----------------------------------------------------------------------------
(* The invariant holds in every state, when the keys of messages differ.   *)
THEOREM TpInvariance == Distinct => (TpSpec => []TpInv)
<1>. SUFFICES ASSUME Distinct PROVE TpSpec => []TpInv
  OBVIOUS
<1>1. TpInv /\ [TpNext]_tpVars => TpInv'
  BY NextTpInv
<1>. QED BY InitTpInv, <1>1, PTL DEF TpSpec

(* Streams, counts of copies and counts of returns have their types:       *)
(* tp_assembler never returns a message more often than it came.           *)
THEOREM TpTypeCorrect == Distinct => (TpSpec => []TpTypeOK)
<1>. SUFFICES ASSUME Distinct PROVE TpSpec => []TpTypeOK
  OBVIOUS
<1>1. TpInv => TpTypeOK
  BY DEF TpInv
<1>. QED BY TpInvariance, <1>1, PTL

(* What feed returns is always one message, whole and in its order.        *)
THEOREM WholeMessages == Distinct => (TpSpec => []ReturnsAMessage)
<1>. SUFFICES ASSUME Distinct PROVE TpSpec => []ReturnsAMessage
  OBVIOUS
<1>1. TpInv => ReturnsAMessage
  BY DEF TpInv
<1>. QED BY TpInvariance, <1>1, PTL

(* No stream of feed ever holds a whole message: whatever the order of the *)
(* segments, the one that comes last makes feed return it.                 *)
THEOREM NoneStuck == Distinct => (TpSpec => []NothingStuck)
<1>. SUFFICES ASSUME Distinct PROVE TpSpec => []NothingStuck
  OBVIOUS
<1>1. TpInv => NothingStuck
  <2>. SUFFICES ASSUME TpInv, NEW m \in Messages, PayloadSize[m] > 0
                PROVE  \E o \in Offsets[m] : streams[Key[m]].fragments[o] # Part(m, o)
    BY DEF NothingStuck, Part
  <2>1. Own(StreamOf(m), m)
    BY DEF TpInv, Owned
  <2>2. Present(StreamOf(m)) # Offsets[m]
    BY FirstOffset DEF TpInv, NotWhole
  <2>3. PICK o \in Offsets[m] : o \notin Present(StreamOf(m))
    BY <2>1, <2>2 DEF Own
  <2>4. StreamOf(m).fragments[o] = Absent
    BY <2>3, Sizes DEF Present
  <2>. QED BY <2>4, Parts DEF StreamOf
<1>. QED BY TpInvariance, <1>1, PTL

(* No fragment of a stream ends past the end of the buffer that feed       *)
(* allocates for the message.                                              *)
THEOREM NonePastEnd == Distinct => (TpSpec => []NothingPastEnd)
<1>. SUFFICES ASSUME Distinct PROVE TpSpec => []NothingPastEnd
  OBVIOUS
<1>1. TpInv => NothingPastEnd
  <2>. SUFFICES ASSUME TpInv, NEW k \in Keys, NEW o \in Present(streams[k]), streams[k].final # 0
                PROVE  End(streams[k], o) <= streams[k].final
    BY DEF NothingPastEnd
  <2>1. streams[k] # NoStream
    BY DEF Present, NoStream
  <2>2. PICK m \in Messages : Key[m] = k
    BY <2>1 DEF TpInv, Unowned
  <2>3. Own(streams[k], m)
    BY <2>2 DEF TpInv, Owned, StreamOf
  <2>4. streams[k].final = PayloadSize[m]
    BY <2>3 DEF Own
  <2>. QED BY <2>3, <2>4, OwnEnds, SegmentEnds
<1>. QED BY TpInvariance, <1>1, PTL

(* tp_assembler implements the reassembler: it returns a message exactly   *)
(* with the step that brings the last of its segments, and each time all   *)
(* of them came anew.                                                      *)
THEOREM Reassembles == Distinct => (TpSpec => Promise)
<1>. SUFFICES ASSUME Distinct PROVE TpSpec => Promise
  OBVIOUS
<1>1. TpInit => Abstract!Init
  <2>. SUFFICES ASSUME TpInit PROVE Abstract!Init
    OBVIOUS
  <2>1. \A m \in Messages : Present(streams[Key[m]]) = {}
    BY EmptyStream, TpAssumption DEF TpInit
  <2>. QED BY <2>1 DEF TpInit, Abstract!Init, Got
<1>2. TpInv /\ [TpNext]_tpVars => [Abstract!Next]_<<Got, delivered>>
  <2>. SUFFICES ASSUME TpInv, [TpNext]_tpVars
                PROVE  [Abstract!Next]_<<Got, delivered>>
    OBVIOUS
  <2>1. ASSUME NEW m \in Messages, NEW o \in Offsets[m], feed(m, o)
        PROVE  Abstract!Collect(m, o) \/ Abstract!Deliver(m, o)
    <3>1. /\ \A n \in Messages \ {m} : StreamOf(n)' = StreamOf(n)
          /\ \/ /\ Present(StreamOf(m)) \union {o} = Offsets[m]
                /\ Present(StreamOf(m)') = {}
                /\ delivered' = [delivered EXCEPT ![m] = @ + 1]
             \/ /\ Present(StreamOf(m)) \union {o} # Offsets[m]
                /\ Present(StreamOf(m)') = Present(StreamOf(m)) \union {o}
                /\ delivered' = delivered
      BY <2>1, FeedStep
    <3>2. /\ Got' = [Got EXCEPT ![m] = Present(StreamOf(m)')]
          /\ Got[m] = Present(StreamOf(m))
      BY <3>1 DEF Got, StreamOf
    <3>. QED BY <3>1, <3>2 DEF Abstract!Collect, Abstract!Deliver
  <2>2. ASSUME NEW m \in Messages, segment_message(m)
        PROVE  UNCHANGED <<Got, delivered>>
    BY <2>2 DEF segment_message, Got
  <2>3. ASSUME clear
        PROVE  Abstract!Forget
    <3>1. \A m \in Messages : Present(streams'[Key[m]]) = {}
      BY <2>3, EmptyStream, TpAssumption DEF clear
    <3>2. Got' = [m \in Messages |-> {}] /\ delivered' = delivered
      BY <2>3, <3>1 DEF clear, Got
    <3>. QED BY <3>2 DEF Abstract!Forget
  <2>4. ASSUME UNCHANGED tpVars
        PROVE  UNCHANGED <<Got, delivered>>
    BY <2>4 DEF tpVars, Got
  <2>. QED BY <2>1, <2>2, <2>3, <2>4 DEF TpNext, Abstract!Next
<1>. QED BY TpInvariance, <1>1, <1>2, PTL DEF TpSpec, Promise, Abstract!Spec
-----------------------------------------------------------------------------
(* End-to-end protection.                                                  *)
(* The sender's counter can be taken modulo the smaller width before or    *)
(* after it is taken modulo the larger one.                                *)
LEMMA NarrowCounter ==
  ASSUME NEW n \in Nat
  PROVE  (n % CounterMod) % Modulus = n % Modulus
<1>1. /\ CounterMod \in Nat /\ CounterMod > 0
      /\ Modulus \in Nat /\ Modulus > 0
      /\ CounterMod % Modulus = 0
  BY E2eAssumption
<1>2. /\ n % CounterMod \in Int /\ n \div CounterMod \in Int
      /\ n = CounterMod * (n \div CounterMod) + (n % CounterMod)
  BY <1>1, Division
<1>3. CounterMod \div Modulus \in Int /\ CounterMod = Modulus * (CounterMod \div Modulus)
  BY <1>1, Division
<1>4. PICK q \in Int, p \in Int, r \in Int :
        /\ n = CounterMod * p + r /\ r = n % CounterMod
        /\ CounterMod = Modulus * q
  BY <1>2, <1>3
<1>5. n = Modulus * (q * p) + r
  BY <1>1, <1>4
<1>6. q * p \in Int
  BY <1>4
<1>7. (Modulus * (q * p) + r) % Modulus = r % Modulus
  BY <1>1, <1>4, <1>6, SameRemainder
<1>. QED BY <1>4, <1>5, <1>7

LEMMA NextCounter ==
  ASSUME NEW n \in Nat
  PROVE  ((n % CounterMod) + 1) % CounterMod = (n + 1) % CounterMod
<1>1. CounterMod \in Nat /\ CounterMod > 0
  BY E2eAssumption
<1>2. PICK p \in Int, r \in Int : n = CounterMod * p + r /\ r = n % CounterMod
  BY <1>1, Division
<1>3. n + 1 = CounterMod * p + (r + 1)
  BY <1>1, <1>2
<1>4. (CounterMod * p + (r + 1)) % CounterMod = (r + 1) % CounterMod
  BY <1>1, <1>2, SameRemainder
<1>. QED BY <1>2, <1>3, <1>4
-----------------------------------------------------------------------------
(* The inductive invariant.  Counters are the numbers of messages taken    *)
(* modulo their widths; the channel is in order, and nothing on it is      *)
(* older than the last message that was intact (k below) or newer than the *)
(* sender (n below).                                                       *)
Carried(c, k, n) ==
  \A i \in 1 .. Len(c) :
    /\ k <= c[i].number /\ c[i].number <= n
    /\ c[i].body = "intact" => c[i].number >= 1 /\ c[i].counter = c[i].number % Modulus

Ordered(c) == \A i, j \in 1 .. Len(c) : i <= j => c[i].number <= c[j].number

Sender   == send_counter = (1 + number) % CounterMod
Receiver ==
  /\ checked <= number
  /\ checked = Fresh => accepted = 0
  /\ checked # Fresh => accepted <= checked /\ recv_counter = checked % Modulus

IInv ==
  /\ TypeOK /\ Sender /\ Receiver /\ VerdictIsRight
  /\ Carried(channel, checked, number) /\ Ordered(channel)

LEMMA InitIInv == Init => IInv
<1>. SUFFICES ASSUME Init PROVE IInv
  OBVIOUS
<1>1. 1 % CounterMod \in 0 .. CounterMod - 1
  BY E2eAssumption, Division
<1>2. TypeOK
  BY <1>1, E2eAssumption DEF Init, TypeOK, Message, Results, Fresh
<1>. QED BY <1>2, E2eAssumption
         DEF Init, IInv, Sender, Receiver, VerdictIsRight, Carried, Ordered, Fresh

(* What the sender appends keeps the channel in order.                     *)
LEMMA AppendCarried ==
  ASSUME NEW c \in Seq(Message), NEW m \in Message, NEW k \in Int, NEW n \in Nat, NEW p \in Nat,
         Carried(c, k, n), Ordered(c), n <= p, k <= p, m.number = p,
         m.body = "intact" => p >= 1 /\ m.counter = p % Modulus
  PROVE  Append(c, m) \in Seq(Message) /\ Carried(Append(c, m), k, p) /\ Ordered(Append(c, m))
<1>1. /\ Append(c, m) \in Seq(Message)
      /\ Len(Append(c, m)) = Len(c) + 1
      /\ \A i \in 1 .. Len(c) : Append(c, m)[i] = c[i]
      /\ Append(c, m)[Len(c) + 1] = m
  OBVIOUS
<1>2. \A i \in 1 .. Len(c) : c[i].number \in Nat
  <2>1. \A i \in 1 .. Len(c) : c[i] \in Message
    OBVIOUS
  <2>. QED BY <2>1, E2eAssumption DEF Message
<1>3. Carried(Append(c, m), k, p)
  BY <1>1, <1>2 DEF Carried
<1>4. Ordered(Append(c, m))
  BY <1>1, <1>2 DEF Carried, Ordered
<1>. QED BY <1>1, <1>3, <1>4

LEMMA TailCarried ==
  ASSUME NEW c \in Seq(Message), c # <<>>, NEW k \in Int, NEW n \in Nat,
         Carried(c, k, n), Ordered(c)
  PROVE  /\ Tail(c) \in Seq(Message) /\ Carried(Tail(c), k, n) /\ Ordered(Tail(c))
         /\ Carried(Tail(c), Head(c).number, n) /\ Carried(c, Head(c).number, n)
<1>1. /\ Tail(c) \in Seq(Message) /\ Len(Tail(c)) = Len(c) - 1
      /\ \A i \in 1 .. Len(c) - 1 : Tail(c)[i] = c[i + 1]
      /\ Head(c) = c[1] /\ Len(c) \in Nat /\ Len(c) >= 1
  OBVIOUS
<1>2. Carried(Tail(c), k, n) /\ Ordered(Tail(c))
  BY <1>1 DEF Carried, Ordered
<1>3. Carried(c, Head(c).number, n)
  BY <1>1 DEF Carried, Ordered
<1>4. Carried(Tail(c), Head(c).number, n)
  BY <1>1, <1>3 DEF Carried
<1>. QED BY <1>1, <1>2, <1>3, <1>4

LEMMA NextIInv == IInv /\ [Next]_vars => IInv'
<1>. SUFFICES ASSUME IInv, [Next]_vars PROVE IInv'
  OBVIOUS
<1>0. /\ TypeOK /\ Sender /\ Receiver /\ VerdictIsRight
      /\ Carried(channel, checked, number) /\ Ordered(channel)
      /\ number \in Nat /\ checked \in Int /\ checked <= number
  BY E2eAssumption DEF IInv, TypeOK, Receiver
<1>1. CASE \E body \in {"short", "intact"} : protect(body)
  <2>1. PICK body \in {"short", "intact"} : protect(body)
    BY <1>1
  <2>2. /\ number' = number + 1 /\ number' \in 0 .. MaxNumber
        /\ send_counter' = (send_counter + 1) % CounterMod
        /\ UNCHANGED <<recv_counter, checked, accepted, verdict>>
        /\ channel' = Append(channel, [body |-> body, counter |-> Stamp, number |-> number'])
    BY <1>0, <2>1, E2eAssumption DEF protect, Send, TypeOK
  <2>3. Stamp = number' % Modulus /\ Stamp \in 0 .. Modulus - 1
    <3>1. PICK n \in Nat : n = 1 + number /\ n = number' /\ send_counter = n % CounterMod
      BY <1>0, <2>2 DEF Sender
    <3>2. (n % CounterMod) % Modulus = n % Modulus
      BY NarrowCounter
    <3>3. n % Modulus \in 0 .. Modulus - 1
      BY Division, E2eAssumption
    <3>. QED BY <3>1, <3>2, <3>3 DEF Stamp
  <2>4. Sender' /\ send_counter' \in 0 .. CounterMod - 1
    BY <1>0, <2>2, NextCounter, Division, E2eAssumption DEF Sender
  <2>5. [body |-> body, counter |-> Stamp, number |-> number'] \in Message
    BY <2>2, <2>3 DEF Message, Bodies
  <2>6. channel' \in Seq(Message) /\ Carried(channel', checked, number') /\ Ordered(channel')
    BY <1>0, <2>2, <2>3, <2>5, AppendCarried DEF TypeOK
  <2>7. TypeOK'
    BY <1>0, <2>2, <2>4, <2>6 DEF TypeOK
  <2>8. Receiver' /\ VerdictIsRight'
    BY <1>0, <2>2 DEF Receiver, VerdictIsRight
  <2>. QED BY <2>2, <2>4, <2>6, <2>7, <2>8 DEF IInv
<1>2. CASE pass_bare
  <2>1. /\ UNCHANGED <<send_counter, recv_counter, number, checked, accepted, verdict>>
        /\ channel' = Append(channel, [body |-> "bare", counter |-> Stamp, number |-> number])
    BY <1>2 DEF pass_bare, Send
  <2>2. [body |-> "bare", counter |-> Stamp, number |-> number] \in Message
    BY <1>0, Division, E2eAssumption DEF Message, Bodies, Stamp, TypeOK
  <2>3. channel' \in Seq(Message) /\ Carried(channel', checked, number) /\ Ordered(channel')
    BY <1>0, <2>1, <2>2, AppendCarried DEF TypeOK, Receiver
  <2>4. TypeOK'
    BY <1>0, <2>1, <2>3 DEF TypeOK
  <2>. QED BY <1>0, <2>1, <2>3, <2>4 DEF IInv, Sender, Receiver, VerdictIsRight
<1>3. CASE lose
  <2>1. /\ UNCHANGED <<send_counter, recv_counter, number, checked, accepted, verdict>>
        /\ channel # <<>> /\ channel' = Tail(channel)
    BY <1>3 DEF lose
  <2>2. channel' \in Seq(Message) /\ Carried(channel', checked, number) /\ Ordered(channel')
    BY <1>0, <2>1, TailCarried DEF TypeOK
  <2>3. TypeOK'
    BY <1>0, <2>1, <2>2 DEF TypeOK
  <2>. QED BY <1>0, <2>1, <2>2, <2>3 DEF IInv, Sender, Receiver, VerdictIsRight
<1>4. CASE corrupt
  <2>1. /\ UNCHANGED <<send_counter, recv_counter, number, checked, accepted, verdict>>
        /\ channel # <<>> /\ channel' = [channel EXCEPT ![1].body = "damaged"]
    BY <1>4 DEF corrupt
  <2>2. /\ channel' \in Seq(Message) /\ Len(channel') = Len(channel)
        /\ \A i \in 1 .. Len(channel) :
             channel'[i].number = channel[i].number /\ channel'[i].counter = channel[i].counter
        /\ \A i \in 1 .. Len(channel) : channel'[i].body = "intact" => channel[i].body = "intact"
    <3>1. channel \in Seq(Message) /\ channel[1] \in Message /\ 1 \in 1 .. Len(channel)
      BY <1>0, <2>1 DEF TypeOK
    <3>2. [channel[1] EXCEPT !.body = "damaged"] \in Message
      BY <3>1 DEF Message, Bodies
    <3>3. channel' = [channel EXCEPT ![1] = [channel[1] EXCEPT !.body = "damaged"]]
      BY <2>1
    <3>4. /\ channel' \in Seq(Message) /\ Len(channel') = Len(channel)
          /\ channel'[1] = [channel[1] EXCEPT !.body = "damaged"]
          /\ \A i \in 2 .. Len(channel) : channel'[i] = channel[i]
      BY <3>1, <3>2, <3>3
    <3>5. /\ channel'[1].number = channel[1].number
          /\ channel'[1].counter = channel[1].counter
          /\ channel'[1].body # "intact"
      BY <3>1, <3>4 DEF Message
    <3>6. \A i \in 1 .. Len(channel) :
            /\ channel'[i].number = channel[i].number /\ channel'[i].counter = channel[i].counter
            /\ channel'[i].body = "intact" => channel[i].body = "intact"
      <4>. SUFFICES ASSUME NEW i \in 1 .. Len(channel)
           PROVE  /\ channel'[i].number = channel[i].number
                  /\ channel'[i].counter = channel[i].counter
                  /\ channel'[i].body = "intact" => channel[i].body = "intact"
        OBVIOUS
      <4>1. CASE i = 1
        BY <3>5, <4>1
      <4>2. CASE i \in 2 .. Len(channel)
        BY <3>4, <4>2
      <4>. QED BY <3>1, <4>1, <4>2
    <3>. QED BY <3>4, <3>6
  <2>3. Carried(channel', checked, number) /\ Ordered(channel')
    BY <1>0, <2>2 DEF Carried, Ordered
  <2>4. TypeOK'
    BY <1>0, <2>1, <2>2 DEF TypeOK
  <2>. QED BY <1>0, <2>1, <2>3, <2>4 DEF IInv, Sender, Receiver, VerdictIsRight
<1>5. CASE \E again \in BOOLEAN : check(again)
  <2>1. PICK again \in BOOLEAN : check(again)
    BY <1>5
  <2>2. /\ channel # <<>> /\ Head(channel) \in Message /\ Head(channel) = channel[1]
        /\ checked <= Head(channel).number /\ Head(channel).number <= number
        /\ Head(channel).number \in 0 .. MaxNumber
        /\ Head(channel).counter \in 0 .. Modulus - 1
    <3>1. /\ channel \in Seq(Message) /\ channel # <<>> /\ Head(channel) = channel[1]
          /\ 1 \in 1 .. Len(channel) /\ Head(channel) \in Message
      BY <1>0, <2>1 DEF check, TypeOK
    <3>. QED BY <1>0, <3>1 DEF Carried, Message
  <2>3. /\ channel' = channel \/ channel' = Tail(channel)
        /\ UNCHANGED <<send_counter, number>>
    BY <2>1 DEF check
  <2>4. /\ channel' \in Seq(Message) /\ Ordered(channel')
        /\ Carried(channel', checked, number) /\ Carried(channel', Head(channel).number, number)
    BY <1>0, <2>2, <2>3, TailCarried DEF TypeOK
  <2>. DEFINE m == Head(channel)
              gap == IF checked = Fresh THEN Fresh ELSE m.number - checked
  <2>4a. gap \in -1 .. MaxNumber
    BY <1>0, <2>2, E2eAssumption DEF TypeOK, Fresh
  <2>5. CASE m.body # "intact"
    <3>0. /\ UNCHANGED <<recv_counter, checked, accepted>>
          /\ verdict' = [result |-> IF m.body = "damaged" THEN "wrong_crc" ELSE "error",
                         gap |-> gap]
      BY <2>1, <2>5 DEF check
    <3>. HIDE DEF gap, m
    <3>1. /\ UNCHANGED <<recv_counter, checked, accepted>>
          /\ verdict'.result \in {"wrong_crc", "error"}
          /\ verdict' \in [result : Results, gap : -1 .. MaxNumber]
      BY <3>0, <2>4a DEF Results
    <3>. QED BY <1>0, <2>3, <2>4, <3>1 DEF IInv, TypeOK, Sender, Receiver, VerdictIsRight
  <2>6. CASE m.body = "intact"
    <3>1. /\ verdict' = [result |-> Judge(Delta(m.counter)), gap |-> gap]
          /\ recv_counter' = m.counter
          /\ checked' = m.number
          /\ accepted' = IF verdict'.result = "ok" THEN m.number ELSE accepted
      BY <2>1, <2>6 DEF check, Remember
    <3>2. m.counter = m.number % Modulus /\ m.number \in Nat
      BY <1>0, <2>2, <2>6, E2eAssumption DEF Carried, TypeOK
    <3>3. Judge(Delta(m.counter)) \in Results
      BY DEF Judge, Results
    <3>4. TypeOK'
      BY <1>0, <2>2, <2>3, <2>4, <2>4a, <3>1, <3>3 DEF TypeOK
    <3>5. Receiver'
      BY <1>0, <2>2, <2>3, <3>1, <3>2 DEF Receiver, TypeOK, Fresh
    <3>6. VerdictIsRight'
      <4>. SUFFICES ASSUME gap \in 0 .. Modulus - 1
                    PROVE  Delta(m.counter) = gap
        BY <3>1 DEF VerdictIsRight, Judge
      <4>1. gap = m.number - checked /\ recv_counter = checked % Modulus
        BY <1>0, <3>1 DEF Receiver, Fresh
      <4>2. ((m.number % Modulus) - (checked % Modulus)) % Modulus = (m.number - checked) % Modulus
        <5>1. Modulus \in Nat /\ Modulus > 0 /\ m.number \in Int /\ checked \in Int
          BY <1>0, <3>2, E2eAssumption
        <5>. HIDE DEF m
        <5>. QED BY <5>1, Differences
      <4>3. Delta(m.counter) = gap % Modulus
        BY <3>2, <4>1, <4>2 DEF Delta
      <4>. QED BY <4>3, SmallRemainder, E2eAssumption
    <3>. QED BY <1>0, <2>2, <2>3, <2>4, <3>1, <3>4, <3>5, <3>6 DEF IInv, Sender
  <2>. QED BY <2>5, <2>6
<1>6. CASE UNCHANGED vars
  BY <1>0, <1>6 DEF vars, IInv, TypeOK, Sender, Receiver, VerdictIsRight
<1>. QED BY <1>1, <1>2, <1>3, <1>4, <1>5, <1>6 DEF Next

(* The invariant holds in every state of every behaviour.                  *)
THEOREM Invariance == Spec => []IInv
BY InitIInv, NextIInv, PTL DEF Spec

(* Every variable keeps its type: the counters stay within their widths.   *)
THEOREM TypeCorrect == Spec => []TypeOK
<1>1. IInv => TypeOK
  BY DEF IInv
<1>. QED BY <1>1, Invariance, PTL

(* check_sender's judgement tells how many messages it has missed, for     *)
(* every width of the two counters and every max_delta_counter.            *)
THEOREM VerdictsRight == Spec => []VerdictIsRight
<1>1. IInv => VerdictIsRight
  BY DEF IInv
<1>. QED BY <1>1, Invariance, PTL

(* check_sender passes on each message at most once, and in order.         *)
THEOREM PassedOnInOrder == Spec => AcceptedInOrder
<1>1. IInv =>
        [\A again \in BOOLEAN :
           check(again) /\ verdict'.result = "ok" => accepted' > accepted]_vars
  <2>. SUFFICES ASSUME IInv, NEW again \in BOOLEAN, check(again), verdict'.result = "ok"
                PROVE  accepted' > accepted
    OBVIOUS
  <2>1. /\ TypeOK /\ Receiver /\ Carried(channel, checked, number)
        /\ channel # <<>> /\ Head(channel) = channel[1] /\ Head(channel) \in Message
        /\ 1 \in 1 .. Len(channel)
    BY DEF IInv, check, TypeOK
  <2>2. Head(channel).body = "intact"
    BY <2>1 DEF check
  <2>3. PICK m \in Message :
          /\ m = Head(channel) /\ verdict'.result = Judge(Delta(m.counter))
          /\ accepted' = m.number
    BY <2>1, <2>2 DEF check
  <2>4. /\ checked <= m.number /\ m.number >= 1 /\ m.counter = m.number % Modulus
        /\ m.number \in Nat
    BY <2>1, <2>2, <2>3, E2eAssumption DEF Carried, Message
  <2>5. CASE checked = Fresh
    BY <2>1, <2>3, <2>4, <2>5 DEF Receiver
  <2>6. CASE checked # Fresh
    <3>1. accepted <= checked /\ recv_counter = checked % Modulus
      BY <2>1, <2>6 DEF Receiver
    <3>2. checked # m.number
      <4>. SUFFICES ASSUME checked = m.number PROVE FALSE
        OBVIOUS
      <4>1. Delta(m.counter) = 0
        BY <2>1, <2>4, <3>1, SmallRemainder, E2eAssumption DEF Delta, TypeOK
      <4>. QED BY <2>3, <4>1 DEF Judge
    <3>. QED BY <2>1, <2>3, <2>4, <3>1, <3>2 DEF TypeOK
  <2>. QED BY <2>5, <2>6
<1>. QED BY <1>1, Invariance, PTL DEF Spec, AcceptedInOrder
-----------------------------------------------------------------------------
(* Access control: every step of the two ends with their enforcers is one  *)
(* that the protection alone can take.                                     *)

(* Every message under way has its header, or had it.                      *)
HeadersMatch == headers \in Seq(Headers \union {None}) /\ Len(headers) = Len(channel)

EInv == IInv /\ HeadersMatch

LEMMA EnforcedInitEInv == EnforcedInit => EInv
BY InitIInv DEF EnforcedInit, EInv, HeadersMatch, Init

(* What a step of the protection does to the channel, for each step of the *)
(* pipeline.                                                               *)
LEMMA StepOfProtection ==
  ASSUME EInv, [EnforcedNext]_enforcedVars
  PROVE  [Next]_vars
<1>. USE DEF EInv, HeadersMatch
<1>1. ASSUME NEW h \in Headers, NEW body \in {"bare", "short", "intact"}, send(h, body)
      PROVE  [Next]_vars
  <2>1. CASE is_allowed("sender", h) /\ body = "bare"
    BY <1>1, <2>1, Zenon DEF send, Next
  <2>2. CASE is_allowed("sender", h) /\ body # "bare"
    <3>1. protect(body) /\ body \in {"short", "intact"}
      BY <1>1, <2>2, Zenon DEF send
    <3>. QED BY <3>1, Zenon DEF Next
  <2>3. CASE ~ is_allowed("sender", h)
    BY <1>1, <2>3, Zenon DEF send
  <2>. QED BY <2>1, <2>2, <2>3
<1>2. CASE network_loses
  BY <1>2 DEF network_loses, Next
<1>3. CASE network_corrupts
  BY <1>3 DEF network_corrupts, Next
<1>4. CASE network_cuts
  BY <1>4 DEF network_cuts
<1>5. ASSUME NEW again \in BOOLEAN, receive(again)
      PROVE  [Next]_vars
  <2>1. CASE is_allowed("receiver", Head(headers))
    BY <1>5, <2>1, Zenon DEF receive, Next
  <2>2. CASE ~ is_allowed("receiver", Head(headers))
    <3>1. discard(again)
      BY <1>5, <2>2, Zenon DEF receive
    <3>2. CASE again
      BY <3>1, <3>2 DEF discard, vars
    <3>3. CASE ~ again
      <4>1. channel # <<>>
        <5>1. headers # <<>>
          BY <1>5 DEF receive
        <5>2. channel \in Seq(Message)
          BY DEF IInv, TypeOK
        <5>. QED BY <5>1, <5>2
      <4>. QED BY <3>1, <3>3, <4>1 DEF discard, lose, Next
    <3>. QED BY <3>2, <3>3
  <2>. QED BY <2>1, <2>2
<1>6. CASE UNCHANGED enforcedVars
  BY <1>6 DEF enforcedVars
<1>. QED BY <1>1, <1>2, <1>3, <1>4, <1>5, <1>6 DEF EnforcedNext

(* Headers and messages come and go together.                              *)
LEMMA StepKeepsHeaders ==
  ASSUME EInv, [EnforcedNext]_enforcedVars
  PROVE  HeadersMatch'
<1>. USE DEF EInv, HeadersMatch
<1>0. channel \in Seq(Message)
  BY DEF IInv, TypeOK
<1>1. ASSUME NEW h \in Headers, NEW body \in {"bare", "short", "intact"}, send(h, body)
      PROVE  HeadersMatch'
  <2>1. CASE is_allowed("sender", h)
    <3>1. headers' = Append(headers, h)
      BY <1>1, <2>1, Zenon DEF send
    <3>2. PICK m : channel' = Append(channel, m)
      <4>1. CASE body = "bare"
        BY <1>1, <2>1, <4>1 DEF send, pass_bare, Send
      <4>2. CASE body # "bare"
        BY <1>1, <2>1, <4>2 DEF send, protect, Send
      <4>. QED BY <4>1, <4>2
    <3>. QED BY <1>0, <3>1, <3>2
  <2>2. CASE ~ is_allowed("sender", h)
    BY <1>1, <2>2 DEF send, vars
  <2>. QED BY <2>1, <2>2
<1>2. CASE network_loses
  BY <1>0, <1>2 DEF network_loses, lose
<1>3. CASE network_corrupts
  BY <1>0, <1>3 DEF network_corrupts, corrupt, accessVars
<1>4. CASE network_cuts
  BY <1>0, <1>4 DEF network_cuts, vars
<1>5. ASSUME NEW again \in BOOLEAN, receive(again)
      PROVE  HeadersMatch'
  <2>1. /\ headers # <<>>
        /\ headers' = IF again THEN headers ELSE Tail(headers)
    BY <1>5 DEF receive
  <2>2. channel' = IF again THEN channel ELSE Tail(channel)
    <3>1. CASE is_allowed("receiver", Head(headers))
      BY <1>5, <3>1 DEF receive, check
    <3>2. CASE ~ is_allowed("receiver", Head(headers))
      BY <1>5, <3>2 DEF receive, discard
    <3>. QED BY <3>1, <3>2
  <2>. QED BY <1>0, <2>1, <2>2
<1>6. CASE UNCHANGED enforcedVars
  BY <1>6 DEF enforcedVars, accessVars, vars
<1>. QED BY <1>1, <1>2, <1>3, <1>4, <1>5, <1>6 DEF EnforcedNext

LEMMA NextEInv == EInv /\ [EnforcedNext]_enforcedVars => EInv'
<1>. SUFFICES ASSUME EInv, [EnforcedNext]_enforcedVars PROVE EInv'
  OBVIOUS
<1>1. IInv'
  BY StepOfProtection, NextIInv DEF EInv
<1>2. HeadersMatch'
  BY StepKeepsHeaders
<1>. QED BY <1>1, <1>2 DEF EInv

(* The inductive invariant of the pipeline: that of the protection, and    *)
(* one header, or none, beside each message under way.                     *)
THEOREM EnforcedInvariance == EnforcedSpec => []EInv
BY EnforcedInitEInv, NextEInv, PTL DEF EnforcedSpec

(* What the policies deny is to the protection as if it had been lost: the *)
(* pipeline with both enforcers implements the protection without them.    *)
THEOREM DenialIsLoss == EnforcedSpec => DeniedIsLost
<1>1. EInv /\ [EnforcedNext]_enforcedVars => [Next]_vars
  BY StepOfProtection
<1>2. EnforcedInit => Init
  BY DEF EnforcedInit
<1>. QED BY <1>1, <1>2, EnforcedInvariance, PTL DEF EnforcedSpec, DeniedIsLost, Spec

(* So the verdicts on the messages that are allowed are right: each counts *)
(* the lost, the damaged and the denied ones before it.                    *)
THEOREM VerdictsRightIfEnforced == EnforcedSpec => []VerdictIsRight
BY DenialIsLoss, VerdictsRight, PTL DEF DeniedIsLost

(* And none is passed on twice or after a later one.                       *)
THEOREM PassedOnInOrderIfEnforced == EnforcedSpec => AcceptedInOrder
BY DenialIsLoss, PassedOnInOrder, PTL DEF DeniedIsLost
-----------------------------------------------------------------------------
(* The loop of policy::evaluate ends at the first rule that matches.       *)
LEMMA EvaluateDecides ==
  ASSUME NEW n \in Nat, NEW p, DOMAIN p = 1 .. n, NEW h
  PROVE  evaluate(p, h) = "allow" <=> Decided(p, h)
<1>. DEFINE D == SUBSET (1 .. n)
            V == {p[i].act : i \in 1 .. n} \union {"deny"}
            step == [k \in 1 .. n |-> [v \in V |-> IF Matches(p[k], h) THEN p[k].act ELSE v]]
            pick == [s \in D |-> IF s = {} THEN 0 ELSE Min(s)]
            R(f) == f = [s \in SUBSET DOMAIN p |->
                           IF s = {} THEN "deny"
                           ELSE IF Matches(p[Min(s)], h) THEN p[Min(s)].act
                                                         ELSE f[s \ {Min(s)}]]
            c == CHOOSE f : R(f)
<1>1. \A s \in D : s # {} => Min(s) \in s /\ Min(s) \in 1 .. n
  BY MinOf
<1>2. "deny" \in V /\ \A k \in 1 .. n : p[k].act \in V
  OBVIOUS
<1>. HIDE DEF V
<1>3. step \in [1 .. n -> [V -> V]]
  BY <1>2
<1>4. \E f : R(f)
  <2>1. Picks(pick, n) /\ FoldSteps(n, V, "deny", step)
    <3>1. \A s \in D : (IF s = {} THEN 0 ELSE Min(s)) \in Nat
      BY <1>1
    <3>2. pick \in [D -> Nat] /\ \A s \in D : s # {} => pick[s] \in s
      BY <1>1, <3>1
    <3>. QED BY <1>2, <1>3, <3>2 DEF Picks, FoldSteps
  <2>. HIDE DEF step, pick
  <2>2. PICK f : FoldsAs(f, n, V, "deny", step, pick)
    BY <2>1, Folding
  <2>. USE DEF FoldsAs
  <2>3. ASSUME NEW s \in D
        PROVE  f[s] = IF s = {} THEN "deny"
                      ELSE IF Matches(p[Min(s)], h) THEN p[Min(s)].act ELSE f[s \ {Min(s)}]
    <3>1. s # {} => pick[s] = Min(s) /\ f[s \ {Min(s)}] \in V
      BY <2>2 DEF pick
    <3>2. s # {} => step[Min(s)][f[s \ {Min(s)}]]
                      = IF Matches(p[Min(s)], h) THEN p[Min(s)].act ELSE f[s \ {Min(s)}]
      BY <1>1, <3>1 DEF step
    <3>. QED BY <2>2, <3>1, <3>2
  <2>4. f = [s \in D |-> f[s]]
    BY <2>2
  <2>. QED BY <2>3, <2>4
<1>5. R(c)
  <2>. HIDE DEF R
  <2>. QED BY <1>4
<1>6. evaluate(p, h) = c[1 .. n]
  BY DEF evaluate, FoldRight, MapThenFoldSet
<1>. HIDE DEF c
<1>7. /\ c[{}] = "deny"
      /\ \A s \in D : s # {} =>
           c[s] = IF Matches(p[Min(s)], h) THEN p[Min(s)].act ELSE c[s \ {Min(s)}]
  BY <1>5
<1>8. \A s \in SUBSET (1 .. n) : s # {} /\ c[s \ {Min(s)}] \in V =>
         c[s] = step[Min(s)][c[s \ {Min(s)}]]
  BY <1>1, <1>7
<1>9. FoldSteps(n, V, "deny", step) /\ FoldsDown(c, n, V, "deny", step)
  <2>. HIDE DEF step
  <2>. QED BY <1>2, <1>3, <1>7, <1>8 DEF FoldSteps, FoldsDown
<1>. HIDE DEF step
<1>10. PICK g : AfterDown(g, n, V, "deny", step) /\ c[1 .. n] = g[1]
  BY <1>9, FoldDown
<1>11. g[n + 1] = "deny"
       /\ \A k \in 1 .. n : g[k] = IF Matches(p[k], h) THEN p[k].act ELSE g[k + 1]
  <2>1. \A k \in 1 .. n : k + 1 \in 1 .. n + 1 /\ g[k] = step[k][g[k + 1]]
    BY <1>10 DEF AfterDown
  <2>2. \A k \in 1 .. n : g[k + 1] \in V
    BY <1>10, <2>1 DEF AfterDown
  <2>. QED BY <1>10, <2>1, <2>2 DEF AfterDown, step
<1>. DEFINE First(k) == \E i \in k .. n : /\ Matches(p[i], h) /\ p[i].act = "allow"
                                          /\ \A j \in k .. i - 1 : ~ Matches(p[j], h)
            Good(k) == g[k] = "allow" <=> First(k)
            S == {d \in Nat : d <= n => Good(n + 1 - d)}
<1>12. 0 \in S
  <2>1. n + 1 - 0 = n + 1 /\ n + 1 .. n = {}
    OBVIOUS
  <2>. QED BY <1>11, <2>1
<1>13. ASSUME NEW d \in Nat, d \in S PROVE d + 1 \in S
  <2>. SUFFICES ASSUME d + 1 <= n PROVE Good(n + 1 - (d + 1))
    OBVIOUS
  <2>1. PICK k \in 1 .. n : k = n + 1 - (d + 1) /\ k + 1 = n + 1 - d
    OBVIOUS
  <2>2. g[k + 1] = "allow" <=> First(k + 1)
    BY <1>13, <2>1
  <2>3. CASE Matches(p[k], h)
    <3>1. g[k] = p[k].act
      BY <1>11, <2>3
    <3>2. First(k) <=> p[k].act = "allow"
      <4>1. p[k].act = "allow" => First(k)
        <5>1. k \in k .. n /\ k .. k - 1 = {}
          OBVIOUS
        <5>. QED BY <2>3, <5>1
      <4>2. ASSUME NEW i \in k .. n, Matches(p[i], h), p[i].act = "allow",
                   \A j \in k .. i - 1 : ~ Matches(p[j], h)
            PROVE  p[k].act = "allow"
        <5>1. i # k => k \in k .. i - 1
          OBVIOUS
        <5>. QED BY <2>3, <4>2, <5>1
      <4>. QED BY <4>1, <4>2
    <3>. HIDE DEF First
    <3>. QED BY <2>1, <3>1, <3>2
  <2>4. CASE ~ Matches(p[k], h)
    <3>1. g[k] = g[k + 1]
      BY <1>11, <2>4
    <3>2. First(k) => First(k + 1)
      <4>. SUFFICES ASSUME NEW i \in k .. n, Matches(p[i], h), p[i].act = "allow",
                           \A j \in k .. i - 1 : ~ Matches(p[j], h)
                    PROVE  First(k + 1)
        OBVIOUS
      <4>1. i \in k + 1 .. n
        BY <2>4
      <4>2. \A j \in (k + 1) .. i - 1 : j \in k .. i - 1
        OBVIOUS
      <4>. QED BY <4>1, <4>2
    <3>3. First(k + 1) => First(k)
      <4>. SUFFICES ASSUME NEW i \in (k + 1) .. n, Matches(p[i], h), p[i].act = "allow",
                           \A j \in (k + 1) .. i - 1 : ~ Matches(p[j], h)
                    PROVE  First(k)
        OBVIOUS
      <4>1. i \in k .. n
        OBVIOUS
      <4>2. \A j \in k .. i - 1 : j = k \/ j \in (k + 1) .. i - 1
        OBVIOUS
      <4>. QED BY <2>4, <4>1, <4>2
    <3>. HIDE DEF First
    <3>. QED BY <2>1, <2>2, <3>1, <3>2, <3>3
  <2>. QED BY <2>3, <2>4
<1>14. \A d \in Nat : d \in S
  <2>. HIDE DEF S
  <2>. QED BY <1>12, <1>13, Induction
<1>15. g[1] = "allow" <=> First(1)
  <2>1. n \in S
    <3>. HIDE DEF S
    <3>. QED BY <1>14
  <2>2. n + 1 - n = 1 /\ n <= n
    OBVIOUS
  <2>3. Good(n + 1 - n)
    BY <2>1, <2>2
  <2>. QED BY <2>2, <2>3
<1>. QED BY <1>6, <1>10, <1>15 DEF Decided

(* The policies are those of the ends, and what is under way was allowed   *)
(* by the sender's.                                                        *)
Allowed(p, h) == h # None => evaluate(p, h) = "allow"
AInv ==
  /\ headers \in Seq(Headers \union {None})
  /\ \A end \in Ends : policies[end] \in Policies[end]
  /\ \A i \in 1 .. Len(headers) : Allowed(policies["sender"], headers[i])

LEMMA AllowedDecides ==
  ASSUME AInv, NEW end \in Ends, NEW h
  PROVE  evaluate(policies[end], h) = "allow" <=> Decided(policies[end], h)
<1>1. Len(policies[end]) \in Nat /\ DOMAIN policies[end] = 1 .. Len(policies[end])
  BY EnforcedAssumption DEF AInv
<1>. QED BY <1>1, EvaluateDecides

LEMMA EnforcedInitAInv == EnforcedInit => AInv
BY DEF EnforcedInit, AInv

LEMMA NextAInv ==
  ASSUME AInv, [EnforcedNext]_enforcedVars
  PROVE  AInv'
<1>. USE DEF AInv
<1>1. ASSUME NEW h \in Headers, NEW body \in {"bare", "short", "intact"}, send(h, body)
      PROVE  AInv'
  <2>0. policies' = policies
    BY <1>1 DEF send
  <2>1. CASE is_allowed("sender", h)
    <3>1. headers' = Append(headers, h)
      BY <1>1, <2>1, Zenon DEF send
    <3>2. evaluate(policies["sender"], h) = "allow"
      BY <2>1 DEF is_allowed
    <3>3. /\ Append(headers, h) \in Seq(Headers \union {None})
          /\ Len(Append(headers, h)) = Len(headers) + 1 /\ Len(headers) \in Nat
          /\ \A i \in 1 .. Len(headers) : Append(headers, h)[i] = headers[i]
          /\ Append(headers, h)[Len(headers) + 1] = h
      OBVIOUS
    <3>4. \A i \in 1 .. Len(headers) + 1 : i \in 1 .. Len(headers) \/ i = Len(headers) + 1
      BY <3>3
    <3>5. \A i \in 1 .. Len(headers) + 1 : Allowed(policies["sender"], Append(headers, h)[i])
      BY <3>2, <3>3, <3>4 DEF Allowed
    <3>6. \A i \in 1 .. Len(headers') : Allowed(policies'["sender"], headers'[i])
      BY <2>0, <3>1, <3>3, <3>5 DEF Allowed
    <3>. QED BY <2>0, <3>1, <3>3, <3>6
  <2>2. CASE ~ is_allowed("sender", h)
    <3>1. headers' = headers
      BY <1>1, <2>2 DEF send
    <3>. QED BY <2>0, <3>1 DEF Allowed
  <2>. QED BY <2>1, <2>2
<1>2. ASSUME headers # <<>>, headers' = Tail(headers), policies' = policies
      PROVE  AInv'
  <2>1. /\ Tail(headers) \in Seq(Headers \union {None})
        /\ Len(Tail(headers)) = Len(headers) - 1 /\ Len(headers) \in Nat
        /\ \A i \in 1 .. Len(headers) - 1 :
             Tail(headers)[i] = headers[i + 1] /\ i + 1 \in 1 .. Len(headers)
    BY <1>2
  <2>2. \A i \in 1 .. Len(headers) - 1 : Allowed(policies["sender"], Tail(headers)[i])
    BY <2>1
  <2>. QED BY <1>2, <2>1, <2>2 DEF Allowed
<1>3. ASSUME headers' = headers, policies' = policies
      PROVE  AInv'
  BY <1>3 DEF Allowed
<1>4. CASE network_cuts
  <2>1. headers # <<>> /\ headers' = [headers EXCEPT ![1] = None] /\ policies' = policies
    BY <1>4 DEF network_cuts
  <2>2. headers' \in Seq(Headers \union {None}) /\ Len(headers') = Len(headers)
        /\ \A i \in 1 .. Len(headers) : headers'[i] = None \/ headers'[i] = headers[i]
    BY <2>1
  <2>3. \A i \in 1 .. Len(headers') : Allowed(policies["sender"], headers'[i])
    BY <2>2 DEF Allowed
  <2>. QED BY <2>1, <2>2, <2>3 DEF Allowed
<1>. HIDE DEF AInv
<1>5. CASE network_loses
  <2>1. headers' = Tail(headers) /\ policies' = policies
    BY <1>5 DEF network_loses
  <2>2. CASE headers = <<>>
    <3>1. Tail(<<>>) = <<>>
      OBVIOUS
    <3>. QED BY <1>3, <2>1, <2>2, <3>1
  <2>. QED BY <1>2, <2>1, <2>2
<1>6. CASE network_corrupts
  BY <1>3, <1>6 DEF network_corrupts, accessVars
<1>7. ASSUME NEW again \in BOOLEAN, receive(again) PROVE AInv'
  <2>1. /\ headers # <<>> /\ policies' = policies
        /\ headers' = IF again THEN headers ELSE Tail(headers)
    BY <1>7 DEF receive
  <2>. QED BY <1>2, <1>3, <2>1
<1>8. CASE UNCHANGED enforcedVars
  BY <1>3, <1>8 DEF enforcedVars, accessVars
<1>. QED BY <1>1, <1>4, <1>5, <1>6, <1>7, <1>8 DEF EnforcedNext

(* A step of a sender or of a receiver: what its enforcer concluded.       *)
LEMMA EnforceSays ==
  ASSUME AInv, NEW end \in Ends, NEW h, Enforce(end, h)
  PROVE  outcome'.error # None =>
           outcome'.header = None \/ ~ Decided(policies[outcome'.at], outcome'.header)
<1>1. outcome'.at = end /\ outcome'.header = h
  BY DEF Enforce
<1>2. outcome'.error # None => ~ is_allowed(end, h)
  <2>. SUFFICES ASSUME is_allowed(end, h) PROVE outcome'.error = None
    OBVIOUS
  <2>1. outcome'.error = CASE is_allowed(end, h) -> None
                           [] h = None -> security_error(0, 0, 0)
                           [] OTHER -> security_error(h.client, h.service, h.method)
    BY DEF Enforce
  <2>2. h # None
    BY DEF is_allowed
  <2>. HIDE DEF is_allowed
  <2>. QED BY <2>1, <2>2
<1>3. ~ is_allowed(end, h) => h = None \/ evaluate(policies[end], h) # "allow"
  BY DEF is_allowed
<1>. QED BY <1>1, <1>2, <1>3, AllowedDecides

(* What is judged by check_sender was allowed by the policies of both      *)
(* ends, for any rules in any order, and what an enforcer refuses, its     *)
(* policy denies.                                                          *)
THEOREM NoneJudgedUnlessAllowed == EnforcedSpec => AllowedAtBothEnds
<1>. DEFINE JudgedIsAllowed == Judged' # Judged =>
               /\ Head(headers) # None
               /\ \A end \in Ends : Decided(policies[end], Head(headers))
            RefusedIsDenied == outcome' # outcome /\ outcome'.error # None =>
               outcome'.header = None \/ ~ Decided(policies[outcome'.at], outcome'.header)
<1>1. AInv /\ [EnforcedNext]_enforcedVars => [JudgedIsAllowed /\ RefusedIsDenied]_enforcedVars
  <2>. SUFFICES ASSUME AInv, EnforcedNext PROVE JudgedIsAllowed /\ RefusedIsDenied
    OBVIOUS
  <2>1. ASSUME NEW h \in Headers, NEW body \in {"bare", "short", "intact"}, send(h, body)
        PROVE  JudgedIsAllowed /\ RefusedIsDenied
    <3>1. Judged' = Judged
      BY <2>1 DEF send, pass_bare, protect, Judged, vars
    <3>2. Enforce("sender", h) /\ "sender" \in Ends
      BY <2>1 DEF send, Ends
    <3>. QED BY <3>1, <3>2, EnforceSays
  <2>2. CASE network_loses
    BY <2>2 DEF network_loses, lose, Judged
  <2>3. CASE network_corrupts
    BY <2>3 DEF network_corrupts, corrupt, accessVars, Judged
  <2>4. CASE network_cuts
    BY <2>4 DEF network_cuts, vars, Judged
  <2>5. ASSUME NEW again \in BOOLEAN, receive(again)
        PROVE  JudgedIsAllowed /\ RefusedIsDenied
    <3>. DEFINE h == Head(headers)
    <3>1. Enforce("receiver", h) /\ headers # <<>> /\ "receiver" \in Ends
      BY <2>5 DEF receive, Ends
    <3>2. CASE ~ is_allowed("receiver", h)
      <4>1. Judged' = Judged
        BY <2>5, <3>2, Zenon DEF receive, discard, Judged
      <4>. QED BY <3>1, <4>1, EnforceSays
    <3>3. CASE is_allowed("receiver", h)
      <4>1. h # None /\ evaluate(policies["receiver"], h) = "allow"
        BY <3>3 DEF is_allowed
      <4>2. evaluate(policies["sender"], h) = "allow"
        <5>1. 1 \in 1 .. Len(headers) /\ h = headers[1]
          BY <3>1 DEF AInv
        <5>. QED BY <4>1, <5>1 DEF AInv, Allowed
      <4>3. \A end \in Ends : Decided(policies[end], h)
        BY <4>1, <4>2, AllowedDecides DEF Ends
      <4>. QED BY <3>1, <4>1, <4>3, EnforceSays
    <3>. QED BY <3>2, <3>3
  <2>. QED BY <2>1, <2>2, <2>3, <2>4, <2>5 DEF EnforcedNext
<1>2. AInv /\ [EnforcedNext]_enforcedVars => AInv'
  BY NextAInv
<1>. QED BY <1>1, <1>2, EnforcedInitAInv, PTL DEF EnforcedSpec, AllowedAtBothEnds
=============================================================================
