--------------------------- MODULE OfferingProofs ---------------------------
(***************************************************************************)
(* What the offers of an application promise for any configuration that    *)
(* keeps an announcement alive: a listener hears of an offer again before  *)
(* its time to live is over, and what it wrongly believes in it believes   *)
(* because a StopOffer was lost.                                           *)
(***************************************************************************)
EXTENDS Offering, DataLemmas, SequenceTheorems, TLAPS

OfferState == [service : Services, phase : {"initial_wait", "repetition", "main"}, count : Nat,
               wait : Nat, heard : Nat \union {Never}, lost : 0 .. MaxLost]

TypeOK ==
  /\ offers \in Seq(OfferState)
  /\ idle \in 0 .. Latency
  /\ services \in [Services -> Target]

(* The waits between two announcements of one offer, and the part of the   *)
(* time to live that there is for each when MaxLost of them are lost.      *)
Delays == {BaseDelay, CyclicDelay} \union {Backoff(n) : n \in 2 .. RepetitionMax - 1}
Share  == OfferTtl \div (MaxLost + 1)

(* How long it takes at most until tick announces the offer, where the     *)
(* last tick was so long ago.                                              *)
Deadline(o, since) == IF o.wait = 0 THEN Latency - since ELSE o.wait + Latency
Timely(o, since) ==
  o.heard # Never => o.heard + Deadline(o, since) <= (o.lost + 1) * Share

(* The repetition phase counts from one.                                   *)
Counts(o) == o.phase = "repetition" => o.count >= 1

OnTime == \A i \in 1 .. Len(offers) : Timely(offers[i], idle) /\ Counts(offers[i])

IInv ==
  /\ TypeOK
  /\ OnTime
  /\ GhostsAreLost
  /\ LocalIsOffered
-----------------------------------------------------------------------------
LEMMA Fits ==
  /\ Share \in Nat
  /\ \A d \in Delays : d \in Nat /\ d + Latency <= Share
  /\ \A n \in 0 .. MaxLost : (n + 1) * Share \in Nat /\ (n + 1) * Share <= OfferTtl
<1>. DEFINE M == MaxLost + 1
<1>1. M \in Nat /\ M > 0 /\ OfferTtl \in Nat /\ Latency \in Nat /\ MaxLost \in Nat
  BY DiscoveryAssumption
<1>2. PICK r \in 0 .. M - 1 : Share \in Int /\ OfferTtl = M * Share + r
  <2>1. \A N \in Nat : N > 0 => /\ OfferTtl % N \in 0 .. N - 1 /\ OfferTtl \div N \in Int
                                /\ OfferTtl = N * (OfferTtl \div N) + (OfferTtl % N)
    BY <1>1, Division
  <2>. QED BY <1>1, <2>1 DEF Share
<1>. HIDE DEF M
<1>3. Share \in Nat
  <2>1. CASE Share < 0
    <3>1. M * Share <= - M
      <4>1. M * (- Share) >= M
        BY <1>1, <1>2, <2>1, Multiple
      <4>. QED BY <1>1, <1>2, <4>1
    <3>. QED BY <1>1, <1>2, <3>1
  <2>. QED BY <1>2, <2>1
<1>4. ASSUME NEW d \in Delays
      PROVE  d \in Nat /\ d + Latency <= Share
  <2>1. d \in Nat /\ M * (d + Latency) <= OfferTtl
    BY DiscoveryAssumption DEF Delays, M
  <2>2. CASE d + Latency >= Share + 1
    <3>1. M * (d + Latency - Share) >= M
      BY <1>1, <1>2, <2>1, <2>2, Multiple
    <3>2. M * (d + Latency - Share) = M * (d + Latency) - M * Share
      BY <1>1, <1>2, <2>1
    <3>3. M * (d + Latency) \in Int /\ M * Share \in Int
      BY <1>1, <1>2, <2>1
    <3>. QED BY <1>1, <1>2, <2>1, <3>1, <3>2, <3>3
  <2>. QED BY <1>1, <1>3, <2>1, <2>2
<1>5. ASSUME NEW n \in 0 .. MaxLost
      PROVE  (n + 1) * Share \in Nat /\ (n + 1) * Share <= OfferTtl
  <2>1. (M - (n + 1)) * Share \in Nat /\ (n + 1) * Share \in Nat
    BY <1>1, <1>3 DEF M
  <2>2. M * Share = (n + 1) * Share + (M - (n + 1)) * Share
    BY <1>1, <1>3
  <2>. QED BY <1>1, <1>2, <2>1, <2>2
<1>. QED BY <1>3, <1>4, <1>5

(* A change of phase sets the wait to one of the delays.                   *)
LEMMA Advances ==
  ASSUME NEW o \in OfferState, Counts(o)
  PROVE  /\ advance_phase(o) \in OfferState
         /\ advance_phase(o).wait \in Delays
         /\ advance_phase(o).service = o.service
         /\ advance_phase(o).heard = o.heard
         /\ advance_phase(o).lost = o.lost
         /\ Counts(advance_phase(o))
<1>1. /\ BaseDelay \in Nat /\ CyclicDelay \in Nat /\ RepetitionMax \in Nat
      /\ \A n \in 1 .. RepetitionMax : Backoff(n) \in Nat
  BY DiscoveryAssumption
<1>2. o.count \in Nat /\ o.phase \in {"initial_wait", "repetition", "main"}
  BY DEF OfferState
<1>3. CASE o.phase = "initial_wait"
  <2>1. advance_phase(o) = [o EXCEPT !.phase = "repetition", !.count = 1, !.wait = BaseDelay]
    BY <1>3 DEF advance_phase
  <2>2. advance_phase(o) = [service |-> o.service, phase |-> "repetition", count |-> 1,
                            wait |-> BaseDelay, heard |-> o.heard, lost |-> o.lost]
    BY <2>1 DEF OfferState
  <2>. QED BY <1>1, <2>2 DEF OfferState, Delays, Counts
<1>4. CASE o.phase = "repetition" /\ o.count + 1 >= RepetitionMax
  <2>1. advance_phase(o) = [o EXCEPT !.phase = "main", !.count = @ + 1, !.wait = CyclicDelay]
    BY <1>1, <1>2, <1>4 DEF advance_phase
  <2>2. advance_phase(o) = [service |-> o.service, phase |-> "main", count |-> o.count + 1,
                            wait |-> CyclicDelay, heard |-> o.heard, lost |-> o.lost]
    BY <2>1 DEF OfferState
  <2>. QED BY <1>1, <1>2, <2>2 DEF OfferState, Delays, Counts
<1>5. CASE o.phase = "repetition" /\ o.count + 1 < RepetitionMax
  <2>1. advance_phase(o) = [o EXCEPT !.count = @ + 1, !.wait = Backoff(o.count + 1)]
    BY <1>1, <1>2, <1>5 DEF advance_phase
  <2>2. o.count + 1 \in 2 .. RepetitionMax - 1 /\ o.count + 1 \in 1 .. RepetitionMax
    BY <1>1, <1>2, <1>5 DEF Counts
  <2>3. Backoff(o.count + 1) \in Delays /\ Backoff(o.count + 1) \in Nat
    BY <1>1, <2>2 DEF Delays
  <2>4. advance_phase(o) = [service |-> o.service, phase |-> "repetition", count |-> o.count + 1,
                            wait |-> Backoff(o.count + 1), heard |-> o.heard, lost |-> o.lost]
    BY <1>5, <2>1 DEF OfferState
  <2>. QED BY <1>2, <1>5, <2>3, <2>4 DEF OfferState, Counts
<1>6. CASE o.phase = "main"
  <2>1. advance_phase(o) = [o EXCEPT !.wait = CyclicDelay]
    BY <1>6 DEF advance_phase
  <2>. QED BY <1>1, <1>6, <2>1 DEF OfferState, Delays, Counts
<1>. QED BY <1>1, <1>2, <1>3, <1>4, <1>5, <1>6

(* What tick makes of an offer: if it is due, its announcement comes in    *)
(* its share of the time, and the share of the next one begins.            *)
LEMMA Announces ==
  ASSUME NEW o \in OfferState, Counts(o), NEW since \in 0 .. Latency, Timely(o, since),
         NEW lost \in BOOLEAN, lost /\ Due(o) => o.lost < MaxLost
  PROVE  /\ Announce(o, lost) \in OfferState
         /\ Announce(o, lost).service = o.service
         /\ Counts(Announce(o, lost))
         /\ Timely(Announce(o, lost), 0)
<1>1. /\ Latency \in Nat /\ MaxLost \in Nat /\ Never \notin Nat /\ Share \in Nat
      /\ \A d \in Delays : d \in Nat /\ d + Latency <= Share
  BY DiscoveryAssumption, Fits
<1>2. o.wait \in Nat /\ o.heard \in Nat \union {Never} /\ o.lost \in 0 .. MaxLost
  BY DEF OfferState
<1>3. CASE o.wait # 0
  <2>1. Announce(o, lost) = o
    BY <1>3 DEF Announce, Due
  <2>2. Timely(o, 0)
    BY <1>3 DEF Timely, Deadline
  <2>. QED BY <2>1, <2>2
<1>4. CASE o.wait = 0 /\ lost
  <2>1. PICK p \in OfferState :
          /\ p = advance_phase(o) /\ p.wait \in Delays /\ p.service = o.service /\ Counts(p)
          /\ p.heard = o.heard /\ p.lost = o.lost
    BY Advances
  <2>2. PICK q \in OfferState :
          /\ q = Announce(o, lost)
          /\ q.wait = p.wait /\ q.service = o.service /\ q.heard = o.heard
          /\ q.lost = o.lost + 1 /\ q.phase = p.phase /\ q.count = p.count
    <3>1. Announce(o, lost) = [p EXCEPT !.heard = o.heard, !.lost = o.lost + 1]
      BY <1>4, <2>1 DEF Announce, Due
    <3>2. o.lost + 1 \in 0 .. MaxLost
      BY <1>1, <1>2, <1>4 DEF Due
    <3>3. PICK q : q = Announce(o, lost) /\ q = [p EXCEPT !.heard = o.heard, !.lost = o.lost + 1]
      BY <3>1
    <3>4. /\ q \in OfferState
          /\ q.service = p.service /\ q.phase = p.phase /\ q.count = p.count /\ q.wait = p.wait
          /\ q.heard = o.heard /\ q.lost = o.lost + 1
      BY <1>2, <2>1, <3>2, <3>3 DEF OfferState
    <3>. QED BY <2>1, <3>3, <3>4
  <2>3. Counts(q)
    BY <2>1, <2>2 DEF Counts
  <2>4. Timely(q, 0)
    <3>. SUFFICES ASSUME q.heard # Never
                  PROVE  q.heard + Deadline(q, 0) <= (q.lost + 1) * Share
      BY DEF Timely
    <3>1. o.heard \in Nat /\ o.heard + (Latency - since) <= (o.lost + 1) * Share
      BY <1>2, <1>4, <2>2 DEF Timely, Deadline
    <3>2. o.heard <= (o.lost + 1) * Share
      <4>1. (o.lost + 1) * Share \in Nat
        BY <1>1, <1>2
      <4>. QED BY <1>1, <3>1, <4>1
    <3>3. Deadline(q, 0) \in Nat /\ Deadline(q, 0) <= Share
      BY <1>1, <2>1, <2>2 DEF Deadline
    <3>4. (q.lost + 1) * Share = (o.lost + 1) * Share + Share
      BY <1>1, <1>2, <2>2
    <3>5. (o.lost + 1) * Share \in Nat
      BY <1>1, <1>2
    <3>. QED BY <1>1, <2>2, <3>1, <3>2, <3>3, <3>4, <3>5
  <2>. QED BY <2>2, <2>3, <2>4
<1>5. CASE o.wait = 0 /\ ~ lost
  <2>1. PICK p \in OfferState :
          /\ p = advance_phase(o) /\ p.wait \in Delays /\ p.service = o.service /\ Counts(p)
    BY Advances
  <2>2. PICK q \in OfferState :
          /\ q = Announce(o, lost)
          /\ q.wait = p.wait /\ q.service = o.service /\ q.heard = 0
          /\ q.lost = 0 /\ q.phase = p.phase /\ q.count = p.count
    <3>1. Announce(o, lost) = [p EXCEPT !.heard = 0, !.lost = 0]
      BY <1>5, <2>1 DEF Announce, Due
    <3>2. PICK q : q = Announce(o, lost) /\ q = [p EXCEPT !.heard = 0, !.lost = 0]
      BY <3>1
    <3>3. /\ q \in OfferState
          /\ q.service = p.service /\ q.phase = p.phase /\ q.count = p.count /\ q.wait = p.wait
          /\ q.heard = 0 /\ q.lost = 0
      <4>1. 0 \in Nat \union {Never} /\ 0 \in 0 .. MaxLost
        BY <1>1
      <4>. QED BY <2>1, <3>2, <4>1 DEF OfferState
    <3>. QED BY <2>1, <3>2, <3>3
  <2>3. Counts(q)
    BY <2>1, <2>2 DEF Counts
  <2>4. Deadline(q, 0) \in Nat /\ Deadline(q, 0) <= Share
    BY <1>1, <2>1, <2>2 DEF Deadline
  <2>5. Timely(q, 0)
    BY <1>1, <2>2, <2>4 DEF Timely
  <2>. QED BY <2>2, <2>3, <2>5
<1>. QED BY <1>3, <1>4, <1>5

(* What Elapse makes of an offer.                                          *)
Aged(o) == [o EXCEPT !.wait = Countdown(@), !.heard = Age(@)]

LEMMA Ages ==
  ASSUME NEW o \in OfferState, Counts(o), NEW since \in 0 .. Latency - 1, Timely(o, since)
  PROVE  /\ Aged(o) \in OfferState
         /\ Aged(o).service = o.service
         /\ Counts(Aged(o))
         /\ Timely(Aged(o), since + 1)
<1>1. Latency \in Nat /\ MaxLost \in Nat /\ Never \notin Nat /\ Share \in Nat /\ OfferTtl \in Nat
  BY DiscoveryAssumption, Fits
<1>2. o.wait \in Nat /\ o.heard \in Nat \union {Never} /\ o.lost \in 0 .. MaxLost
  BY DEF OfferState
<1>3. Countdown(o.wait) \in Nat /\ Age(o.heard) \in Nat \union {Never}
  BY <1>1, <1>2 DEF Countdown, Age
<1>4. PICK q \in OfferState :
        /\ q = Aged(o)
        /\ q.service = o.service /\ q.phase = o.phase /\ q.count = o.count /\ q.lost = o.lost
        /\ q.wait = Countdown(o.wait) /\ q.heard = Age(o.heard)
  <2>1. PICK q : q = Aged(o) /\ q = [o EXCEPT !.wait = Countdown(@), !.heard = Age(@)]
    BY DEF Aged
  <2>2. /\ q.service = o.service /\ q.phase = o.phase /\ q.count = o.count /\ q.lost = o.lost
        /\ q.wait = Countdown(o.wait) /\ q.heard = Age(o.heard)
    BY <2>1 DEF OfferState
  <2>3. q \in OfferState
    BY <1>3, <2>1 DEF OfferState
  <2>. QED BY <2>1, <2>2, <2>3
<1>5. Counts(q)
  BY <1>4 DEF Counts
<1>6. Timely(q, since + 1)
  <2>. SUFFICES ASSUME q.heard # Never
                PROVE  q.heard + Deadline(q, since + 1) <= (o.lost + 1) * Share
    BY <1>4 DEF Timely
  <2>1. o.heard \in Nat /\ q.heard \in Nat /\ q.heard <= o.heard + 1
    BY <1>1, <1>2, <1>4 DEF Age
  <2>2. o.heard + Deadline(o, since) <= (o.lost + 1) * Share
    BY <1>1, <2>1 DEF Timely
  <2>3. /\ Deadline(o, since) \in Nat /\ Deadline(q, since + 1) \in Nat
        /\ Deadline(q, since + 1) + 1 <= Deadline(o, since)
    BY <1>1, <1>2, <1>4 DEF Deadline, Countdown
  <2>4. (o.lost + 1) * Share \in Nat
    BY <1>1, <1>2
  <2>. QED BY <2>1, <2>2, <2>3, <2>4
<1>. QED BY <1>4, <1>5, <1>6

(* The removal of one offer from the list.                                 *)
LEMMA Removes ==
  ASSUME NEW S, NEW q \in Seq(S), NEW i \in 1 .. Len(q)
  PROVE  /\ Without(q, i) \in Seq(S)
         /\ \A j \in 1 .. Len(Without(q, i)) : \E l \in 1 .. Len(q) : Without(q, i)[j] = q[l]
         /\ \A l \in 1 .. Len(q) \ {i} : \E j \in 1 .. Len(Without(q, i)) : Without(q, i)[j] = q[l]
<1>. DEFINE n == Len(q)
            a == SubSeq(q, 1, i - 1)
            b == SubSeq(q, i + 1, n)
            r == a \o b
<1>1. n \in Nat /\ \A l \in 1 .. n : q[l] \in S
  OBVIOUS
<1>2. /\ a \in Seq(S) /\ Len(a) = i - 1
      /\ \A l \in 1 .. i - 1 : a[l] = q[l]
  <2>1. \A l \in 1 .. i - 1 : q[l] \in S
    BY <1>1
  <2>2. /\ SubSeq(q, 1, i - 1) \in Seq(S)
        /\ Len(SubSeq(q, 1, i - 1)) = IF 1 <= i - 1 THEN (i - 1) - 1 + 1 ELSE 0
        /\ \A l \in 1 .. (i - 1) - 1 + 1 : SubSeq(q, 1, i - 1)[l] = q[1 + l - 1]
    BY <2>1, SubSeqProperties
  <2>. QED BY <1>1, <2>2
<1>3. /\ b \in Seq(S) /\ Len(b) = n - i
      /\ \A l \in 1 .. n - i : b[l] = q[l + i]
  <2>1. \A l \in i + 1 .. n : q[l] \in S
    BY <1>1
  <2>2. /\ SubSeq(q, i + 1, n) \in Seq(S)
        /\ Len(SubSeq(q, i + 1, n)) = IF i + 1 <= n THEN n - (i + 1) + 1 ELSE 0
        /\ \A l \in 1 .. n - (i + 1) + 1 : SubSeq(q, i + 1, n)[l] = q[(i + 1) + l - 1]
    BY <1>1, <2>1, SubSeqProperties
  <2>. QED BY <1>1, <2>2
<1>. HIDE DEF a, b
<1>4. /\ r \in Seq(S) /\ Len(r) = n - 1
      /\ \A j \in 1 .. n - 1 : r[j] = IF j <= i - 1 THEN a[j] ELSE b[j - (i - 1)]
  <2>1. /\ a \o b \in Seq(S)
        /\ Len(a \o b) = Len(a) + Len(b)
        /\ \A j \in 1 .. Len(a) + Len(b) :
             (a \o b)[j] = IF j <= Len(a) THEN a[j] ELSE b[j - Len(a)]
    BY <1>2, <1>3, ConcatProperties
  <2>2. Len(a) + Len(b) = n - 1
    BY <1>1, <1>2, <1>3
  <2>. QED BY <1>2, <2>1, <2>2
<1>5. Without(q, i) = r
  BY DEF Without, a, b
<1>. HIDE DEF r
<1>6. \A j \in 1 .. n - 1 : \E l \in 1 .. n : r[j] = q[l]
  <2>. TAKE j \in 1 .. n - 1
  <2>1. CASE j <= i - 1
    <3>1. j \in 1 .. i - 1 /\ j \in 1 .. n
      BY <1>1, <2>1
    <3>2. r[j] = a[j] /\ a[j] = q[j]
      BY <1>2, <1>4, <2>1, <3>1
    <3>. QED BY <3>1, <3>2
  <2>2. CASE j > i - 1
    <3>1. r[j] = b[j - (i - 1)] /\ j - (i - 1) \in 1 .. n - i
      BY <1>1, <1>4, <2>2
    <3>2. r[j] = q[j - (i - 1) + i]
      BY <1>3, <3>1
    <3>. QED BY <1>1, <3>1, <3>2
  <2>. QED BY <1>1, <2>1, <2>2
<1>7. \A l \in 1 .. n \ {i} : \E j \in 1 .. n - 1 : r[j] = q[l]
  <2>. TAKE l \in 1 .. n \ {i}
  <2>1. CASE l < i
    <3>1. l \in 1 .. i - 1 /\ l \in 1 .. n - 1 /\ l <= i - 1
      BY <1>1, <2>1
    <3>2. r[l] = a[l] /\ a[l] = q[l]
      BY <1>2, <1>4, <3>1
    <3>. QED BY <3>1, <3>2
  <2>2. CASE l > i
    <3>1. l - 1 \in 1 .. n - 1 /\ ~ l - 1 <= i - 1 /\ l - i \in 1 .. n - i
      BY <1>1, <2>2
    <3>2. r[l - 1] = b[(l - 1) - (i - 1)] /\ b[l - i] = q[(l - i) + i]
      BY <1>3, <1>4, <3>1
    <3>. QED BY <1>1, <3>1, <3>2
  <2>. QED BY <1>1, <2>1, <2>2
<1>. QED BY <1>4, <1>5, <1>6, <1>7

-----------------------------------------------------------------------------
LEMMA InitIInv == OfferingInit => IInv
<1>. SUFFICES ASSUME OfferingInit PROVE IInv
  OBVIOUS
<1>1. TypeOK
  BY DiscoveryAssumption DEF OfferingInit, Init, TypeOK, Target
<1>2. OnTime /\ GhostsAreLost /\ LocalIsOffered
  BY DEF OfferingInit, Init, OnTime, GhostsAreLost, LocalIsOffered
<1>. QED BY <1>1, <1>2 DEF IInv

(* What a step must keep of the offers, whichever it changes.              *)
LEMMA KeepsList ==
  ASSUME TypeOK, NEW n \in Nat, NEW since,
         offers' = [i \in 1 .. n |-> offers'[i]],
         idle' = since, since \in 0 .. Latency,
         services' \in [Services -> Target],
         \A i \in 1 .. n : /\ offers'[i] \in OfferState
                           /\ Timely(offers'[i], since) /\ Counts(offers'[i])
  PROVE  TypeOK' /\ OnTime' /\ Len(offers') = n
<1>1. offers' \in Seq(OfferState) /\ Len(offers') = n
  OBVIOUS
<1>2. OnTime'
  <2>1. \A i \in 1 .. Len(offers') : Timely(offers'[i], idle') /\ Counts(offers'[i])
    BY <1>1
  <2>. QED BY <2>1 DEF OnTime, Timely, Deadline, Counts
<1>. QED BY <1>1, <1>2 DEF TypeOK

LEMMA SameList ==
  ASSUME IInv, offers' = offers, idle' = idle, services' \in [Services -> Target]
  PROVE  TypeOK' /\ OnTime' /\ Offered' = Offered
BY DEF IInv, TypeOK, OnTime, Timely, Deadline, Counts, Offered

(* application::offer_service                                              *)
LEMMA OfferStep ==
  ASSUME IInv, NEW s \in Services, offer_service(s)
  PROVE  IInv'
<1>. USE DEF IInv
<1>. DEFINE n == Len(offers)
            o == offer_state(s)
<1>1. /\ offers' = Append(offers, o)
      /\ UNCHANGED <<stops, finds, idle, visible, missed>>
      /\ services' = [services EXCEPT ![s] = "local"]
  BY DEF offer_service, start_offer, register
<1>2. o \in OfferState /\ o.heard = Never /\ o.phase = "initial_wait" /\ o.service = s
  BY DiscoveryAssumption DEF offer_state, OfferState
<1>3. offers \in Seq(OfferState) /\ idle \in 0 .. Latency
  BY DEF TypeOK
<1>. HIDE DEF o
<1>4. /\ n \in Nat /\ Len(offers') = n + 1 /\ offers' \in Seq(OfferState)
      /\ \A i \in 1 .. n : offers'[i] = offers[i]
      /\ offers'[n + 1] = o
  BY <1>1, <1>2, <1>3
<1>5. \A i \in 1 .. n + 1 : /\ offers'[i] \in OfferState
                            /\ Timely(offers'[i], idle) /\ Counts(offers'[i])
  <2>. TAKE i \in 1 .. n + 1
  <2>1. CASE i \in 1 .. n
    BY <1>3, <1>4, <2>1 DEF OnTime
  <2>2. CASE i = n + 1
    BY <1>2, <1>4, <2>2 DEF Timely, Counts
  <2>. QED BY <1>4, <2>1, <2>2
<1>6. services' \in [Services -> Target]
  BY <1>1 DEF TypeOK, Target
<1>7. TypeOK' /\ OnTime'
  <2>1. offers' = [i \in 1 .. n + 1 |-> offers'[i]]
    BY <1>4
  <2>. QED BY <1>1, <1>3, <1>4, <1>5, <1>6, <2>1, KeepsList
<1>8. Offered \subseteq Offered' /\ s \in Offered'
  BY <1>2, <1>4 DEF Offered
<1>9. GhostsAreLost'
  BY <1>1, <1>8 DEF GhostsAreLost
<1>10. LocalIsOffered'
  BY <1>1, <1>8 DEF LocalIsOffered, TypeOK
<1>. QED BY <1>7, <1>9, <1>10

(* application::stop_offer_service                                         *)
LEMMA StopStep ==
  ASSUME IInv, NEW s \in Services, stop_offer_service(s)
  PROVE  IInv'
<1>. USE DEF IInv
<1>1. services' = [services EXCEPT ![s] = "unknown"] /\ services' \in [Services -> Target]
  BY DEF stop_offer_service, register, TypeOK, Target
<1>2. CASE UNCHANGED vars
  <2>1. UNCHANGED <<offers, stops, idle, visible, missed>>
    BY <1>2 DEF vars
  <2>2. TypeOK' /\ OnTime' /\ Offered' = Offered
    BY <1>1, <2>1, SameList
  <2>3. GhostsAreLost'
    BY <2>1, <2>2 DEF GhostsAreLost
  <2>4. LocalIsOffered'
    BY <1>1, <2>2 DEF LocalIsOffered, TypeOK
  <2>. QED BY <2>2, <2>3, <2>4
<1>3. CASE stop_offer(s)
  <2>1. PICK i \in 1 .. Len(offers) :
          /\ offers[i].service = s
          /\ offers' = Without(offers, i)
          /\ stops' = stops \union {s}
          /\ UNCHANGED <<finds, idle, visible, missed>>
    BY <1>3 DEF stop_offer
  <2>2. offers \in Seq(OfferState) /\ idle \in 0 .. Latency
    BY DEF TypeOK
  <2>3. /\ offers' \in Seq(OfferState)
        /\ \A j \in 1 .. Len(offers') : \E l \in 1 .. Len(offers) : offers'[j] = offers[l]
        /\ \A l \in 1 .. Len(offers) \ {i} : \E j \in 1 .. Len(offers') : offers'[j] = offers[l]
    BY <2>1, <2>2, Removes
  <2>4. \A j \in 1 .. Len(offers') : /\ offers'[j] \in OfferState
                                     /\ Timely(offers'[j], idle) /\ Counts(offers'[j])
    BY <2>2, <2>3 DEF OnTime
  <2>5. TypeOK' /\ OnTime'
    <3>1. Len(offers') \in Nat /\ offers' = [j \in 1 .. Len(offers') |-> offers'[j]]
      BY <2>3
    <3>. QED BY <1>1, <2>1, <2>2, <2>4, <3>1, KeepsList
  <2>6. Offered \subseteq Offered' \union {s}
    <3>. SUFFICES ASSUME NEW l \in 1 .. Len(offers), l # i
                  PROVE  offers[l].service \in Offered'
      BY <2>1 DEF Offered
    <3>. QED BY <2>3 DEF Offered
  <2>7. GhostsAreLost'
    BY <2>1, <2>6 DEF GhostsAreLost
  <2>8. LocalIsOffered'
    BY <1>1, <2>6 DEF LocalIsOffered, TypeOK
  <2>. QED BY <2>5, <2>7, <2>8
<1>. QED BY <1>2, <1>3 DEF stop_offer_service

(* What leaves the offers alone.                                           *)
LEMMA OtherStep ==
  ASSUME IInv, UNCHANGED <<offers, stops, idle, visible, missed>>,
         \/ UNCHANGED services
         \/ \E s \in Services, where \in {"unknown", "remote"} : register(s, where)
  PROVE  IInv'
<1>. USE DEF IInv
<1>1. services' \in [Services -> Target] /\ \A s \in Services : services'[s] = "local" => services[s] = "local"
  BY DEF register, TypeOK, Target
<1>2. TypeOK' /\ OnTime' /\ Offered' = Offered
  BY <1>1, SameList
<1>3. GhostsAreLost'
  BY <1>2 DEF GhostsAreLost
<1>4. LocalIsOffered'
  BY <1>1, <1>2 DEF LocalIsOffered
<1>. QED BY <1>2, <1>3, <1>4

LEMMA TickStep ==
  ASSUME IInv, run_tick
  PROVE  IInv'
<1>. USE DEF IInv
<1>. DEFINE n == Len(offers)
<1>1. PICK lost \in BOOLEAN : tick(lost) /\ UNCHANGED services
  BY DEF run_tick
<1>2. /\ offers' = [i \in 1 .. n |-> Announce(offers[i], lost)]
      /\ stops' = {} /\ idle' = 0
      /\ visible' = IF lost THEN visible ELSE Apply(visible)
      /\ missed' = IF lost THEN missed \union stops ELSE missed \ (stops \union Announced)
      /\ \A i \in 1 .. n : lost /\ Due(offers[i]) => offers[i].lost < MaxLost
  BY <1>1 DEF tick, DueOffers
<1>3. offers \in Seq(OfferState) /\ n \in Nat /\ idle \in 0 .. Latency /\ 0 \in 0 .. Latency
  BY DiscoveryAssumption DEF TypeOK
<1>4. \A i \in 1 .. n : /\ offers'[i] \in OfferState
                        /\ offers'[i].service = offers[i].service
                        /\ Timely(offers'[i], 0) /\ Counts(offers'[i])
  <2>. TAKE i \in 1 .. n
  <2>1. offers[i] \in OfferState /\ Timely(offers[i], idle) /\ Counts(offers[i])
    BY <1>3 DEF OnTime
  <2>. QED BY <1>2, <1>3, <2>1, Announces
<1>5. TypeOK' /\ OnTime' /\ Len(offers') = n
  <2>1. offers' = [i \in 1 .. n |-> offers'[i]]
    BY <1>2
  <2>2. services' \in [Services -> Target]
    BY <1>1 DEF TypeOK
  <2>. QED BY <1>2, <1>3, <1>4, <2>1, <2>2, KeepsList
<1>6. Offered' = Offered
  BY <1>4, <1>5 DEF Offered
<1>7. Announced \subseteq Offered
  BY DEF Announced, Offered, DueOffers
<1>8. GhostsAreLost'
  BY <1>2, <1>6, <1>7 DEF GhostsAreLost, Apply
<1>9. LocalIsOffered'
  BY <1>1, <1>6 DEF LocalIsOffered
<1>. QED BY <1>5, <1>8, <1>9

LEMMA TimeStep ==
  ASSUME IInv, time_passes
  PROVE  IInv'
<1>. USE DEF IInv
<1>. DEFINE n == Len(offers)
<1>1. /\ offers' = [i \in 1 .. n |-> Aged(offers[i])]
      /\ idle < Latency /\ idle' = idle + 1
      /\ UNCHANGED <<stops, visible, missed, services>>
  BY DEF time_passes, Elapse, Aged
<1>2. /\ offers \in Seq(OfferState) /\ n \in Nat
      /\ idle \in 0 .. Latency - 1 /\ idle + 1 \in 0 .. Latency
  BY <1>1, DiscoveryAssumption DEF TypeOK
<1>3. \A i \in 1 .. n : /\ offers'[i] \in OfferState
                        /\ offers'[i].service = offers[i].service
                        /\ Timely(offers'[i], idle + 1) /\ Counts(offers'[i])
  <2>. TAKE i \in 1 .. n
  <2>1. offers[i] \in OfferState /\ Timely(offers[i], idle) /\ Counts(offers[i])
    BY <1>2 DEF OnTime
  <2>. QED BY <1>1, <1>2, <2>1, Ages
<1>4. TypeOK' /\ OnTime' /\ Len(offers') = n
  <2>1. offers' = [i \in 1 .. n |-> offers'[i]]
    BY <1>1
  <2>2. services' \in [Services -> Target]
    BY <1>1 DEF TypeOK
  <2>. QED BY <1>1, <1>2, <1>3, <2>1, <2>2, KeepsList
<1>5. Offered' = Offered
  BY <1>3, <1>4 DEF Offered
<1>6. GhostsAreLost' /\ LocalIsOffered'
  BY <1>1, <1>5 DEF GhostsAreLost, LocalIsOffered
<1>. QED BY <1>4, <1>6

LEMMA NextIInv == IInv /\ [OfferingNext]_offeringVars => IInv'
<1>. SUFFICES ASSUME IInv, [OfferingNext]_offeringVars PROVE IInv'
  OBVIOUS
<1>1. ASSUME NEW s \in Services, offer_service(s) PROVE IInv'
  BY <1>1, OfferStep
<1>2. ASSUME NEW s \in Services, stop_offer_service(s) PROVE IInv'
  BY <1>2, StopStep
<1>3. ASSUME NEW s \in Services, request_service(s) \/ release_service(s) PROVE IInv'
  BY <1>3, OtherStep DEF request_service, release_service, start_find, stop_find
<1>4. ASSUME NEW s \in Services, add_remote_service(s) \/ remove_remote_service(s) PROVE IInv'
  BY <1>4, OtherStep DEF add_remote_service, remove_remote_service, vars
<1>5. CASE run_tick
  BY <1>5, TickStep
<1>6. CASE time_passes
  BY <1>6, TimeStep
<1>7. CASE UNCHANGED offeringVars
  BY <1>7, OtherStep DEF offeringVars, vars
<1>. QED BY <1>1, <1>2, <1>3, <1>4, <1>5, <1>6, <1>7 DEF OfferingNext

(* Every announcement comes in the share of the time to live that the      *)
(* announcements lost before it left for it.                               *)
THEOREM Invariance == OfferingSpec => []IInv
<1>. QED BY InitIInv, NextIInv, PTL DEF OfferingSpec

LEMMA InTime == IInv => RefreshedInTime
<1>. SUFFICES ASSUME IInv, NEW i \in 1 .. Len(offers), offers[i].heard # Never
              PROVE  offers[i].heard <= OfferTtl
  BY DEF RefreshedInTime
<1>. DEFINE o == offers[i]
<1>1. o \in OfferState /\ Timely(o, idle)
  BY DEF IInv, TypeOK, OnTime
<1>2. /\ o.heard \in Nat /\ o.wait \in Nat /\ o.lost \in 0 .. MaxLost
      /\ idle \in 0 .. Latency /\ Latency \in Nat /\ OfferTtl \in Nat
  BY <1>1, DiscoveryAssumption DEF OfferState, IInv, TypeOK
<1>. HIDE DEF o
<1>3. Deadline(o, idle) \in Nat
  BY <1>2 DEF Deadline
<1>4. (o.lost + 1) * Share \in Nat /\ (o.lost + 1) * Share <= OfferTtl
  BY <1>2, Fits
<1>5. o.heard # Never
  BY DEF o
<1>6. o.heard + Deadline(o, idle) <= (o.lost + 1) * Share
  BY <1>1, <1>5 DEF Timely
<1>7. o.heard <= OfferTtl
  BY <1>2, <1>3, <1>4, <1>6
<1>. QED BY <1>7 DEF o

(* discovery::tick and the backoff of offer_state announce an offer again  *)
(* before a listener that misses up to MaxLost messages gives it up.       *)
THEOREM KeptAlive == OfferingSpec => []RefreshedInTime
<1>. QED BY Invariance, InTime, PTL

(* What a listener wrongly believes in was stopped by a message it missed  *)
(* or has yet to be sent: pending_stop_offers_ loses none.                 *)
THEOREM NoOtherGhosts == OfferingSpec => []GhostsAreLost
<1>. QED BY Invariance, PTL DEF IInv

(* What application::offer_service registered as local stays in offers_    *)
(* for as long as it is registered.                                        *)
THEOREM LocalAnnounced == OfferingSpec => []LocalIsOffered
<1>. QED BY Invariance, PTL DEF IInv

(* tick puts the StopOffers of a message before its offers.                *)
THEOREM Restarts == OfferingSpec => RestartSurvives
<1>1. tick(FALSE) => Announced \subseteq visible'
  BY DEF tick, Apply
<1>2. [OfferingNext]_offeringVars => [tick(FALSE) => Announced \subseteq visible']_vars
  BY <1>1
<1>. QED BY <1>2, PTL DEF OfferingSpec, RestartSurvives
=============================================================================
