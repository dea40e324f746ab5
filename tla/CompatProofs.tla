---------------------------- MODULE CompatProofs ---------------------------
(***************************************************************************)
(* What events, attributes and the vsomeip compatibility layer promise for *)
(* any number of subscribers, values and calls: who is told of a change,   *)
(* when, and how deep the notifications nest; and whose answer completes a *)
(* call.                                                                   *)
(***************************************************************************)
EXTENDS Compat, SequenceTheorems, FiniteSetTheorems, TLAPS
-----------------------------------------------------------------------------
Frame ==
  [at : {"call", "notify", "message", "handler"}, payload : Values, next : Nat \ {0},
   fresh : BOOLEAN]

EventTypes ==
  /\ value \in Values
  /\ event_handler \in {"bridge", "message", "none"}
  /\ subscriptions \in Seq(Subscribers)
  /\ stack \in Seq(Frame)
  /\ belief \in [Subscribers -> Values]
  /\ via \in {"bridge", "message", "none"}

(* Nobody is subscribed twice.                                             *)
SubscribedOnce ==
  \A i, j \in 1 .. Len(subscriptions) : subscriptions[i] = subscriptions[j] => i = j

(* A call is the outermost frame: nothing is told below it.                *)
CallFirst == \A k \in 1 .. Len(stack) : stack[k].at = "call" => k = 1

(* Two rounds of notifications mean that a handler has set the attribute,  *)
(* and there is no third.                                                  *)
TwoRounds ==
  /\ \A i, j \in Rounds : i # j => value = Preferred
  /\ \A i, j, l \in Rounds : i = j \/ j = l \/ i = l

(* A round that is not the last to be told, or tells an old value, has     *)
(* called a subscriber whose handler sets the attribute.                   *)
PastASetter(n) == \E j \in 1 .. n - 1 : subscriptions[j] \in Setters
StalePastASetter ==
  \A k \in Rounds : k # Len(stack) \/ stack[k].payload # value => PastASetter(stack[k].next)

(* Who has not been told of the last change will be, by a round that began *)
(* with it.                                                                *)
ToldOrToBeTold ==
  via = "bridge" => \A i \in 1 .. Len(subscriptions) :
    subscriptions[i] \in current \/ \E k \in Rounds : stack[k].fresh /\ stack[k].next <= i

(* And who no setter comes before knows the value, or will be told it.     *)
KnowsOrToBeTold ==
  via = "bridge" => \A i \in 1 .. Len(subscriptions) :
    PastASetter(i) \/ belief[subscriptions[i]] = value
      \/ \E k \in Rounds : stack[k].payload = value /\ stack[k].next <= i

Nested == EventTypes /\ SubscribedOnce /\ CallFirst /\ TwoRounds /\ StalePastASetter
Told   == ToldOrToBeTold /\ KnowsOrToBeTold
-----------------------------------------------------------------------------
LEMMA FrontFacts ==
  ASSUME NEW S, NEW st \in Seq(S), st # <<>>
  PROVE  /\ Len(st) \in Nat /\ Len(st) > 0
         /\ Last(st) = st[Len(st)] /\ Last(st) \in S
         /\ Front(st) \in Seq(S) /\ Len(Front(st)) = Len(st) - 1
         /\ \A k \in 1 .. Len(st) - 1 : Front(st)[k] = st[k]
<1>1. Len(st) \in Nat /\ Len(st) > 0
  BY EmptySeq, LenProperties
<1>. DEFINE m == 1
            n == Len(st) - 1
<1>2. /\ m = 1 /\ n = Len(st) - 1 /\ n \in Nat
      /\ \A i \in m .. n : st[i] \in S
  BY <1>1
<1>. HIDE DEF m, n
<1>3. /\ SubSeq(st, m, n) \in Seq(S)
      /\ Len(SubSeq(st, m, n)) = IF m <= n THEN n - m + 1 ELSE 0
      /\ \A i \in 1 .. n - m + 1 : SubSeq(st, m, n)[i] = st[m + i - 1]
  BY <1>2, SubSeqProperties
<1>4. \A i \in 1 .. n : SubSeq(st, 1, n)[i] = st[i]
  BY <1>2, <1>3
<1>5. st[Len(st)] \in S
  BY <1>1, ElementOfSeq
<1>. QED BY <1>1, <1>2, <1>3, <1>4, <1>5 DEF Front, Last

LEMMA Chained ==
  ASSUME NEW S, NEW f \in S, NEW g \in S
  PROVE  /\ <<f>> \in Seq(S) /\ Len(<<f>>) = 1 /\ <<f>>[1] = f
         /\ <<>> \in Seq(S) /\ Len(<<>>) = 0
         /\ <<f>> \o <<g>> \in Seq(S) /\ Len(<<f>> \o <<g>>) = 2
         /\ (<<f>> \o <<g>>)[1] = f /\ (<<f>> \o <<g>>)[2] = g
<1>1. /\ <<f>> \in Seq(S) /\ Len(<<f>>) = 1 /\ <<f>>[1] = f
      /\ <<g>> \in Seq(S) /\ Len(<<g>>) = 1 /\ <<g>>[1] = g
  OBVIOUS
<1>2. <<>> \in Seq(S) /\ Len(<<>>) = 0
  BY EmptySeq
<1>3. /\ <<f>> \o <<g>> \in Seq(S) /\ Len(<<f>> \o <<g>>) = 2
      /\ \A i \in 1 .. 2 : (<<f>> \o <<g>>)[i] = IF i <= 1 THEN <<f>>[i] ELSE <<g>>[i - 1]
  BY <1>1, ConcatProperties
<1>. QED BY <1>1, <1>2, <1>3

LEMMA AtMostOne ==
  ASSUME NEW S, NEW f \in S, NEW q \in {<<>>, <<f>>}
  PROVE  /\ q \in Seq(S) /\ Len(q) \in 0 .. 1
         /\ \A k \in 1 .. Len(q) : q[k] = f
         /\ q = <<f>> => Len(q) = 1
<1>1. CASE q = <<>>
  <2>1. q \in Seq(S) /\ Len(q) = 0
    BY <1>1, Chained
  <2>2. Len(<<f>>) = 1
    OBVIOUS
  <2>. QED BY <2>1, <2>2
<1>2. CASE q = <<f>>
  <2>1. q \in Seq(S) /\ Len(q) = 1 /\ q[1] = f
    BY <1>2, Chained
  <2>. QED BY <2>1
<1>. QED BY <1>1, <1>2

(* The frames that a chain of calls begins with when nothing runs.         *)
Beginning(st, v) ==
  /\ st \in Seq(Frame)
  /\ Len(st) \in 0 .. 2
  /\ \A k \in 1 .. Len(st) :
       /\ st[k] \in {Call(v), Notify(v), Message(v)}
       /\ st[k] = Call(v) => k = 1
       /\ st[k] = Notify(v) => k = Len(st)

LEMMA NewFrames ==
  ASSUME NEW v \in Values
  PROVE  /\ {Call(v), Notify(v), Message(v)} \subseteq Frame
         /\ Call(v) # Notify(v) /\ Call(v) # Message(v) /\ Notify(v) # Message(v)
<1>1. {Call(v), Notify(v), Message(v)} \subseteq Frame
  BY DEF Call, Notify, Message, Frame
<1>2. Call(v).at = "call" /\ Notify(v).at = "notify" /\ Message(v).at = "message"
  BY DEF Call, Notify, Message
<1>. QED BY <1>1, <1>2

LEMMA Begins ==
  ASSUME NEW v \in Values, NEW caller, caller \in {<<>>, <<Call(v)>>},
         NEW callee, callee \in {<<>>, <<Notify(v)>>, <<Message(v)>>}
  PROVE  /\ Beginning(caller \o callee, v)
         /\ callee = <<Notify(v)>> =>
              /\ Len(caller \o callee) > 0
              /\ (caller \o callee)[Len(caller \o callee)] = Notify(v)
<1>. DEFINE st == caller \o callee
            Result == /\ Beginning(st, v)
                      /\ callee = <<Notify(v)>> => Len(st) > 0 /\ st[Len(st)] = Notify(v)
<1>1. PICK c \in Frame, n \in Frame, m \in Frame : c = Call(v) /\ n = Notify(v) /\ m = Message(v)
  BY NewFrames
<1>2. c # n /\ c # m /\ n # m
  BY <1>1, NewFrames
<1>3. <<n>> # <<>> /\ <<n>> # <<m>>
  BY <1>2
<1>4. ASSUME st = <<>>, callee = <<>>
      PROVE  Result
  <2>1. Beginning(st, v)
    <3>1. st \in Seq(Frame) /\ Len(st) = 0
      BY <1>4, Chained
    <3>. QED BY <3>1 DEF Beginning
  <2>. QED BY <2>1, <1>1, <1>3, <1>4
<1>5. ASSUME NEW f \in {c, n, m}, st = <<f>>, callee = <<n>> => f = n
      PROVE  Result
  <2>1. st \in Seq(Frame) /\ Len(st) = 1 /\ st[1] = f
    BY <1>5, Chained
  <2>2. Beginning(st, v)
    BY <1>1, <1>2, <2>1 DEF Beginning
  <2>. QED BY <1>1, <1>5, <2>1, <2>2
<1>6. ASSUME NEW f \in {n, m}, st = <<c>> \o <<f>>, callee = <<f>>
      PROVE  Result
  <2>1. st \in Seq(Frame) /\ Len(st) = 2 /\ st[1] = c /\ st[2] = f
    BY <1>6, Chained
  <2>2. Beginning(st, v)
    BY <1>1, <1>2, <2>1 DEF Beginning
  <2>3. callee = <<n>> => f = n
    <3>1. <<f>>[1] = f /\ <<n>>[1] = n
      OBVIOUS
    <3>. QED BY <1>6, <3>1
  <2>. QED BY <1>1, <2>1, <2>2, <2>3
<1>. SUFFICES Result
  OBVIOUS
<1>. HIDE DEF Result
<1>7. CASE caller = <<>>
  <2>1. st = callee
    <3>1. callee \in Seq(Frame)
      BY <1>1, Chained
    <3>. QED BY <1>7, <3>1, ConcatEmptySeq
  <2>2. CASE callee = <<>>
    BY <1>4, <2>1, <2>2
  <2>3. CASE callee = <<n>>
    BY <1>5, <2>1, <2>3
  <2>4. CASE callee = <<m>>
    BY <1>3, <1>5, <2>1, <2>4
  <2>. QED BY <1>1, <2>2, <2>3, <2>4
<1>8. CASE caller = <<c>>
  <2>1. CASE callee = <<>>
    <3>1. st = <<c>>
      BY <1>8, <2>1, Chained, ConcatEmptySeq
    <3>. QED BY <1>3, <1>5, <2>1, <3>1
  <2>2. CASE callee = <<n>>
    BY <1>6, <1>8, <2>2
  <2>3. CASE callee = <<m>>
    BY <1>6, <1>8, <2>3
  <2>. QED BY <1>1, <2>1, <2>2, <2>3
<1>. QED BY <1>1, <1>7, <1>8
-----------------------------------------------------------------------------
(* What the steps do to the rounds.                                        *)
EventInv == Nested /\ (Fits => Told)

LEMMA Typed ==
  ASSUME EventTypes
  PROVE  /\ Len(stack) \in Nat /\ Len(subscriptions) \in Nat
         /\ AtRest <=> Len(stack) = 0
         /\ \A k \in 1 .. Len(stack) : stack[k] \in Frame
         /\ \A i \in 1 .. Len(subscriptions) : subscriptions[i] \in Subscribers
         /\ \A k \in Rounds : k \in 1 .. Len(stack) /\ stack[k] \in Frame /\ stack[k].at = "notify"
<1>1. stack \in Seq(Frame) /\ subscriptions \in Seq(Subscribers)
  BY DEF EventTypes
<1>2. Len(stack) \in Nat /\ Len(subscriptions) \in Nat
  BY <1>1, LenProperties
<1>3. AtRest <=> Len(stack) = 0
  BY <1>1, EmptySeq DEF AtRest
<1>4. /\ \A k \in 1 .. Len(stack) : stack[k] \in Frame
      /\ \A i \in 1 .. Len(subscriptions) : subscriptions[i] \in Subscribers
  BY <1>1, ElementOfSeq
<1>. QED BY <1>2, <1>3, <1>4 DEF Rounds

(* A chain begins: with the value as it was, or with a change.             *)
LEMMA BeginsRound ==
  ASSUME EventInv, AtRest, NEW v \in Values, value' = v, Beginning(stack', v),
         UNCHANGED <<subscriptions, belief, event_handler>>,
         \/ v = value /\ UNCHANGED <<current, via>>
         \/ /\ current' = {} /\ via' = event_handler
            /\ Fits /\ event_handler = "bridge" =>
                 Len(stack') > 0 /\ stack'[Len(stack')] = Notify(v)
  PROVE  EventInv'
<1>1. /\ stack' \in Seq(Frame) /\ Len(stack') \in 0 .. 2
      /\ \A k \in 1 .. Len(stack') :
           /\ stack'[k] \in {Call(v), Notify(v), Message(v)}
           /\ stack'[k] = Call(v) => k = 1
           /\ stack'[k] = Notify(v) => k = Len(stack')
  BY DEF Beginning
<1>2. /\ Call(v).at = "call" /\ Notify(v).at = "notify" /\ Message(v).at = "message"
      /\ Notify(v).payload = v /\ Notify(v).next = 1 /\ Notify(v).fresh
  BY DEF Call, Notify, Message
<1>3. \A k \in Rounds' : k = Len(stack') /\ stack'[k] = Notify(v)
  BY <1>1, <1>2 DEF Rounds
<1>4. EventTypes'
  BY <1>1 DEF EventInv, Nested, EventTypes
<1>5. SubscribedOnce' /\ CallFirst'
  BY <1>1, <1>2 DEF EventInv, Nested, SubscribedOnce, CallFirst
<1>6. TwoRounds' /\ StalePastASetter'
  BY <1>2, <1>3 DEF TwoRounds, StalePastASetter
<1>7. ASSUME Fits PROVE Told'
  <2>1. Rounds = {} /\ Len(subscriptions) \in Nat
    BY Typed DEF EventInv, Nested, Rounds
  <2>2. CASE v = value /\ UNCHANGED <<current, via>>
    <3>1. ToldOrToBeTold'
      BY <1>7, <2>1, <2>2 DEF EventInv, Told, ToldOrToBeTold
    <3>2. KnowsOrToBeTold'
      BY <1>7, <2>1, <2>2 DEF EventInv, Told, KnowsOrToBeTold, PastASetter
    <3>. QED BY <3>1, <3>2 DEF Told
  <2>3. CASE /\ current' = {} /\ via' = event_handler
             /\ Fits /\ event_handler = "bridge" =>
                  Len(stack') > 0 /\ stack'[Len(stack')] = Notify(v)
    <3>. SUFFICES ASSUME event_handler = "bridge" PROVE Told'
      BY <2>3 DEF Told, ToldOrToBeTold, KnowsOrToBeTold
    <3>1. PICK k \in Rounds' : stack'[k] = Notify(v)
      BY <1>1, <1>2, <1>7, <2>3 DEF Rounds
    <3>. QED BY <1>2, <2>1, <3>1 DEF Told, ToldOrToBeTold, KnowsOrToBeTold
  <2>. QED BY <2>2, <2>3
<1>. QED BY <1>4, <1>5, <1>6, <1>7 DEF EventInv, Nested

(* The innermost frame returns; a round only when everybody was told.      *)
LEMMA Returns ==
  ASSUME EventInv, ~ AtRest, stack' = Front(stack),
         UNCHANGED <<value, subscriptions, belief, event_handler, current, via>>,
         Top.at = "notify" => Top.next > Len(subscriptions)
  PROVE  EventInv'
<1>1. /\ Len(stack) \in Nat /\ Len(stack) > 0 /\ Top = stack[Len(stack)]
      /\ stack' \in Seq(Frame) /\ Len(stack') = Len(stack) - 1
      /\ \A k \in 1 .. Len(stack) - 1 : stack'[k] = stack[k]
  BY FrontFacts DEF EventInv, Nested, EventTypes, AtRest, Top
<1>2. Rounds' = Rounds \ {Len(stack)} /\ \A k \in Rounds' : stack'[k] = stack[k]
  BY <1>1 DEF Rounds
<1>3. EventTypes' /\ SubscribedOnce'
  BY <1>1 DEF EventInv, Nested, EventTypes, SubscribedOnce
<1>4. CallFirst'
  BY <1>1 DEF EventInv, Nested, CallFirst
<1>5. TwoRounds'
  BY <1>2 DEF EventInv, Nested, TwoRounds
<1>6. StalePastASetter'
  BY <1>1, <1>2 DEF EventInv, Nested, StalePastASetter, PastASetter
<1>7. ASSUME Fits PROVE Told'
  <2>1. \A i \in 1 .. Len(subscriptions), k \in Rounds : stack[k].next <= i => k \in Rounds'
    <3>. SUFFICES ASSUME NEW i \in 1 .. Len(subscriptions), NEW k \in Rounds,
                         stack[k].next <= i, k = Len(stack)
                  PROVE  FALSE
      BY <1>2
    <3>1. stack[k] \in Frame /\ stack[k].at = "notify" /\ Len(subscriptions) \in Nat
      BY Typed DEF EventInv, Nested
    <3>2. stack[k].next \in Nat
      BY <3>1 DEF Frame
    <3>. QED BY <1>1, <3>1, <3>2
  <2>2. ToldOrToBeTold'
    BY <1>2, <1>7, <2>1 DEF EventInv, Told, ToldOrToBeTold
  <2>3. KnowsOrToBeTold'
    BY <1>2, <1>7, <2>1 DEF EventInv, Told, KnowsOrToBeTold, PastASetter
  <2>. QED BY <2>2, <2>3 DEF Told
<1>. QED BY <1>3, <1>4, <1>5, <1>6, <1>7 DEF EventInv, Nested

(* The frames below a change stay what they are but are fresh no more.     *)
LEMMA AgedFacts ==
  ASSUME NEW st \in Seq(Frame)
  PROVE  /\ Aged(st) \in Seq(Frame) /\ Len(Aged(st)) = Len(st)
         /\ \A k \in 1 .. Len(st) :
              /\ Aged(st)[k].at = st[k].at
              /\ Aged(st)[k].payload = st[k].payload
              /\ Aged(st)[k].next = st[k].next
<1>1. Len(st) \in Nat /\ \A k \in 1 .. Len(st) : st[k] \in Frame
  BY LenProperties, ElementOfSeq
<1>2. ASSUME NEW k \in 1 .. Len(st)
      PROVE  /\ Aged(st)[k] \in Frame
             /\ Aged(st)[k].at = st[k].at
             /\ Aged(st)[k].payload = st[k].payload
             /\ Aged(st)[k].next = st[k].next
  <2>1. PICK f \in Frame : f = st[k]
    BY <1>1
  <2>2. Aged(st)[k] = [f EXCEPT !.fresh = FALSE]
    BY <2>1 DEF Aged
  <2>. QED BY <2>1, <2>2 DEF Frame
<1>3. Aged(st) = [k \in 1 .. Len(st) |-> Aged(st)[k]]
  BY DEF Aged
<1>4. Aged(st) \in Seq(Frame) /\ Len(Aged(st)) = Len(st)
  BY <1>1, <1>2, <1>3, IsASeq
<1>. QED BY <1>2, <1>4

(* A handler changes the value while others are being told.                *)
LEMMA ChangesInside ==
  ASSUME EventInv, At("handler"), value # Preferred, value' = Preferred,
         stack' = Aged(Front(stack)) \o skeleton_notify(Preferred),
         current' = {}, via' = event_handler,
         UNCHANGED <<subscriptions, belief, event_handler>>
  PROVE  EventInv'
<1>. DEFINE below == Aged(Front(stack))
            callee == skeleton_notify(Preferred)
<1>1. Preferred \in Values
  BY EventsAssumption
<1>2. /\ Len(stack) \in Nat /\ Len(stack) > 0 /\ stack[Len(stack)].at = "handler"
      /\ Front(stack) \in Seq(Frame) /\ Len(Front(stack)) = Len(stack) - 1
      /\ \A k \in 1 .. Len(stack) - 1 : Front(stack)[k] = stack[k]
  BY FrontFacts DEF EventInv, Nested, EventTypes, At, AtRest, Top
<1>3. /\ below \in Seq(Frame) /\ Len(below) = Len(stack) - 1
      /\ \A k \in 1 .. Len(stack) - 1 :
           /\ below[k].at = stack[k].at
           /\ below[k].payload = stack[k].payload
           /\ below[k].next = stack[k].next
  BY <1>2, AgedFacts
<1>4. /\ callee \in {<<>>, <<Notify(Preferred)>>, <<Message(Preferred)>>}
      /\ Fits /\ event_handler = "bridge" => callee = <<Notify(Preferred)>>
  BY DEF EventInv, Nested, EventTypes, skeleton_notify, Routed
<1>5. /\ Notify(Preferred) \in Frame /\ Message(Preferred) \in Frame
      /\ Notify(Preferred).at = "notify" /\ Message(Preferred).at = "message"
      /\ Notify(Preferred).payload = Preferred /\ Notify(Preferred).next = 1
      /\ Notify(Preferred).fresh
  BY <1>1 DEF Notify, Message, Frame
<1>. HIDE DEF below, callee
<1>6. /\ callee \in Seq(Frame) /\ Len(callee) \in 0 .. 1
      /\ \A k \in 1 .. Len(callee) : callee[k] \in {Notify(Preferred), Message(Preferred)}
      /\ callee = <<Notify(Preferred)>> => Len(callee) = 1 /\ callee[1] = Notify(Preferred)
  <2>1. PICK f \in {Notify(Preferred), Message(Preferred)} :
          /\ callee \in {<<>>, <<f>>}
          /\ callee = <<Notify(Preferred)>> => f = Notify(Preferred)
    BY <1>4
  <2>2. /\ callee \in Seq(Frame) /\ Len(callee) \in 0 .. 1
        /\ \A k \in 1 .. Len(callee) : callee[k] = f
        /\ callee = <<f>> => Len(callee) = 1
    <3>1. f \in Frame
      BY <1>5
    <3>2. \A q \in {<<>>, <<f>>} :
            /\ q \in Seq(Frame) /\ Len(q) \in 0 .. 1
            /\ \A k \in 1 .. Len(q) : q[k] = f
            /\ q = <<f>> => Len(q) = 1
      BY <3>1, AtMostOne
    <3>. QED BY <2>1, <3>2
  <2>. QED BY <2>1, <2>2
<1>7. /\ stack' \in Seq(Frame) /\ Len(stack') = Len(stack) - 1 + Len(callee)
      /\ \A k \in 1 .. Len(stack') : stack'[k] = IF k <= Len(stack) - 1 THEN below[k]
                                                ELSE callee[k - (Len(stack) - 1)]
  BY <1>2, <1>3, <1>6, ConcatProperties DEF below, callee
<1>8. \A k \in 1 .. Len(stack') :
        \/ /\ k < Len(stack) /\ stack'[k].at = stack[k].at
           /\ stack'[k].payload = stack[k].payload /\ stack'[k].next = stack[k].next
        \/ /\ k = Len(stack) /\ k = Len(stack')
           /\ stack'[k] \in {Notify(Preferred), Message(Preferred)}
  <2>1. PICK n \in Nat, m \in 0 .. 1 : n = Len(stack) - 1 /\ m = Len(callee)
    BY <1>2, <1>6
  <2>2. Len(stack') = n + m /\ Len(stack) = n + 1
    BY <1>2, <1>7, <2>1
  <2>3. ASSUME NEW k \in 1 .. n
        PROVE  stack'[k] = below[k] /\ k \in 1 .. Len(stack) - 1
    <3>1. k \in 1 .. Len(stack') /\ k <= Len(stack) - 1
      BY <2>1, <2>2
    <3>. QED BY <1>7, <2>1, <3>1
  <2>4. ASSUME m = 1
        PROVE  stack'[n + 1] = callee[1]
    <3>1. /\ n + 1 \in 1 .. Len(stack') /\ ~ (n + 1 <= Len(stack) - 1)
          /\ n + 1 - (Len(stack) - 1) = 1
      BY <2>1, <2>2, <2>4
    <3>. QED BY <1>7, <3>1
  <2>5. \A k \in 1 .. Len(stack') : k \in 1 .. n \/ (k = n + 1 /\ m = 1)
    BY <2>1, <2>2
  <2>6. ASSUME NEW k \in 1 .. n
        PROVE  /\ k < Len(stack) /\ stack'[k].at = stack[k].at
               /\ stack'[k].payload = stack[k].payload /\ stack'[k].next = stack[k].next
    BY <1>3, <2>2, <2>3
  <2>7. ASSUME m = 1
        PROVE  /\ n + 1 = Len(stack) /\ n + 1 = Len(stack')
               /\ stack'[n + 1] \in {Notify(Preferred), Message(Preferred)}
    BY <1>6, <2>1, <2>2, <2>4, <2>7
  <2>. QED BY <2>5, <2>6, <2>7
<1>9. ASSUME NEW k \in Rounds'
      PROVE  \/ /\ k < Len(stack) /\ k \in Rounds /\ stack'[k].at = stack[k].at
                /\ stack'[k].payload = stack[k].payload /\ stack'[k].next = stack[k].next
             \/ k = Len(stack) /\ k = Len(stack') /\ stack'[k] = Notify(Preferred)
  <2>1. k \in 1 .. Len(stack') /\ stack'[k].at = "notify"
    BY DEF Rounds
  <2>. QED BY <1>2, <1>5, <1>8, <2>1 DEF Rounds
<1>10. EventTypes' /\ SubscribedOnce'
  BY <1>1, <1>7 DEF EventInv, Nested, EventTypes, SubscribedOnce
<1>11. CallFirst'
  <2>. SUFFICES ASSUME NEW k \in 1 .. Len(stack'), stack'[k].at = "call"
                PROVE  k = 1
    BY DEF CallFirst
  <2>1. stack'[k] \notin {Notify(Preferred), Message(Preferred)}
    BY <1>5
  <2>2. k < Len(stack) /\ stack[k].at = "call"
    BY <1>8, <2>1
  <2>3. k \in 1 .. Len(stack)
    BY <1>2, <2>2
  <2>. QED BY <2>2, <2>3 DEF EventInv, Nested, CallFirst
<1>12. TwoRounds'
  <2>1. \A i, j \in Rounds : i = j
    BY DEF EventInv, Nested, TwoRounds
  <2>2. ASSUME NEW i \in Rounds', NEW j \in Rounds', NEW l \in Rounds'
        PROVE  i = j \/ j = l \/ i = l
    BY <1>9, <2>1
  <2>. QED BY <2>2 DEF TwoRounds
<1>13. StalePastASetter'
  <2>. SUFFICES ASSUME NEW k \in Rounds', k # Len(stack') \/ stack'[k].payload # value'
                PROVE  PastASetter(stack'[k].next)
    BY DEF StalePastASetter, PastASetter
  <2>1. k \in Rounds /\ k # Len(stack) /\ stack'[k].next = stack[k].next
    <3>1. ~ (k = Len(stack') /\ stack'[k] = Notify(Preferred))
      BY <1>5
    <3>2. k < Len(stack) /\ k \in Rounds /\ stack'[k].next = stack[k].next
      BY <1>9, <3>1
    <3>. QED BY <1>2, <3>2
  <2>2. PastASetter(stack[k].next)
    BY <2>1 DEF EventInv, Nested, StalePastASetter
  <2>. QED BY <2>1, <2>2 DEF PastASetter
<1>14. ASSUME Fits PROVE Told'
  <2>. SUFFICES ASSUME event_handler = "bridge" PROVE Told'
    BY DEF Told, ToldOrToBeTold, KnowsOrToBeTold
  <2>1. Len(callee) = 1 /\ callee[1] = Notify(Preferred)
    BY <1>4, <1>6, <1>14
  <2>2. Len(stack') = Len(stack) /\ stack'[Len(stack)] = Notify(Preferred)
    BY <1>2, <1>7, <2>1
  <2>3. Len(stack) \in Rounds'
    BY <1>2, <1>5, <2>2 DEF Rounds
  <2>4. Len(subscriptions) \in Nat
    BY Typed DEF EventInv, Nested
  <2>5. \A i \in 1 .. Len(subscriptions) : \E k \in Rounds' :
          stack'[k].fresh /\ stack'[k].payload = value' /\ stack'[k].next <= i
    <3>1. stack'[Len(stack)].fresh /\ stack'[Len(stack)].payload = value'
      BY <1>5, <2>2
    <3>2. \A i \in 1 .. Len(subscriptions) : stack'[Len(stack)].next <= i
      BY <1>5, <2>2, <2>4
    <3>. QED BY <2>3, <3>1, <3>2
  <2>. QED BY <2>5 DEF Told, ToldOrToBeTold, KnowsOrToBeTold
<1>. QED BY <1>10, <1>11, <1>12, <1>13, <1>14 DEF EventInv, Nested

LEMMA CallsNext ==
  ASSUME EventInv, call_subscriber, UNCHANGED event_handler
  PROVE  EventInv'
<1>. DEFINE n == Len(stack)
            s == subscriptions[Top.next]
            told == [Top EXCEPT !.next = @ + 1]
            callee == IF s \in Setters THEN <<HandlerRun>> ELSE <<>>
<1>1. /\ n \in Nat /\ n > 0 /\ Top = stack[n] /\ Top \in Frame /\ Top.at = "notify"
      /\ Front(stack) \in Seq(Frame) /\ Len(Front(stack)) = n - 1
      /\ \A k \in 1 .. n - 1 : Front(stack)[k] = stack[k]
  BY FrontFacts DEF EventInv, Nested, EventTypes, call_subscriber, At, AtRest, Top
<1>2. /\ Top.next \in Nat /\ Top.next >= 1 /\ Top.next <= Len(subscriptions) /\ Len(subscriptions) \in Nat
      /\ Top.payload \in Values
  BY <1>1, Typed DEF EventInv, Nested, Frame, call_subscriber, More
<1>3. /\ told \in Frame /\ told.at = "notify" /\ told.next = Top.next + 1
      /\ told.payload = Top.payload /\ told.fresh = Top.fresh
  <2>1. PICK f \in Frame : f = Top
    BY <1>1
  <2>2. told = [f EXCEPT !.next = f.next + 1]
    BY <2>1
  <2>. QED BY <1>1, <2>1, <2>2 DEF Frame
<1>4. HandlerRun \in Frame /\ HandlerRun.at = "handler"
  BY EventsAssumption DEF HandlerRun, Frame
<1>5. /\ callee \in Seq(Frame) /\ Len(callee) \in 0 .. 1
      /\ \A k \in 1 .. Len(callee) : callee[k] = HandlerRun
      /\ Len(callee) = 1 => s \in Setters
  <2>1. /\ callee \in Seq(Frame) /\ Len(callee) \in 0 .. 1
        /\ \A k \in 1 .. Len(callee) : callee[k] = HandlerRun
    BY <1>4, AtMostOne
  <2>2. callee = <<>> => Len(callee) = 0
    BY Chained
  <2>. QED BY <2>1, <2>2
<1>6. /\ belief' = [belief EXCEPT ![s] = Top.payload]
      /\ current' = IF Top.fresh THEN current \union {s} ELSE current
      /\ stack' = Append(Front(stack), told) \o callee
      /\ UNCHANGED <<value, subscriptions, via>>
  BY DEF call_subscriber
<1>. HIDE DEF n, s, told, callee
<1>7. /\ Append(Front(stack), told) \in Seq(Frame) /\ Len(Append(Front(stack), told)) = n
      /\ \A k \in 1 .. n - 1 : Append(Front(stack), told)[k] = stack[k]
      /\ Append(Front(stack), told)[n] = told
  BY <1>1, <1>3, AppendProperties
<1>8. /\ stack' \in Seq(Frame) /\ Len(stack') = n + Len(callee)
      /\ \A k \in 1 .. Len(stack') : stack'[k] =
           IF k <= n THEN Append(Front(stack), told)[k] ELSE callee[k - n]
  <2>1. PICK st \in Seq(Frame) : st = Append(Front(stack), told) /\ Len(st) = n
    BY <1>7
  <2>2. stack' = st \o callee
    BY <1>6, <2>1
  <2>3. /\ st \o callee \in Seq(Frame) /\ Len(st \o callee) = Len(st) + Len(callee)
        /\ \A k \in 1 .. Len(st) + Len(callee) : (st \o callee)[k] =
             IF k <= Len(st) THEN st[k] ELSE callee[k - Len(st)]
    BY <1>5, <2>1, ConcatProperties
  <2>. QED BY <2>1, <2>2, <2>3
<1>9. /\ \A k \in 1 .. n - 1 : stack'[k] = stack[k]
      /\ stack'[n] = told
      /\ \A k \in 1 .. Len(stack') : k > n => stack'[k] = HandlerRun
      /\ Len(stack') >= n /\ Len(stack') \in Nat
      /\ Len(stack') > n => s \in Setters
  <2>1. n \in Nat /\ n > 0 /\ Len(callee) \in 0 .. 1 /\ Len(stack') = n + Len(callee)
    BY <1>1, <1>5, <1>8
  <2>2. \A k \in 1 .. n : stack'[k] = Append(Front(stack), told)[k]
    <3>1. \A k \in 1 .. n : k \in 1 .. Len(stack') /\ k <= n
      BY <2>1
    <3>. QED BY <1>8, <3>1
  <2>3. ASSUME NEW k \in 1 .. Len(stack'), k > n PROVE stack'[k] = HandlerRun
    <3>1. stack'[k] = callee[1] /\ Len(callee) = 1
      BY <1>8, <2>1, <2>3
    <3>. QED BY <1>5, <3>1
  <2>4. \A k \in 1 .. n - 1 : k \in 1 .. n
    BY <2>1
  <2>. QED BY <1>5, <1>7, <2>1, <2>2, <2>3, <2>4
<1>10. Rounds' = Rounds /\ n \in Rounds /\ \A k \in Rounds : k \in 1 .. n
  BY <1>1, <1>3, <1>4, <1>9 DEF Rounds, n
<1>11. SubscribedOnce' /\ s \in Subscribers /\ EventTypes'
  <2>1. s \in Subscribers
    BY <1>2, Typed DEF EventInv, Nested, s
  <2>. QED BY <1>2, <1>6, <1>8, <2>1 DEF EventInv, Nested, EventTypes, SubscribedOnce
<1>12. CallFirst'
  BY <1>1, <1>3, <1>4, <1>9 DEF EventInv, Nested, CallFirst, n
<1>13. TwoRounds'
  BY <1>6, <1>10 DEF EventInv, Nested, TwoRounds
<1>14. StalePastASetter'
  <2>. SUFFICES ASSUME NEW k \in Rounds, k # Len(stack') \/ stack'[k].payload # value
                PROVE  PastASetter(stack'[k].next)
    BY <1>6, <1>10 DEF StalePastASetter, PastASetter
  <2>1. CASE k = n
    <3>1. stack'[k].next = Top.next + 1
      BY <1>3, <1>9, <2>1
    <3>2. CASE Len(stack') > n
      BY <1>2, <1>9, <3>1, <3>2 DEF PastASetter, s
    <3>3. CASE stack[k].payload # value
      <4>1. PastASetter(Top.next)
        BY <1>1, <2>1, <3>3 DEF EventInv, Nested, StalePastASetter
      <4>. QED BY <1>2, <3>1, <4>1 DEF PastASetter
    <3>. QED BY <1>1, <1>3, <1>9, <2>1, <3>2, <3>3
  <2>2. CASE k # n
    <3>1. stack'[k] = stack[k] /\ k # Len(stack)
      BY <1>1, <1>9, <1>10, <2>2 DEF n
    <3>. QED BY <3>1 DEF EventInv, Nested, StalePastASetter
  <2>. QED BY <2>1, <2>2
<1>15. ASSUME Fits, NEW i \in 1 .. Len(subscriptions), via = "bridge"
       PROVE  \/ subscriptions[i] \in current'
              \/ \E k \in Rounds : stack'[k].fresh /\ stack'[k].next <= i
  <2>1. i \in Nat /\ subscriptions[i] \in Subscribers
    BY Typed DEF EventInv, Nested
  <2>2. CASE subscriptions[i] \in current
    BY <1>6, <2>2
  <2>3. ASSUME NEW k \in Rounds, stack[k].fresh, stack[k].next <= i
        PROVE  \/ subscriptions[i] \in current'
               \/ \E l \in Rounds : stack'[l].fresh /\ stack'[l].next <= i
    <3>1. CASE k = n /\ Top.next = i
      BY <1>1, <1>6, <2>3, <3>1 DEF s
    <3>2. CASE k = n /\ Top.next # i
      BY <1>1, <1>2, <1>3, <1>9, <2>1, <2>3, <3>2
    <3>3. CASE k # n
      BY <1>1, <1>9, <1>10, <2>3, <3>3
    <3>. QED BY <3>1, <3>2, <3>3
  <2>. QED BY <1>15, <2>2, <2>3 DEF EventInv, Told, ToldOrToBeTold
<1>16. ASSUME Fits, NEW i \in 1 .. Len(subscriptions), via = "bridge", ~ PastASetter(i)
       PROVE  \/ belief'[subscriptions[i]] = value
              \/ \E k \in Rounds : stack'[k].payload = value /\ stack'[k].next <= i
  <2>1. i \in Nat /\ subscriptions[i] \in Subscribers /\ belief \in [Subscribers -> Values]
    BY Typed DEF EventInv, Nested, EventTypes
  <2>2. CASE i = Top.next
    <3>1. belief'[subscriptions[i]] = Top.payload
      BY <1>6, <2>1, <2>2 DEF s
    <3>2. Top.payload = value
      <4>. SUFFICES ASSUME Top.payload # value PROVE FALSE
        OBVIOUS
      <4>1. PastASetter(Top.next)
        BY <1>1, <1>10 DEF EventInv, Nested, StalePastASetter
      <4>. QED BY <1>16, <2>2, <4>1
    <3>. QED BY <3>1, <3>2
  <2>3. CASE i # Top.next
    <3>1. s # subscriptions[i]
      BY <1>2, <2>3 DEF EventInv, Nested, SubscribedOnce, s
    <3>2. belief'[subscriptions[i]] = belief[subscriptions[i]]
      BY <1>6, <2>1, <3>1
    <3>3. ASSUME NEW k \in Rounds, stack[k].payload = value, stack[k].next <= i
          PROVE  stack'[k].payload = value /\ stack'[k].next <= i
      BY <1>1, <1>2, <1>3, <1>9, <1>10, <2>1, <2>3, <3>3
    <3>. QED BY <1>16, <3>2, <3>3 DEF EventInv, Told, KnowsOrToBeTold
  <2>. QED BY <2>2, <2>3
<1>17. ASSUME Fits PROVE Told'
  <2>1. ToldOrToBeTold'
    BY <1>6, <1>10, <1>15, <1>17 DEF ToldOrToBeTold
  <2>2. KnowsOrToBeTold'
    BY <1>6, <1>10, <1>16, <1>17 DEF KnowsOrToBeTold, PastASetter
  <2>. QED BY <2>1, <2>2 DEF Told
<1>. QED BY <1>11, <1>12, <1>13, <1>14, <1>17 DEF EventInv, Nested

LEMMA Subscribes ==
  ASSUME EventInv, NEW s \in Subscribers, subscribe(s), UNCHANGED event_handler
  PROVE  EventInv'
<1>. DEFINE n == Len(subscriptions)
<1>1. /\ n \in Nat /\ subscriptions \in Seq(Subscribers) /\ Rounds = {} /\ Len(stack) = 0
      /\ \A i \in 1 .. n : subscriptions[i] \in Subscribers
  BY Typed DEF EventInv, Nested, EventTypes, subscribe, Rounds
<1>2. /\ subscriptions' \in Seq(Subscribers) /\ Len(subscriptions') = n + 1
      /\ \A i \in 1 .. n : subscriptions'[i] = subscriptions[i]
      /\ subscriptions'[n + 1] = s
  BY <1>1, AppendProperties DEF subscribe
<1>3. /\ \A i \in 1 .. n : subscriptions[i] # s
      /\ stack' = stack /\ value' = value /\ via' = via
      /\ belief' = [belief EXCEPT ![s] = value]
      /\ current' = current \union {s}
  <2>1. DOMAIN subscriptions = 1 .. n
    BY <1>1, LenProperties
  <2>. QED BY <2>1 DEF subscribe, Subscribed, ToSet
<1>. HIDE DEF n
<1>4. Rounds' = {} /\ \A i \in 1 .. n + 1 : i \in 1 .. n \/ i = n + 1
  BY <1>1, <1>3 DEF Rounds
<1>5. EventTypes'
  BY <1>2, <1>3 DEF EventInv, Nested, EventTypes
<1>6. SubscribedOnce'
  <2>1. \A i, j \in 1 .. n : subscriptions[i] = subscriptions[j] => i = j
    BY DEF EventInv, Nested, SubscribedOnce, n
  <2>2. ASSUME NEW i \in 1 .. n + 1, NEW j \in 1 .. n + 1, subscriptions'[i] = subscriptions'[j]
        PROVE  i = j
    BY <1>2, <1>3, <1>4, <2>1, <2>2
  <2>. QED BY <1>2, <2>2 DEF SubscribedOnce
<1>7. CallFirst'
  BY <1>3 DEF EventInv, Nested, CallFirst
<1>8. TwoRounds' /\ StalePastASetter'
  BY <1>4 DEF TwoRounds, StalePastASetter
<1>9. ASSUME Fits PROVE Told'
  <2>1. ASSUME NEW i \in 1 .. n + 1, via = "bridge"
        PROVE  subscriptions'[i] \in current'
    <3>1. \A j \in 1 .. n : subscriptions[j] \in current
      BY <1>1, <1>9, <2>1 DEF EventInv, Told, ToldOrToBeTold, n
    <3>. QED BY <1>2, <1>3, <1>4, <3>1
  <2>2. ASSUME NEW i \in 1 .. n + 1, via = "bridge"
        PROVE  PastASetter(i)' \/ belief'[subscriptions'[i]] = value
    <3>1. CASE i = n + 1
      BY <1>2, <1>3, <3>1 DEF EventInv, Nested, EventTypes
    <3>2. CASE i \in 1 .. n
      <4>1. PastASetter(i) \/ belief[subscriptions[i]] = value
        BY <1>1, <1>9, <2>2, <3>2 DEF EventInv, Told, KnowsOrToBeTold, n
      <4>2. PastASetter(i) => PastASetter(i)'
        <5>1. \A j \in 1 .. i - 1 : j \in 1 .. n
          BY <1>1, <3>2
        <5>. QED BY <1>2, <5>1 DEF PastASetter
      <4>3. belief'[subscriptions'[i]] = belief[subscriptions[i]]
        BY <1>1, <1>2, <1>3, <3>2 DEF EventInv, Nested, EventTypes, n
      <4>. QED BY <4>1, <4>2, <4>3
    <3>. QED BY <1>4, <3>1, <3>2
  <2>3. ToldOrToBeTold'
    BY <1>2, <1>3, <2>1 DEF ToldOrToBeTold
  <2>4. KnowsOrToBeTold'
    BY <1>2, <1>3, <2>2 DEF KnowsOrToBeTold, PastASetter
  <2>. QED BY <2>3, <2>4 DEF Told
<1>. QED BY <1>5, <1>6, <1>7, <1>8, <1>9 DEF EventInv, Nested

LEMMA Unsubscribes ==
  ASSUME EventInv, unsubscribe, UNCHANGED event_handler
  PROVE  EventInv'
<1>1. /\ subscriptions' = <<>> /\ Len(<<>>) = 0 /\ <<>> \in Seq(Subscribers)
      /\ UNCHANGED <<value, stack, belief, current, via>>
  BY EmptySeq DEF unsubscribe
<1>2. Rounds = {} /\ Rounds' = {}
  BY <1>1, Typed DEF EventInv, Nested, unsubscribe, Rounds
<1>3. EventTypes' /\ SubscribedOnce' /\ CallFirst'
  BY <1>1 DEF EventInv, Nested, EventTypes, SubscribedOnce, CallFirst
<1>4. TwoRounds' /\ StalePastASetter'
  BY <1>2 DEF TwoRounds, StalePastASetter
<1>5. Told'
  BY <1>1 DEF Told, ToldOrToBeTold, KnowsOrToBeTold
<1>. QED BY <1>3, <1>4, <1>5 DEF EventInv, Nested

(* Handlers of the event come and go while nothing runs.                   *)
LEMMA HandlerChanges ==
  ASSUME EventInv, UNCHANGED <<value, subscriptions, stack, belief, current, via>>,
         event_handler' \in {"bridge", "message", "none"}
  PROVE  EventInv'
<1>1. Rounds' = Rounds
  BY DEF Rounds
<1>2. Nested'
  BY <1>1 DEF EventInv, Nested, EventTypes, SubscribedOnce, CallFirst, TwoRounds,
              StalePastASetter, PastASetter
<1>3. Fits => Told'
  BY <1>1 DEF EventInv, Told, ToldOrToBeTold, KnowsOrToBeTold, PastASetter
<1>. QED BY <1>2, <1>3 DEF EventInv

(* set and what calls it, when nothing runs.                               *)
LEMMA Sets ==
  ASSUME EventInv, AtRest, NEW v \in Values, NEW caller \in {<<>>, <<Call(v)>>},
         attribute_set(v, stack, caller), UNCHANGED <<subscriptions, belief, event_handler>>
  PROVE  EventInv'
<1>1. /\ skeleton_notify(v) \in {<<>>, <<Notify(v)>>, <<Message(v)>>}
      /\ Fits /\ event_handler = "bridge" => skeleton_notify(v) = <<Notify(v)>>
  BY DEF EventInv, Nested, EventTypes, skeleton_notify, Routed
<1>2. <<>> \o caller = caller /\ caller \o <<>> = caller /\ caller \in Seq(Frame)
  <2>1. Call(v) \in Frame
    BY NewFrames
  <2>2. caller \in Seq(Frame)
    BY <2>1, Chained
  <2>. QED BY <2>2, ConcatEmptySeq
<1>3. Aged(stack) = <<>>
  <2>1. Aged(stack) \in Seq(Frame) /\ Len(Aged(stack)) = 0
    BY AgedFacts, Typed DEF EventInv, Nested, EventTypes
  <2>. QED BY <2>1, EmptySeq
<1>4. CASE v # value
  <2>1. stack' = caller \o skeleton_notify(v) /\ current' = {} /\ via' = event_handler
    BY <1>2, <1>3, <1>4 DEF attribute_set
  <2>2. /\ Beginning(stack', v)
        /\ skeleton_notify(v) = <<Notify(v)>> => Len(stack') > 0 /\ stack'[Len(stack')] = Notify(v)
    BY <1>1, <2>1, Begins
  <2>. QED BY <1>1, <2>1, <2>2, BeginsRound DEF attribute_set
<1>5. CASE v = value
  <2>1. stack' = caller \o <<>> /\ UNCHANGED <<current, via>>
    BY <1>2, <1>5 DEF attribute_set, AtRest
  <2>2. Beginning(stack', v)
    BY <2>1, Begins
  <2>. QED BY <1>5, <2>1, <2>2, BeginsRound DEF attribute_set
<1>. QED BY <1>4, <1>5

(* And a notification of the value as it is.                               *)
LEMMA Forced ==
  ASSUME EventInv, AtRest, stack' \in {<<>>, <<Notify(value)>>, <<Message(value)>>},
         UNCHANGED <<value, subscriptions, belief, event_handler, current, via>>
  PROVE  EventInv'
<1>1. value \in Values
  BY DEF EventInv, Nested, EventTypes
<1>2. <<>> \o stack' = stack'
  <2>1. Notify(value) \in Frame /\ Message(value) \in Frame
    BY <1>1, NewFrames
  <2>2. /\ <<Notify(value)>> \in Seq(Frame) /\ <<Message(value)>> \in Seq(Frame)
        /\ <<>> \in Seq(Frame)
    BY <2>1, Chained
  <2>. QED BY <2>2, ConcatEmptySeq
<1>3. Beginning(<<>> \o stack', value)
  BY <1>1, Begins
<1>. QED BY <1>1, <1>2, <1>3, BeginsRound

LEMMA EventsNext ==
  ASSUME EventInv, Next
  PROVE  EventInv'
<1>1. UNCHANGED event_handler
  BY DEF Next
<1>2. ASSUME NEW s \in Subscribers, subscribe(s) PROVE EventInv'
  BY <1>1, <1>2, Subscribes
<1>3. CASE unsubscribe
  BY <1>1, <1>3, Unsubscribes
<1>4. ASSUME NEW v \in Values, set(v) PROVE EventInv'
  BY <1>1, <1>4, Sets DEF set
<1>5. ASSUME NEW v \in Values, proxy_set(v) PROVE EventInv'
  BY <1>1, <1>5, Sets DEF proxy_set
<1>6. CASE notify
  <2>1. stack' \in {<<>>, <<Notify(value)>>, <<Message(value)>>}
    BY <1>6 DEF EventInv, Nested, EventTypes, notify, skeleton_notify, Routed
  <2>. QED BY <1>1, <1>6, <2>1, Forced DEF notify
<1>7. CASE answer
  BY <1>1, <1>7, Returns DEF answer, At
<1>8. CASE call_subscriber
  BY <1>1, <1>8, CallsNext
<1>9. CASE notify_returns
  <2>1. Len(stack) > 0 /\ Top \in Frame /\ Len(subscriptions) \in Nat
    BY <1>9, FrontFacts, Typed DEF EventInv, Nested, EventTypes, notify_returns, At, AtRest, Top
  <2>2. Top.next > Len(subscriptions)
    BY <1>9, <2>1 DEF notify_returns, More, Frame
  <2>. QED BY <1>1, <1>9, <2>2, Returns DEF notify_returns, At
<1>10. CASE handler_sets
  <2>1. CASE value # Preferred
    <3>1. <<>> \o skeleton_notify(Preferred) = skeleton_notify(Preferred)
          /\ Aged(Front(stack)) \o <<>> = Aged(Front(stack))
      <4>1. skeleton_notify(Preferred) \in Seq(Frame)
        <5>1. skeleton_notify(Preferred) \in {<<>>, <<Notify(Preferred)>>, <<Message(Preferred)>>}
          BY DEF EventInv, Nested, EventTypes, skeleton_notify, Routed
        <5>2. Notify(Preferred) \in Frame /\ Message(Preferred) \in Frame
          BY EventsAssumption, NewFrames
        <5>3. /\ <<Notify(Preferred)>> \in Seq(Frame)
              /\ <<Message(Preferred)>> \in Seq(Frame)
              /\ <<>> \in Seq(Frame)
          BY <5>2, Chained
        <5>. QED BY <5>1, <5>3
      <4>2. Aged(Front(stack)) \in Seq(Frame)
        BY <1>10, FrontFacts, AgedFacts DEF EventInv, Nested, EventTypes, handler_sets, At, AtRest
      <4>. QED BY <4>1, <4>2, ConcatEmptySeq
    <3>. QED BY <1>1, <1>10, <2>1, <3>1, ChangesInside DEF handler_sets, attribute_set
  <2>2. CASE value = Preferred
    <3>1. Front(stack) \o <<>> = Front(stack)
      BY <1>10, FrontFacts, ConcatEmptySeq DEF EventInv, Nested, EventTypes, handler_sets, At, AtRest
    <3>. QED BY <1>1, <1>10, <2>2, <3>1, Returns DEF handler_sets, attribute_set, At
  <2>. QED BY <2>1, <2>2
<1>. QED BY <1>2, <1>3, <1>4, <1>5, <1>6, <1>7, <1>8, <1>9, <1>10 DEF Next
-----------------------------------------------------------------------------
(* Requests and their sessions.  A session number is taken by the call     *)
(* that is the so-manieth to be made.                                      *)
Made == {c \in Calls : call[c] # "idle"}

CallTypes ==
  /\ method_handler \in Instances \union {None}
  /\ held \subseteq [session : 0 .. MaxSession, by : Calls \union {Vsomeip}]
  /\ pending \in [0 .. MaxSession -> Calls \union {None}]
  /\ session = (Cardinality(Made) % MaxSession) + 1
  /\ call \in [Calls -> {"idle", "waiting", "done"}]
  /\ answered \in [Calls -> Calls \union {Vsomeip, None}]

(* A slot that is taken is that of one of the calls made so far, which     *)
(* waits, and no call has two.                                             *)
SlotsTaken ==
  \A s \in 0 .. MaxSession : pending[s] # None =>
    /\ call[pending[s]] = "waiting" /\ s \in 1 .. Cardinality(Made)
    /\ \A t \in 0 .. MaxSession : pending[t] = pending[s] => t = s

(* A request of a call has its slot, and one of vsomeip-style code none.   *)
HeldInSlot ==
  \A m \in held : IF m.by = Vsomeip THEN m.session = 0 ELSE pending[m.session] = m.by

CallInv == CallTypes /\ SlotsTaken /\ HeldInSlot /\ AnswersReachTheirCalls
IInv    == EventInv /\ CallInv

LEMMA OneMore ==
  ASSUME CallTypes, NEW c \in Calls, call[c] = "idle", call' = [call EXCEPT ![c] = "waiting"]
  PROVE  /\ Cardinality(Made) \in Nat /\ Cardinality(Made) < MaxSession
         /\ session = Cardinality(Made) + 1
         /\ Cardinality(Made') = Cardinality(Made) + 1
<1>1. Made \in SUBSET Calls /\ c \notin Made /\ IsFiniteSet(Calls) /\ MaxSession \in Nat
  BY CompatAssumption DEF Made
<1>2. IsFiniteSet(Made) /\ Cardinality(Made) \in Nat
  BY <1>1, FS_Subset, FS_CardinalityType
<1>3. Made' = Made \union {c}
  BY DEF CallTypes, Made
<1>4. IsFiniteSet(Made') /\ Cardinality(Made') = Cardinality(Made) + 1
  BY <1>1, <1>2, <1>3, FS_AddElement
<1>5. Made' \in SUBSET Calls
  BY <1>1, <1>3
<1>6. Cardinality(Made') <= Cardinality(Calls) /\ Cardinality(Calls) \in Nat
  BY <1>1, <1>5, FS_Subset, FS_CardinalityType
<1>7. Cardinality(Made) < MaxSession
  BY <1>1, <1>2, <1>4, <1>6, CompatAssumption
<1>8. \A n \in Nat : n < MaxSession => n % MaxSession = n
  BY <1>1
<1>. QED BY <1>2, <1>4, <1>7, <1>8 DEF CallTypes

LEMMA SameMade ==
  ASSUME NEW c \in Calls, call \in [Calls -> {"idle", "waiting", "done"}],
         call[c] = "waiting", call' = [call EXCEPT ![c] = "done"]
  PROVE  Made' = Made
BY DEF Made

LEMMA CallsAsync ==
  ASSUME CallInv, NEW c \in Calls, async_call(c)
  PROVE  CallInv'
<1>. DEFINE n == Cardinality(Made)
<1>1. /\ n \in Nat /\ n < MaxSession /\ session = n + 1 /\ Cardinality(Made') = n + 1
      /\ MaxSession \in Nat
  BY OneMore, CompatAssumption DEF CallInv, async_call
<1>2. /\ call' = [call EXCEPT ![c] = "waiting"] /\ call[c] = "idle"
      /\ session' = (session % MaxSession) + 1
      /\ pending' = [pending EXCEPT ![session] = c]
      /\ UNCHANGED <<method_handler, answered>>
  BY DEF async_call
<1>3. \/ /\ method_handler = None /\ held' = held /\ unheard' = unheard \union {c}
      \/ /\ method_handler # None /\ unheard' = unheard
         /\ held' = held \union {[session |-> session, by |-> c]}
  BY DEF async_call, Keep
<1>. HIDE DEF n
<1>4. session \in 1 .. MaxSession /\ session \in 0 .. MaxSession
  BY <1>1
<1>5. CallTypes'
  <2>1. [session |-> session, by |-> c] \in [session : 0 .. MaxSession, by : Calls \union {Vsomeip}]
    BY <1>4
  <2>2. held' \subseteq [session : 0 .. MaxSession, by : Calls \union {Vsomeip}]
    BY <1>3, <2>1 DEF CallInv, CallTypes
  <2>3. session' = (Cardinality(Made') % MaxSession) + 1
    BY <1>1, <1>2
  <2>. QED BY <1>2, <1>4, <2>2, <2>3 DEF CallInv, CallTypes
<1>6. /\ pending[session] = None
      /\ \A s \in 0 .. MaxSession : pending[s] # c
  <2>1. c # None
    BY CompatAssumption
  <2>. QED BY <1>1, <1>2, <1>4, <2>1 DEF CallInv, SlotsTaken, n
<1>7. SlotsTaken'
  <2>. SUFFICES ASSUME NEW s \in 0 .. MaxSession, pending'[s] # None
                PROVE  /\ call'[pending'[s]] = "waiting" /\ s \in 1 .. n + 1
                       /\ \A t \in 0 .. MaxSession : pending'[t] = pending'[s] => t = s
    BY <1>1 DEF SlotsTaken
  <2>1. CASE s = session
    BY <1>1, <1>2, <1>4, <1>6, <2>1 DEF CallInv, CallTypes
  <2>2. CASE s # session
    <3>1. pending'[s] = pending[s] /\ pending[s] \in Calls /\ pending[s] # c
      BY <1>2, <1>4, <1>6, <2>2 DEF CallInv, CallTypes
    <3>2. call[pending[s]] = "waiting" /\ s \in 1 .. n
      BY <3>1 DEF CallInv, SlotsTaken, n
    <3>3. \A t \in 0 .. MaxSession : pending'[t] = pending'[s] => t = s
      BY <1>2, <1>4, <3>1 DEF CallInv, CallTypes, SlotsTaken
    <3>. QED BY <1>1, <1>2, <3>1, <3>2, <3>3 DEF CallInv, CallTypes
  <2>. QED BY <2>1, <2>2
<1>8. HeldInSlot'
  <2>. SUFFICES ASSUME NEW m \in held'
                PROVE  IF m.by = Vsomeip THEN m.session = 0 ELSE pending'[m.session] = m.by
    BY DEF HeldInSlot
  <2>1. CASE m \in held
    <3>1. /\ m.session \in 0 .. MaxSession /\ m.by \in Calls \union {Vsomeip}
          /\ IF m.by = Vsomeip THEN m.session = 0 ELSE pending[m.session] = m.by
      BY <2>1 DEF CallInv, CallTypes, HeldInSlot
    <3>2. m.by # Vsomeip => m.session # session
      BY <1>6, <3>1, CompatAssumption
    <3>. QED BY <1>2, <1>4, <3>1, <3>2 DEF CallInv, CallTypes
  <2>2. CASE m = [session |-> session, by |-> c]
    BY <1>2, <1>4, <2>2, CompatAssumption DEF CallInv, CallTypes
  <2>. QED BY <1>3, <2>1, <2>2
<1>9. AnswersReachTheirCalls'
  <2>. SUFFICES ASSUME NEW d \in Calls
                PROVE  /\ call'[d] = "done" => answered'[d] = d
                       /\ call'[d] = "waiting" => d \in unheard' \/ \E m \in held' : m.by = d
    BY DEF AnswersReachTheirCalls
  <2>1. CASE d = c
    <3>1. call'[d] = "waiting"
      BY <1>2, <2>1 DEF CallInv, CallTypes
    <3>2. [session |-> session, by |-> c].by = c
      OBVIOUS
    <3>. QED BY <1>3, <2>1, <3>1, <3>2
  <2>2. CASE d # c
    BY <1>2, <1>3, <2>2 DEF CallInv, CallTypes, AnswersReachTheirCalls
  <2>. QED BY <2>1, <2>2
<1>. QED BY <1>5, <1>7, <1>8, <1>9 DEF CallInv

LEMMA SendsRequest ==
  ASSUME CallInv, send_request
  PROVE  CallInv'
<1>. DEFINE req == [session |-> 0, by |-> Vsomeip]
<1>1. /\ held' = held \/ held' = held \union {req}
      /\ UNCHANGED <<method_handler, pending, session, call, answered, unheard>>
  BY DEF send_request, Keep, create_request, message, callVars
<1>2. req \in [session : 0 .. MaxSession, by : Calls \union {Vsomeip}]
      /\ req.by = Vsomeip /\ req.session = 0
  BY CompatAssumption
<1>. HIDE DEF req
<1>3. Made' = Made
  BY <1>1 DEF Made
<1>4. CallTypes'
  BY <1>1, <1>2, <1>3 DEF CallInv, CallTypes
<1>5. SlotsTaken' /\ HeldInSlot'
  BY <1>1, <1>2, <1>3 DEF CallInv, SlotsTaken, HeldInSlot
<1>6. AnswersReachTheirCalls'
  BY <1>1 DEF CallInv, AnswersReachTheirCalls
<1>. QED BY <1>4, <1>5, <1>6 DEF CallInv

LEMMA SendsResponse ==
  ASSUME CallInv, NEW m \in held, send_response(m)
  PROVE  CallInv'
<1>. DEFINE c == pending[m.session]
<1>1. /\ m.session \in 0 .. MaxSession /\ m.by \in Calls \union {Vsomeip}
      /\ IF m.by = Vsomeip THEN m.session = 0 ELSE c = m.by
      /\ c \in Calls \union {None}
  BY DEF CallInv, CallTypes, HeldInSlot
<1>2. create_response(m).session = m.session /\ create_response(m).by = m.by
  BY DEF create_response, message
<1>3. /\ held' = held \ {m} /\ UNCHANGED <<method_handler, session, unheard>>
      /\ \/ /\ c # None
            /\ pending' = [pending EXCEPT ![m.session] = None]
            /\ call' = [call EXCEPT ![c] = "done"]
            /\ answered' = [answered EXCEPT ![c] = m.by]
         \/ c = None /\ UNCHANGED <<pending, call, answered>>
  BY <1>2 DEF send_response
<1>4. pending[0] = None
  BY CompatAssumption DEF CallInv, SlotsTaken
<1>. HIDE DEF c
<1>5. CASE m.by = Vsomeip
  <2>1. c = None /\ UNCHANGED <<pending, call, answered>> /\ Made' = Made
    BY <1>1, <1>3, <1>4, <1>5 DEF c, Made
  <2>2. CallTypes' /\ SlotsTaken' /\ HeldInSlot'
    BY <1>3, <2>1 DEF CallInv, CallTypes, SlotsTaken, HeldInSlot
  <2>3. AnswersReachTheirCalls'
    BY <1>3, <1>5, <2>1, CompatAssumption DEF CallInv, AnswersReachTheirCalls
  <2>. QED BY <2>2, <2>3 DEF CallInv
<1>6. CASE m.by # Vsomeip
  <2>1. c = m.by /\ c \in Calls /\ c # None
    BY <1>1, <1>6, CompatAssumption
  <2>2. /\ pending' = [pending EXCEPT ![m.session] = None]
        /\ call' = [call EXCEPT ![c] = "done"]
        /\ answered' = [answered EXCEPT ![c] = c]
    BY <1>3, <2>1
  <2>3. /\ call[c] = "waiting"
        /\ \A t \in 0 .. MaxSession : pending[t] = c => t = m.session
    BY <1>1, <2>1 DEF CallInv, SlotsTaken, c
  <2>4. Made' = Made
    BY <2>1, <2>2, <2>3, SameMade DEF CallInv, CallTypes
  <2>5. CallTypes'
    BY <1>3, <2>1, <2>2, <2>4 DEF CallInv, CallTypes
  <2>6. SlotsTaken'
    <3>. SUFFICES ASSUME NEW s \in 0 .. MaxSession, pending'[s] # None
                  PROVE  /\ call'[pending'[s]] = "waiting" /\ s \in 1 .. Cardinality(Made)
                         /\ \A t \in 0 .. MaxSession : pending'[t] = pending'[s] => t = s
      BY <2>4 DEF SlotsTaken
    <3>1. s # m.session /\ pending'[s] = pending[s] /\ pending[s] # c /\ pending[s] \in Calls
      BY <1>1, <2>2, <2>3 DEF CallInv, CallTypes
    <3>2. /\ call[pending[s]] = "waiting" /\ s \in 1 .. Cardinality(Made)
          /\ \A t \in 0 .. MaxSession : pending[t] = pending[s] => t = s
      BY <3>1 DEF CallInv, SlotsTaken
    <3>3. \A t \in 0 .. MaxSession : pending'[t] = pending[t] \/ pending'[t] = None
      BY <2>2 DEF CallInv, CallTypes
    <3>4. call'[pending[s]] = "waiting"
      BY <2>2, <3>1, <3>2 DEF CallInv, CallTypes
    <3>. QED BY <3>1, <3>2, <3>3, <3>4
  <2>7. HeldInSlot'
    <3>. SUFFICES ASSUME NEW q \in held, q # m
                  PROVE  IF q.by = Vsomeip THEN q.session = 0 ELSE pending'[q.session] = q.by
      BY <1>3 DEF HeldInSlot
    <3>1. /\ q \in [session : 0 .. MaxSession, by : Calls \union {Vsomeip}]
          /\ m \in [session : 0 .. MaxSession, by : Calls \union {Vsomeip}]
          /\ IF q.by = Vsomeip THEN q.session = 0 ELSE pending[q.session] = q.by
      BY DEF CallInv, CallTypes, HeldInSlot
    <3>2. q.by # Vsomeip => q.session # m.session
      BY <2>1, <3>1 DEF c
    <3>. QED BY <1>1, <2>2, <3>1, <3>2 DEF CallInv, CallTypes
  <2>8. AnswersReachTheirCalls'
    <3>. SUFFICES ASSUME NEW d \in Calls
                  PROVE  /\ call'[d] = "done" => answered'[d] = d
                         /\ call'[d] = "waiting" => d \in unheard' \/ \E q \in held' : q.by = d
      BY DEF AnswersReachTheirCalls
    <3>1. CASE d = c
      BY <2>2, <3>1 DEF CallInv, CallTypes
    <3>2. CASE d # c
      BY <1>3, <2>1, <2>2, <3>2 DEF CallInv, CallTypes, AnswersReachTheirCalls
    <3>. QED BY <3>1, <3>2
  <2>. QED BY <2>5, <2>6, <2>7, <2>8 DEF CallInv
<1>. QED BY <1>5, <1>6
-----------------------------------------------------------------------------
LEMMA InitIInv == CompatInit => IInv
<1>. SUFFICES ASSUME CompatInit PROVE IInv
  OBVIOUS
<1>1. /\ <<>> \in Seq(Frame) /\ <<>> \in Seq(Subscribers) /\ Len(<<>>) = 0
  BY EmptySeq
<1>2. EventTypes
  BY <1>1, EventsAssumption DEF CompatInit, Init, EventTypes
<1>3. Rounds = {} /\ SubscribedOnce /\ CallFirst /\ Told
  BY <1>1 DEF CompatInit, Init, Rounds, SubscribedOnce, CallFirst, Told, ToldOrToBeTold,
              KnowsOrToBeTold
<1>4. EventInv
  BY <1>2, <1>3 DEF EventInv, Nested, TwoRounds, StalePastASetter
<1>5. Made = {} /\ Cardinality({}) = 0 /\ MaxSession \in Nat \ {0}
  BY FS_EmptySet, CompatAssumption DEF CompatInit, Made
<1>6. CallTypes
  <2>1. session = (Cardinality(Made) % MaxSession) + 1
    <3>1. 0 % MaxSession = 0
      BY <1>5
    <3>. QED BY <1>5, <3>1 DEF CompatInit
  <2>. QED BY <2>1 DEF CompatInit, CallTypes
<1>7. SlotsTaken /\ HeldInSlot /\ AnswersReachTheirCalls
  BY DEF CompatInit, SlotsTaken, HeldInSlot, AnswersReachTheirCalls
<1>. QED BY <1>4, <1>6, <1>7 DEF IInv, CallInv

LEMMA CallsStay ==
  ASSUME CallInv, UNCHANGED <<held, callVars>>,
         method_handler' \in Instances \union {None}
  PROVE  CallInv'
<1>1. Made' = Made
  BY DEF callVars, Made
<1>2. CallTypes' /\ SlotsTaken' /\ HeldInSlot'
  BY <1>1 DEF CallInv, callVars, CallTypes, SlotsTaken, HeldInSlot
<1>3. AnswersReachTheirCalls'
  BY DEF CallInv, callVars, AnswersReachTheirCalls
<1>. QED BY <1>2, <1>3 DEF CallInv

LEMMA EventsStay ==
  ASSUME EventInv, UNCHANGED vars
  PROVE  EventInv'
BY HandlerChanges DEF vars, EventInv, Nested, EventTypes

LEMMA NextIInv == IInv /\ [CompatNext]_appVars => IInv'
<1>. SUFFICES ASSUME IInv, [CompatNext]_appVars PROVE IInv'
  OBVIOUS
<1>1. method_handler \in Instances \union {None}
  BY DEF IInv, CallInv, CallTypes
<1>2. CASE Next /\ UNCHANGED compatVars
  BY <1>1, <1>2, EventsNext, CallsStay DEF IInv, compatVars
<1>3. ASSUME NEW i \in Instances, register_message_handler(i) PROVE IInv'
  BY <1>3, EventsStay, CallsStay DEF IInv, register_message_handler
<1>4. CASE unregister_message_handler
  BY <1>4, EventsStay, CallsStay DEF IInv, unregister_message_handler
<1>5. ASSUME NEW handler \in {"bridge", "message", "none"}, register_event_handler(handler)
      PROVE  IInv'
  BY <1>1, <1>5, HandlerChanges, CallsStay DEF IInv, register_event_handler, compatVars
<1>6. CASE event_handler_returns
  <2>1. Top.at = "message" /\ ~ AtRest
    BY <1>6 DEF event_handler_returns, At
  <2>. QED BY <1>1, <1>6, <2>1, Returns, CallsStay DEF IInv, event_handler_returns, compatVars
<1>7. CASE vsomeip_notify
  <2>1. stack' \in {<<>>, <<Notify(value)>>, <<Message(value)>>}
    BY <1>7 DEF IInv, EventInv, Nested, EventTypes, vsomeip_notify, Routed
  <2>. QED BY <1>1, <1>7, <2>1, Forced, CallsStay DEF IInv, vsomeip_notify, compatVars
<1>8. ASSUME NEW c \in Calls, async_call(c) PROVE IInv'
  BY <1>8, EventsStay, CallsAsync DEF IInv, async_call
<1>9. CASE send_request
  BY <1>9, EventsStay, SendsRequest DEF IInv, send_request
<1>10. ASSUME NEW m \in held, send_response(m) PROVE IInv'
  BY <1>10, EventsStay, SendsResponse DEF IInv, send_response
<1>11. CASE UNCHANGED appVars
  BY <1>1, <1>11, EventsStay, CallsStay DEF IInv, appVars, compatVars
<1>. QED BY <1>2, <1>3, <1>4, <1>5, <1>6, <1>7, <1>8, <1>9, <1>10, <1>11 DEF CompatNext

(* The inductive invariant of events, attributes and requests.             *)
THEOREM Invariance == CompatSpec => []IInv
BY InitIInv, NextIInv, PTL DEF CompatSpec

(* attribute::set, skeleton::notify and notify_subscribers: if values are  *)
(* not too large to be sent and a bridge hands events on, every subscriber *)
(* has been told of the last change when the call chain has ended.         *)
THEOREM SubscribersAreTold ==
  ASSUME Fits
  PROVE  CompatSpec => []FollowIfBridged
<1>1. IInv => FollowIfBridged
  <2>. SUFFICES ASSUME IInv, via = "bridge", AtRest, NEW s \in Subscribed
                PROVE  s \in current
    BY DEF FollowIfBridged, SubscribersFollow
  <2>1. Rounds = {} /\ DOMAIN subscriptions = 1 .. Len(subscriptions)
    BY Typed, LenProperties DEF IInv, EventInv, Nested, EventTypes, Rounds
  <2>. QED BY <2>1 DEF IInv, EventInv, Told, ToldOrToBeTold, Subscribed, ToSet
<1>. QED BY <1>1, Invariance, PTL

(* The response to attribute_proxy::set is sent after all of them have.    *)
THEOREM SubscribersAreToldFirst ==
  ASSUME Fits
  PROVE  CompatSpec => []ToldBeforeAnswered
<1>1. IInv => ToldBeforeAnswered
  <2>. SUFFICES ASSUME IInv, via = "bridge", At("call"), NEW s \in Subscribed
                PROVE  s \in current
    BY DEF ToldBeforeAnswered
  <2>1. /\ Len(stack) \in Nat /\ Len(stack) > 0 /\ stack[Len(stack)].at = "call"
        /\ DOMAIN subscriptions = 1 .. Len(subscriptions)
    BY FrontFacts, LenProperties DEF IInv, EventInv, Nested, EventTypes, At, AtRest, Top
  <2>2. Len(stack) = 1
    <3>1. Len(stack) \in 1 .. Len(stack)
      BY <2>1
    <3>. QED BY <2>1, <3>1 DEF IInv, EventInv, Nested, CallFirst
  <2>3. Rounds = {}
    BY <2>1, <2>2 DEF Rounds
  <2>. QED BY <2>1, <2>3 DEF IInv, EventInv, Told, ToldOrToBeTold, Subscribed, ToSet
<1>. QED BY <1>1, Invariance, PTL

(* And whoever is not behind a subscriber whose handler sets the attribute *)
(* knows its value.                                                        *)
THEOREM FirstKnowTheValue ==
  ASSUME Fits
  PROVE  CompatSpec => []KnowsTheValue
<1>1. IInv => KnowsTheValue
  <2>. SUFFICES ASSUME IInv, via = "bridge", AtRest, NEW i \in 1 .. Len(subscriptions),
                       \A j \in 1 .. i - 1 : subscriptions[j] \notin Setters
                PROVE  belief[subscriptions[i]] = value
    BY DEF KnowsTheValue
  <2>1. Rounds = {}
    BY Typed DEF IInv, EventInv, Nested, Rounds
  <2>. QED BY <2>1 DEF IInv, EventInv, Told, KnowsOrToBeTold, PastASetter
<1>. QED BY <1>1, Invariance, PTL

(* Whatever handlers set, however many: notify_subscribers is at most two  *)
(* deep on the stack.                                                      *)
THEOREM RoundsNestOnce == CompatSpec => []NestsOnce
<1>1. IInv => NestsOnce
  <2>. SUFFICES ASSUME IInv PROVE Cardinality(Rounds) <= 2
    BY DEF NestsOnce
  <2>1. \A i, j, l \in Rounds : i = j \/ j = l \/ i = l
    BY DEF IInv, EventInv, Nested, TwoRounds
  <2>2. CASE Rounds = {}
    BY <2>2, FS_EmptySet
  <2>3. ASSUME NEW i \in Rounds, NEW j \in Rounds PROVE Rounds = {i, j} \/ i = j
    BY <2>1
  <2>4. ASSUME NEW i \in Rounds, \A j \in Rounds : j = i
        PROVE  Cardinality(Rounds) <= 2
    <3>1. Rounds = {i}
      BY <2>4
    <3>. QED BY <3>1, FS_Singleton
  <2>5. ASSUME NEW i \in Rounds, NEW j \in Rounds, i # j
        PROVE  Cardinality(Rounds) <= 2
    <3>1. Rounds = {i} \union {j}
      BY <2>3, <2>5
    <3>2. IsFiniteSet({i}) /\ Cardinality({i}) = 1
      BY FS_Singleton
    <3>. DEFINE first == {i}
    <3>3. j \notin first
      BY <2>5
    <3>. HIDE DEF first
    <3>4. Cardinality(first \union {j}) = Cardinality(first) + 1
      BY <3>2, <3>3, FS_AddElement DEF first
    <3>. QED BY <3>1, <3>2, <3>4 DEF first
  <2>. QED BY <2>2, <2>4, <2>5
<1>. QED BY <1>1, Invariance, PTL

(* async_call, create_response and send: a native call that vsomeip-style  *)
(* code answers completes with the answer to its own request.              *)
THEOREM AnswersReach == CompatSpec => []AnswersReachTheirCalls
BY Invariance, PTL DEF IInv, CallInv
=============================================================================
