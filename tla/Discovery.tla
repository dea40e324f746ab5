----------------------------- MODULE Discovery -----------------------------
(***************************************************************************)
(* The service-discovery state machine (sd::discovery): the offers and the *)
(* finds it keeps, the phases each goes through, and the messages tick()   *)
(* returns, together with a listener that hears them over a lossy network. *)
(*                                                                         *)
(* Time is discrete.  The code keeps the time of the next transmission and *)
(* compares it with now; the model keeps the time that is left until then, *)
(* which is all the comparison can tell.                                   *)
(***************************************************************************)
EXTENDS Integers, Sequences

CONSTANTS
  Services,        \* (service, instance) pairs
  InitialDelay,    \* sd_config::initial_delay_min
  BaseDelay,       \* sd_config::repetition_base_delay
  RepetitionMax,   \* sd_config::repetition_max
  CyclicDelay,     \* sd_config::cyclic_offer_delay
  OfferTtl,        \* sd_config::offer_ttl
  Latency,         \* the event loop calls tick at least this often
  MaxLost,         \* bound: announcements of one offer lost in a row
  MaxOffers,       \* bound: length of offers_
  MaxFinds,        \* bound: length of finds_
  Never            \* no announcement has been heard yet

(* Exponential backoff in the repetition phase: base * 2^(count-1).        *)
Backoff(count) == BaseDelay * 2 ^ (count - 1)

(* The configuration keeps an announcement alive: MaxLost announcements of *)
(* an offer may be lost in a row, each sent up to Latency late.            *)
ASSUME DiscoveryAssumption ==
  /\ InitialDelay \in Nat /\ BaseDelay \in Nat /\ CyclicDelay \in Nat
  /\ RepetitionMax \in Nat
  /\ OfferTtl \in Nat /\ MaxLost \in Nat
  /\ Latency \in Nat /\ Latency > 0
  /\ MaxOffers \in Nat /\ MaxFinds \in Nat
  /\ \A n \in 1 .. RepetitionMax : Backoff(n) \in Nat
  /\ \A d \in {BaseDelay, CyclicDelay} \union {Backoff(n) : n \in 2 .. RepetitionMax - 1} :
       (MaxLost + 1) * (d + Latency) <= OfferTtl
  /\ Never \notin Nat

VARIABLES
  offers,   \* discovery::offers_
  stops,    \* the services in discovery::pending_stop_offers_
  finds,    \* discovery::finds_
  idle,     \* time since the last tick
  visible,  \* services whose last entry the listener heard was an offer
  missed    \* history: services whose last StopOffer was lost

vars == <<offers, stops, finds, idle, visible, missed>>

(* count is repetition_count and wait the time until next_send.  The rest  *)
(* is history: heard is the time since the listener last heard this offer, *)
(* and lost how many announcements it has missed since.                    *)
offer_state(s) == [service |-> s, phase |-> "initial_wait", count |-> 0,
                   wait |-> InitialDelay, heard |-> Never, lost |-> 0]
find_state(s)  == [service |-> s, phase |-> "initial_wait", count |-> 0,
                   wait |-> InitialDelay]

Offered == {offers[i].service : i \in 1 .. Len(offers)}
-----------------------------------------------------------------------------
Init ==
  /\ offers = <<>>
  /\ stops = {}
  /\ finds = <<>>
  /\ idle = 0
  /\ visible = {}
  /\ missed = {}

start_offer(s) ==
  /\ Len(offers) < MaxOffers
  /\ offers' = Append(offers, offer_state(s))
  /\ UNCHANGED <<stops, finds, idle, visible, missed>>

Without(seq, i) == SubSeq(seq, 1, i - 1) \o SubSeq(seq, i + 1, Len(seq))

(* Only the first matching offer is removed.                               *)
stop_offer_Silent(s) ==
  \E i \in 1 .. Len(offers) :
    /\ offers[i].service = s
    /\ offers' = Without(offers, i)
    /\ UNCHANGED <<stops, finds, idle, visible, missed>>
stop_offer(s) ==
  \E i \in 1 .. Len(offers) :
    /\ offers[i].service = s
    /\ \A j \in 1 .. i - 1 : offers[j].service # s
    /\ offers' = Without(offers, i)
    /\ stops' = stops \union {s}
    /\ UNCHANGED <<finds, idle, visible, missed>>

start_find(s) ==
  /\ Len(finds) < MaxFinds
  /\ finds' = Append(finds, find_state(s))
  /\ UNCHANGED <<offers, stops, idle, visible, missed>>

(* Every matching find is removed.                                         *)
stop_find(s) ==
  /\ finds' = SelectSeq(finds, LAMBDA f : f.service # s)
  /\ UNCHANGED <<offers, stops, idle, visible, missed>>

advance_phase_NoMain(o) ==
  CASE o.phase = "initial_wait" ->
         [o EXCEPT !.phase = "repetition", !.count = 1, !.wait = BaseDelay]
    [] OTHER -> [o EXCEPT !.count = @ + 1, !.wait = Backoff(o.count + 1)]
advance_phase(o) ==
  CASE o.phase = "initial_wait" ->
         [o EXCEPT !.phase = "repetition", !.count = 1, !.wait = BaseDelay]
    [] o.phase = "repetition" /\ o.count + 1 >= RepetitionMax ->
         [o EXCEPT !.phase = "main", !.count = @ + 1, !.wait = CyclicDelay]
    [] o.phase = "repetition" /\ o.count + 1 < RepetitionMax ->
         [o EXCEPT !.count = @ + 1, !.wait = Backoff(o.count + 1)]
    [] o.phase = "main" -> [o EXCEPT !.wait = CyclicDelay]

(* A find has no main phase: it stays in the list, and sends no more.      *)
advance_find_phase(f) ==
  CASE f.phase = "initial_wait" ->
         [f EXCEPT !.phase = "repetition", !.count = 1, !.wait = BaseDelay]
    [] f.phase = "repetition" /\ f.count + 1 >= RepetitionMax ->
         [f EXCEPT !.phase = "down", !.count = @ + 1]
    [] f.phase = "repetition" /\ f.count + 1 < RepetitionMax ->
         [f EXCEPT !.count = @ + 1, !.wait = Backoff(f.count + 1)]
    [] f.phase = "down" -> f

Due_NotInitial(o) == o.wait = 0 /\ o.phase # "initial_wait"
Due(o)     == o.wait = 0
Active(f)  == f.phase # "down" /\ f.wait = 0
DueOffers  == {i \in 1 .. Len(offers) : Due(offers[i])}
Announced  == {offers[i].service : i \in DueOffers}

(* What the listener makes of a message: its entries are applied in order, *)
(* and tick puts the queued StopOffers before the offers.                  *)
Apply_OffersFirst(view) == (view \union Announced) \ stops
Apply(view) == (view \ stops) \union Announced

Announce(o, lost) ==
  IF ~ Due(o) THEN o
  ELSE [advance_phase(o) EXCEPT !.heard = IF lost THEN @ ELSE 0,
                                !.lost = IF lost THEN @ + 1 ELSE 0]
Search(f) ==
  IF ~ Active(f) THEN f ELSE advance_find_phase(f)

(* One tick: at most one message with the StopOffers and the offers, which *)
(* the network may lose, and one with the finds.                           *)
tick(lost) ==
  /\ lost => /\ stops # {} \/ Announced # {}
             /\ \A i \in DueOffers : offers[i].lost < MaxLost
  /\ offers' = [i \in 1 .. Len(offers) |-> Announce(offers[i], lost)]
  /\ stops' = {}
  /\ finds' = [i \in 1 .. Len(finds) |-> Search(finds[i])]
  /\ idle' = 0
  /\ visible' = IF lost THEN visible ELSE Apply(visible)
  /\ missed' = IF lost THEN missed \union stops ELSE missed \ (stops \union Announced)

(* A unit of time passes; heard saturates above the time to live.          *)
Countdown(n) == IF n = 0 THEN 0 ELSE n - 1
Age(h) == IF h = Never \/ h > OfferTtl THEN h ELSE h + 1
Elapse ==
  /\ idle < Latency
  /\ idle' = idle + 1
  /\ offers' = [i \in 1 .. Len(offers) |->
                  [offers[i] EXCEPT !.wait = Countdown(@), !.heard = Age(@)]]
  /\ finds' = [i \in 1 .. Len(finds) |-> [finds[i] EXCEPT !.wait = Countdown(@)]]
  /\ UNCHANGED <<stops, visible, missed>>

Next ==
  \/ \E s \in Services : start_offer(s) \/ stop_offer(s) \/ start_find(s) \/ stop_find(s)
  \/ \E lost \in BOOLEAN : tick(lost)
  \/ Elapse

(* The event loop calls tick periodically, and time passes.                *)
Fairness == WF_vars(\E lost \in BOOLEAN : tick(lost)) /\ WF_vars(Elapse)

Spec     == Init /\ [][Next]_vars
FairSpec == Spec /\ Fairness
-----------------------------------------------------------------------------
(* An offer that a listener has heard is heard again before the time to    *)
(* live of the announcement runs out, in every phase and across the change *)
(* of phases, although ticks come late and announcements are lost.         *)
RefreshedInTime ==
  \A i \in 1 .. Len(offers) : offers[i].heard # Never => offers[i].heard <= OfferTtl

(* A listener believes in a service that is no longer offered only while   *)
(* the StopOffer is queued, or because the network lost it: the code sends *)
(* it once.                                                                *)
GhostsAreLost == \A s \in visible : s \in Offered \union stops \union missed

(* A service that is stopped and offered again before the next tick is up  *)
(* once its message is heard: the StopOffer comes before the offer.        *)
RestartSurvives == [][tick(FALSE) => Announced \subseteq visible']_vars

(* A service that is offered becomes visible, unless it is stopped.        *)
AnnouncedInTheEnd ==
  \A s \in Services : s \in Offered ~> s \in visible \union stops
=============================================================================
