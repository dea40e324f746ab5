------------------------------- MODULE Events ------------------------------
(***************************************************************************)
(* Events and attributes inside one application: comm::attribute holds a   *)
(* value and calls skeleton::notify when set() changes it; the eventgroup  *)
(* subscribers sit in the dispatcher; an attribute_proxy sets the value by *)
(* a call that is answered.                                                *)
(*                                                                         *)
(* skeleton::notify routes the event as a message for the handler of the   *)
(* event's number.  routing_manager leaves it to the caller to go on from  *)
(* there to dispatcher::notify_subscribers; Bridged says that the          *)
(* application has registered such a handler, a bridge.  Another may take  *)
(* its place, as dispatcher::register_handler keeps one for each number.   *)
(*                                                                         *)
(* All of it is one synchronous call chain, so the call stack is a         *)
(* variable: "call" is a served set request that has yet to be answered,   *)
(* "notify" is notify_subscribers about to call subscriber number next,    *)
(* "handler" is a subscriber's handler that will set the attribute, and    *)
(* "message" is a handler of the event's number other than the bridge.     *)
(***************************************************************************)
EXTENDS Integers, Sequences, FiniteSets, SequencesExt

CONSTANTS
  Subscribers,
  Values,
  Setters,    \* the subscribers whose handler sets the attribute itself,
  Preferred,  \* to this value
  Bridged,    \* event messages are handed on to notify_subscribers at first
  Fits        \* a value serialises into the 256 bytes skeleton::notify has

ASSUME EventsAssumption ==
  /\ Setters \subseteq Subscribers
  /\ Preferred \in Values
  /\ Bridged \in BOOLEAN /\ Fits \in BOOLEAN

VARIABLES
  value,          \* attribute::value_
  event_handler,  \* dispatcher::handlers_ of the event's number: "bridge",
                  \* "message" or "none"
  subscriptions,  \* dispatcher::subscriptions_ of the event's eventgroup
  stack,          \* the thread's call stack, innermost last
  belief,         \* what each subscriber thinks the value is
  current,        \* history: the subscribers who were told of the last change
  via             \* history: the event_handler it was left to

vars == <<value, event_handler, subscriptions, stack, belief, current, via>>

Subscribed == ToSet(subscriptions)
AtRest     == stack = <<>>
Top        == Last(stack)
At(where)  == ~ AtRest /\ Top.at = where

(* Frames; fresh is history: the value has not changed since it began.     *)
Call(v)    == [at |-> "call", payload |-> v, next |-> 1, fresh |-> TRUE]
Notify(v)  == [at |-> "notify", payload |-> v, next |-> 1, fresh |-> TRUE]
Message(v) == [at |-> "message", payload |-> v, next |-> 1, fresh |-> TRUE]
HandlerRun == [at |-> "handler", payload |-> Preferred, next |-> 1, fresh |-> TRUE]
Aged(st)   == [i \in 1 .. Len(st) |-> [st[i] EXCEPT !.fresh = FALSE]]
-----------------------------------------------------------------------------
Init ==
  /\ value \in Values
  /\ event_handler = IF Bridged THEN "bridge" ELSE "none"
  /\ subscriptions = <<>>
  /\ stack = <<>>
  /\ belief = [s \in Subscribers |-> value]
  /\ current = {}
  /\ via = "bridge"

(* attribute_proxy::on_change, after a get() that fetched the value.  The  *)
(* tables are changed while nothing is dispatched, as dispatcher.hpp asks. *)
subscribe(s) ==
  /\ AtRest /\ s \notin Subscribed
  /\ subscriptions' = Append(subscriptions, s)
  /\ belief' = [belief EXCEPT ![s] = value]
  /\ current' = current \union {s}
  /\ UNCHANGED <<value, stack, via>>

(* dispatcher::unsubscribe erases everybody of the eventgroup.             *)
unsubscribe ==
  /\ AtRest
  /\ subscriptions' = <<>>
  /\ UNCHANGED <<value, stack, belief, current, via>>

(* skeleton::notify: nothing is sent if the value does not serialise, and  *)
(* nobody but the handler of the event's number is given the message.      *)
Routed(v) ==
  CASE event_handler = "bridge"  -> <<Notify(v)>>
    [] event_handler = "message" -> <<Message(v)>>
    [] event_handler = "none"    -> <<>>
skeleton_notify(v) == IF Fits THEN Routed(v) ELSE <<>>

(* attribute::set: assign, and notify if the bytes differ.                 *)
attribute_set_Always(v, below, caller) ==
  /\ value' = v
  /\ stack' = Aged(below) \o caller \o skeleton_notify(v)
  /\ current' = {} /\ via' = event_handler
attribute_set_OldValue(v, below, caller) ==
  /\ value' = v
  /\ \/ /\ v # value
        /\ stack' = Aged(below) \o caller \o skeleton_notify(value)
        /\ current' = {} /\ via' = event_handler
     \/ /\ v = value
        /\ stack' = below \o caller
        /\ UNCHANGED <<current, via>>
attribute_set_AnswersFirst(v, below, caller) ==
  /\ value' = v
  /\ \/ /\ v # value
        /\ stack' = Aged(below) \o skeleton_notify(v) \o caller
        /\ current' = {} /\ via' = event_handler
     \/ /\ v = value
        /\ stack' = below \o caller
        /\ UNCHANGED <<current, via>>
attribute_set(v, below, caller) ==
  /\ value' = v
  /\ \/ /\ v # value
        /\ stack' = Aged(below) \o caller \o skeleton_notify(v)
        /\ current' = {} /\ via' = event_handler
     \/ /\ v = value
        /\ stack' = below \o caller
        /\ UNCHANGED <<current, via>>

(* The server sets its attribute.                                          *)
set(v) ==
  /\ AtRest
  /\ attribute_set(v, stack, <<>>)
  /\ UNCHANGED <<subscriptions, belief>>

(* attribute_proxy::set: the setter's handler runs set, then the skeleton  *)
(* sends the response.                                                     *)
proxy_set(v) ==
  /\ AtRest
  /\ attribute_set(v, stack, <<Call(v)>>)
  /\ UNCHANGED <<subscriptions, belief>>

answer ==
  /\ At("call")
  /\ stack' = Front(stack)
  /\ UNCHANGED <<value, subscriptions, belief, current, via>>

(* attribute::notify, forced.                                              *)
notify ==
  /\ AtRest
  /\ stack' = skeleton_notify(value)
  /\ UNCHANGED <<value, subscriptions, belief, current, via>>

(* dispatcher::notify_subscribers loops over the subscribers.              *)
More_SkipsLast(f) == f.next < Len(subscriptions)
More(f) == f.next <= Len(subscriptions)

call_subscriber ==
  /\ At("notify") /\ More(Top)
  /\ LET s == subscriptions[Top.next] IN
       /\ belief' = [belief EXCEPT ![s] = Top.payload]
       /\ current' = IF Top.fresh THEN current \union {s} ELSE current
       /\ stack' = Append(Front(stack), [Top EXCEPT !.next = @ + 1])
                     \o (IF s \in Setters THEN <<HandlerRun>> ELSE <<>>)
  /\ UNCHANGED <<value, subscriptions, via>>

notify_returns ==
  /\ At("notify") /\ ~ More(Top)
  /\ stack' = Front(stack)
  /\ UNCHANGED <<value, subscriptions, belief, current, via>>

(* A handler sets the attribute while the subscribers are being told.      *)
handler_sets ==
  /\ At("handler")
  /\ attribute_set(Preferred, Front(stack), <<>>)
  /\ UNCHANGED <<subscriptions, belief>>

Next ==
  /\ UNCHANGED event_handler
  /\ \/ \E s \in Subscribers : subscribe(s)
     \/ unsubscribe
     \/ \E v \in Values : set(v)
     \/ \E v \in Values : proxy_set(v)
     \/ notify
     \/ answer \/ call_subscriber \/ notify_returns \/ handler_sets

Spec == Init /\ [][Next]_vars
-----------------------------------------------------------------------------
(* When the value changes, all subscribers receive a notification: once    *)
(* the call chain has ended, every subscriber was told of the last change. *)
SubscribersFollow == AtRest => Subscribed \subseteq current

(* With a bridge in place when the value changes, they are.               *)
FollowIfBridged == via = "bridge" => SubscribersFollow

(* A subscriber that has been told of every change knows the value, even   *)
(* if handlers set it again while the subscribers are being told -- but    *)
(* only if none of those called before it does: after such a handler the   *)
(* outer loop goes on and hands the rest the value it began with.          *)
KnowsTheValue ==
  AtRest /\ via = "bridge" => \A i \in 1 .. Len(subscriptions) :
    (\A j \in 1 .. i - 1 : subscriptions[j] \notin Setters)
      => belief[subscriptions[i]] = value

(* Who sets the attribute through a proxy and gets the answer can rely on  *)
(* every subscriber having been told by then.                              *)
ToldBeforeAnswered ==
  At("call") /\ Top.fresh /\ via = "bridge" => Subscribed \subseteq current

(* Handlers that set the attribute do not call each other without end, each*)
(* one deeper on the C++ stack: set() does not notify when nothing changes,*)
(* so one nested round of notifications is the last.                       *)
Rounds    == {k \in 1 .. Len(stack) : stack[k].at = "notify"}
NestsOnce == Cardinality(Rounds) <= 2
=============================================================================
