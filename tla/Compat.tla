------------------------------- MODULE Compat ------------------------------
(***************************************************************************)
(* The vsomeip compatibility layer beside the native interface, in one     *)
(* application: vsomeip-style code registers message handlers, keeps the   *)
(* requests they are given and answers them when it likes, and sends       *)
(* requests of its own; native code awaits its calls by their session      *)
(* numbers, and has its attribute's events bridged to its subscribers.     *)
(*                                                                         *)
(* Both share the dispatcher, which has one handler for a method or event  *)
(* of a service, whatever the instance and whoever registers it.           *)
(*                                                                         *)
(* offer_service, stop_offer_service, request_service and release_service  *)
(* are those of Offering; subscribe, offer_event and stop_offer_event do   *)
(* nothing; start and stop call the state handler and nothing else.        *)
(***************************************************************************)
EXTENDS Events, FiniteSets

CONSTANTS
  Calls,      \* of native code, to the method
  Instances,  \* what vsomeip-style code names when it registers a handler
  MaxSession, \* the highest session number
  MaxHeld,    \* bound: requests of vsomeip-style code that wait for an answer
  Vsomeip,    \* history: who made a request that no native call made
  None

(* Session numbers are not used again while a call waits: Rpc has that.    *)
ASSUME CompatAssumption ==
  /\ IsFiniteSet(Calls) /\ MaxSession \in Nat \ {0}
  /\ Cardinality(Calls) <= MaxSession
  /\ MaxHeld \in Nat
  /\ Vsomeip \notin Calls /\ None \notin Calls \union Instances

VARIABLES
  method_handler, \* dispatcher::handlers_ of the method: the instance its
                  \* handler was registered for
  held,           \* the requests that handlers keep
  pending,        \* application::pending_
  session,        \* application::next_session
  call,           \* the state of each native call
  answered,       \* history: whose request was answered when it completed
  unheard         \* history: the calls that found no handler

callVars   == <<pending, session, call, answered, unheard>>
compatVars == <<method_handler, held, callVars>>
appVars    == <<vars, compatVars>>

(* A message: its session number, and who made the request it is or        *)
(* answers.  A message is created with zeros, and only its setters and     *)
(* create_response give it a session number.                               *)
message == [session |-> 0, by |-> Vsomeip]
create_request == message
create_response_FreshMessage(req) == [message EXCEPT !.by = req.by]
create_response(req) == [message EXCEPT !.session = req.session, !.by = req.by]

(* The handler's wrapper makes a message of its own from the view, which   *)
(* outlives the call, and hands it to vsomeip-style code.                  *)
Keep(m) == held' = IF method_handler = None THEN held ELSE held \union {m}
-----------------------------------------------------------------------------
CompatInit ==
  /\ Init
  /\ method_handler = None
  /\ held = {}
  /\ pending = [s \in 0 .. MaxSession |-> None]
  /\ session = 1
  /\ call = [c \in Calls |-> "idle"]
  /\ answered = [c \in Calls |-> None]
  /\ unheard = {}

(* vsomeip::application: the instance is not looked at, neither when a     *)
(* handler is registered nor when one is unregistered.                     *)
register_message_handler(i) ==
  /\ AtRest
  /\ method_handler' = i
  /\ UNCHANGED <<vars, held, callVars>>

unregister_message_handler ==
  /\ AtRest
  /\ method_handler' = None
  /\ UNCHANGED <<vars, held, callVars>>

(* The same for the number of the event, whose handler is the bridge.      *)
register_event_handler(handler) ==
  /\ AtRest
  /\ event_handler' = handler
  /\ UNCHANGED <<value, subscriptions, stack, belief, current, via, compatVars>>

event_handler_returns ==
  /\ At("message")
  /\ stack' = Front(stack)
  /\ UNCHANGED <<value, event_handler, subscriptions, belief, current, via, compatVars>>

(* notify of a value that is the attribute's: unlike skeleton::notify it   *)
(* makes the message as large as it has to be.                             *)
vsomeip_notify ==
  /\ AtRest
  /\ stack' = Routed(value)
  /\ UNCHANGED <<value, event_handler, subscriptions, belief, current, via, compatVars>>
-----------------------------------------------------------------------------
(* The native call: its session number, its pending slot, its request.     *)
async_call(c) ==
  /\ AtRest /\ call[c] = "idle"
  /\ call' = [call EXCEPT ![c] = "waiting"]
  /\ session' = (session % MaxSession) + 1
  /\ pending' = [pending EXCEPT ![session] = c]
  /\ Keep([session |-> session, by |-> c])
  /\ unheard' = IF method_handler = None THEN unheard \union {c} ELSE unheard
  /\ UNCHANGED <<vars, method_handler, answered>>

(* send of a request: nobody gives it a session number, and none awaits    *)
(* its answer.                                                             *)
send_request ==
  /\ AtRest
  /\ Cardinality({m \in held : m.by = Vsomeip}) < MaxHeld
  /\ Keep(create_request)
  /\ UNCHANGED <<vars, method_handler, callVars>>

(* A request that was kept is answered: send routes the response, which    *)
(* completes the call in its slot.  Without one it is dispatched as a      *)
(* message to the method's handler, which only heeds requests, or else it  *)
(* would answer without end.                                               *)
send_response(m) ==
  /\ AtRest /\ m \in held
  /\ held' = held \ {m}
  /\ LET response == create_response(m)
         c == pending[response.session]
     IN \/ /\ c # None
           /\ pending' = [pending EXCEPT ![response.session] = None]
           /\ call' = [call EXCEPT ![c] = "done"]
           /\ answered' = [answered EXCEPT ![c] = response.by]
        \/ /\ c = None
           /\ UNCHANGED <<pending, call, answered>>
  /\ UNCHANGED <<vars, method_handler, session, unheard>>

CompatNext ==
  \/ Next /\ UNCHANGED compatVars
  \/ \E i \in Instances : register_message_handler(i)
  \/ unregister_message_handler
  \/ \E handler \in {"bridge", "message", "none"} : register_event_handler(handler)
  \/ event_handler_returns
  \/ vsomeip_notify
  \/ \E c \in Calls : async_call(c)
  \/ send_request
  \/ \E m \in held : send_response(m)

CompatSpec == CompatInit /\ [][CompatNext]_appVars
-----------------------------------------------------------------------------
(* A native call that a vsomeip-style handler answers completes with the   *)
(* answer to its own request, in whatever order requests are answered,     *)
(* whoever takes the handler's place meanwhile and whatever vsomeip-style  *)
(* code sends itself; and one that waits has its request kept somewhere,   *)
(* or was heard by nobody.                                                 *)
AnswersReachTheirCalls ==
  \A c \in Calls :
    /\ call[c] = "done" => answered[c] = c
    /\ call[c] = "waiting" => c \in unheard \/ \E m \in held : m.by = c
=============================================================================
