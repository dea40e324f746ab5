-------------------------------- MODULE Rpc --------------------------------
(***************************************************************************)
(* Remote calls of one bsomeip application: session numbers, the table of  *)
(* pending responses, the method handlers, and the synchronous call chain  *)
(*   call_sender::start -> application::route -> dispatcher::dispatch ->   *)
(*   skeleton handler -> application::route -> on_response -> receiver     *)
(* that an in-process call runs through on one thread.                     *)
(*                                                                         *)
(* The C++ call stack is a variable.  A frame is either the library inside *)
(* application::route ("route"), or user code that the library has called: *)
(* a method implementation ("impl", whose return makes the skeleton send a *)
(* response), or code after which nothing is left to do ("user": a         *)
(* receiver, a one-way implementation, a response handler).  User code may *)
(* use the application again, so calls nest.  Nothing follows a call of    *)
(* route in the library, so a frame is replaced by the one it calls last.  *)
(***************************************************************************)
EXTENDS Integers, Sequences

CONSTANTS
  MaxCalls,    \* bound: how many calls are built, numbered as they are built
  Methods,     \* the methods of the service
  AnyMethod,   \* wire::any_method, the wildcard key of the dispatcher
  Kinds,       \* the kinds of handler it registers, of HandlerKinds
  Echoes,      \* the methods whose response payload also reads as a request
  SessionMod,  \* number of values of session_counter_: 2^16 in the code
  Foreign,     \* who sent a request that another client's application made
  None         \* no call, no handler

HandlerKinds == {"serve", "serve_oneway", "on_response"}

ASSUME RpcAssumption ==
  /\ MaxCalls \in Nat
  /\ SessionMod \in Nat /\ SessionMod > 2
  /\ Kinds \subseteq HandlerKinds
  /\ Echoes \subseteq Methods
  /\ AnyMethod \notin Methods
  /\ None \notin 1 .. MaxCalls /\ Foreign \notin 1 .. MaxCalls /\ None # Foreign

VARIABLES
  session_counter, \* application::session_counter_
  pending,         \* application::pending_, indexed by session
  handlers,        \* dispatcher::handlers_ of the service
  status,          \* what has become of each call
  request,         \* op_state::req_msg_ of each call
  sent,            \* calls whose request an integrator transmitted itself
  stack,           \* the thread's call stack, last frame innermost
  answered_by,     \* history: who caused the response that completed a call
  issued           \* history: how many sessions next_session has returned

appVars  == <<session_counter, pending, handlers>>
callVars == <<status, request, sent>>
history  == <<answered_by, issued>>
vars     == <<appVars, callVars, stack, history>>

Calls    == 1 .. MaxCalls
Sessions == 0 .. SessionMod - 1
Origins  == Calls \union {Foreign}

(* A payload is told apart by who can deserialise it: "req" reads as a     *)
(* request, "resp" as a response, "junk" as neither (a request that did    *)
(* not serialise is sent as a bare header), and "cut" is shorter than the  *)
(* length field of its header says.                                        *)
Bodies   == {"req", "resp", "junk", "cut"}
Types    == {"request", "request_no_return", "response"}

Message  == [type : Types, method : Methods, session : Sessions,
             body : Bodies, ok : BOOLEAN, origin : Origins]
Frame    == [at : {"route", "impl"}, msg : Message] \union {[at |-> "user"]}
Keys     == Methods \union {AnyMethod}
-----------------------------------------------------------------------------
Top          == stack[Len(stack)]
Push(f)      == stack' = Append(stack, f)
Pop          == stack' = SubSeq(stack, 1, Len(stack) - 1)
Become(f)    == stack' = [stack EXCEPT ![Len(stack)] = f]
Routing(m)   == [at |-> "route", msg |-> m]
Serving(m)   == [at |-> "impl", msg |-> m]
User         == [at |-> "user"]
At(where)    == stack # <<>> /\ Top.at = where
UserRuns     == ~ At("route")

is_response(m)   == m.type = "response"
ReadsAsRequest(m) == m.body = "req" \/ (m.body = "resp" /\ m.method \in Echoes)

create_request(c, m, s, body) ==
  [type |-> "request", method |-> m, session |-> s, body |-> body,
   ok |-> TRUE, origin |-> c]

(* A response that is given a session of its own, as a request is.         *)
create_response_FreshSession(m, body, ok) ==
  [m EXCEPT !.type = "response", !.body = body, !.ok = ok,
            !.session = session_counter]

(* Service, method, client and session of the request are copied.          *)
create_response(m, body, ok) ==
  [m EXCEPT !.type = "response", !.body = body, !.ok = ok]

(* The handler a message is dispatched to: exact method, then wildcard.    *)
Handler(m) == IF handlers[m.method] # None THEN handlers[m.method]
                                           ELSE handlers[AnyMethod]
-----------------------------------------------------------------------------
Init ==
  /\ session_counter = 1
  /\ pending = [s \in Sessions |-> None]
  /\ handlers = [k \in Keys |-> None]
  /\ status = [c \in Calls |-> "idle"]
  /\ request = [c \in Calls |-> None]
  /\ sent = {}
  /\ stack = <<>>
  /\ answered_by = [c \in Calls |-> None]
  /\ issued = 0

(* Setup code: handlers are registered and removed while nothing is being  *)
(* dispatched (dispatcher.hpp asks for it: the tables have no lock and a   *)
(* running handler lives in them).                                         *)
register_handler(k, h) ==
  /\ stack = <<>>
  /\ handlers' = [handlers EXCEPT ![k] = h]
  /\ UNCHANGED <<session_counter, pending, callVars, stack, history>>

unregister_handler(k) ==
  /\ stack = <<>>
  /\ handlers[k] # None
  /\ handlers' = [handlers EXCEPT ![k] = None]
  /\ UNCHANGED <<session_counter, pending, callVars, stack, history>>

clear ==
  /\ stack = <<>>
  /\ handlers' = [k \in Keys |-> None]
  /\ UNCHANGED <<session_counter, pending, callVars, stack, history>>

(* The session next_session returns, and what is left in session_counter_: *)
(* an unsigned counter that wraps, and 0 is skipped.                       *)
Advance_Wide(s) == s + 1
Advance(s) == IF s = SessionMod - 1 THEN 0 ELSE s + 1
next_session_NoSkip == session_counter
next_session == IF session_counter = 0 THEN 1 ELSE session_counter

(* proxy::async_call and proxy::build_request: the session is drawn when   *)
(* the message is built, not when it is sent.                              *)
async_call(c, m, body) ==
  /\ UserRuns
  /\ c = issued + 1
  /\ session_counter' = Advance(next_session)
  /\ request' = [request EXCEPT ![c] = create_request(c, m, next_session, body)]
  /\ status' = [status EXCEPT ![c] = "built"]
  /\ issued' = c
  /\ UNCHANGED <<pending, handlers, sent, stack, answered_by>>

(* application::register_pending overwrites whatever the slot held.        *)
register_pending_Masked(c) ==
  /\ pending' = [pending EXCEPT ![request[c].session % 2] = c]
  /\ status' = [status EXCEPT ![c] = "pending"]
register_pending(c) ==
  /\ pending' = [pending EXCEPT ![request[c].session] = c]
  /\ status' = [status EXCEPT ![c] = "pending"]

(* op_state::start: register, then route; what route returns is ignored.   *)
start(c) ==
  /\ UserRuns
  /\ status[c] = "built"
  /\ register_pending(c)
  /\ Push(Routing(request[c]))
  /\ UNCHANGED <<session_counter, handlers, request, sent, history>>

(* The same without a pending callback: build_request, then route.         *)
route_unawaited(c) ==
  /\ UserRuns
  /\ status[c] = "built"
  /\ status' = [status EXCEPT ![c] = "unawaited"]
  /\ Push(Routing(request[c]))
  /\ UNCHANGED <<appVars, request, sent, history>>

(* The manual way to call a remote service: build_request, register_pending*)
(* with a callback of one's own, and a transmission outside the library.   *)
start_remote(c) ==
  /\ UserRuns
  /\ status[c] = "built"
  /\ register_pending(c)
  /\ sent' = sent \union {c}
  /\ UNCHANGED <<session_counter, handlers, request, stack, history>>

(* application::route, a response somebody waits for: the slot is copied   *)
(* and cleared before the callback runs, and the callback is on_response.  *)
ClearSlot_Never(s) == UNCHANGED pending
ClearSlot(s) == pending' = [pending EXCEPT ![s] = None]

CompletePending ==
  /\ At("route")
  /\ is_response(Top.msg)
  /\ pending[Top.msg.session] # None
  /\ LET c == pending[Top.msg.session] IN
       /\ status' = [status EXCEPT ![c] =
                       IF Top.msg.ok /\ Top.msg.body = "resp" THEN "value" ELSE "error"]
       /\ answered_by' = [answered_by EXCEPT ![c] = Top.msg.origin]
  /\ ClearSlot(Top.msg.session)
  /\ Become(User)
  /\ UNCHANGED <<session_counter, handlers, request, sent, issued>>

(* routing_manager::route_message and dispatcher::dispatch: any message    *)
(* that completes no call goes to the method's handler, a response too.    *)
Accepts_Unchecked(h, m) ==
  CASE h = "serve" -> TRUE
    [] h = "serve_oneway" -> TRUE
    [] h = "on_response" -> is_response(m)
    [] OTHER -> FALSE
Accepts(h, m) ==
  CASE h \in {"serve", "serve_oneway"} -> ReadsAsRequest(m)
    [] h = "on_response" -> is_response(m)
    [] OTHER -> FALSE

Dispatch ==
  /\ At("route")
  /\ ~ (is_response(Top.msg) /\ pending[Top.msg.session] # None)
  /\ LET h == Handler(Top.msg) IN
       IF Top.msg.body # "cut" /\ Accepts(h, Top.msg)
       THEN Become(IF h = "serve" THEN Serving(Top.msg) ELSE User)
       ELSE Pop
  /\ UNCHANGED <<appVars, callVars, history>>

(* The implementation returns to skeleton::serve, which builds a response  *)
(* and routes it through the same application, or drops it if it does not  *)
(* serialise.                                                              *)
impl_returns(serialises) ==
  /\ At("impl")
  /\ IF serialises
     THEN Become(Routing(create_response(Top.msg, "resp", TRUE)))
     ELSE Pop
  /\ UNCHANGED <<appVars, callVars, history>>

user_returns ==
  /\ At("user")
  /\ Pop
  /\ UNCHANGED <<appVars, callVars, history>>

(* The event loop hands a message from the network to application::route:  *)
(* the peer's response to a transmitted request, any number of times, late *)
(* or never; or a request of another client, which numbers its own calls.  *)
deliver_response(c, body, ok) ==
  /\ stack = <<>>
  /\ c \in sent
  /\ Push(Routing(create_response(request[c], body, ok)))
  /\ UNCHANGED <<appVars, callVars, history>>

deliver_request(type, m, s, body) ==
  /\ stack = <<>>
  /\ Push(Routing([type |-> type, method |-> m, session |-> s, body |-> body,
                   ok |-> TRUE, origin |-> Foreign]))
  /\ UNCHANGED <<appVars, callVars, history>>

Library == CompletePending \/ Dispatch

Next ==
  \/ \E k \in Keys, h \in Kinds : register_handler(k, h)
  \/ \E k \in Keys : unregister_handler(k)
  \/ clear
  \/ \E c \in Calls, m \in Methods, body \in {"req", "junk"} : async_call(c, m, body)
  \/ \E c \in Calls : start(c)
  \/ \E c \in Calls : route_unawaited(c)
  \/ \E c \in Calls : start_remote(c)
  \/ CompletePending
  \/ Dispatch
  \/ \E serialises \in BOOLEAN : impl_returns(serialises)
  \/ user_returns
  \/ \E c \in Calls, body \in {"resp", "junk", "cut"}, ok \in BOOLEAN :
       deliver_response(c, body, ok)
  \/ \E type \in {"request", "request_no_return"}, m \in Methods, s \in Sessions,
        body \in {"req", "junk", "cut"} : deliver_request(type, m, s, body)

(* The thread runs: the library goes on, and user code returns.            *)
Fairness ==
  /\ WF_vars(Library)
  /\ WF_vars(\E serialises \in BOOLEAN : impl_returns(serialises))
  /\ WF_vars(user_returns)

Spec     == Init /\ [][Next]_vars
FairSpec == Spec /\ Fairness
-----------------------------------------------------------------------------
(* The table, the counter and the stack hold only what they may hold.      *)
(* In particular session_counter_ stays within its 16 bits.                *)
TypeOK ==
  /\ session_counter \in Sessions
  /\ pending \in [Sessions -> Calls \union {None}]
  /\ handlers \in [Keys -> Kinds \union {None}]
  /\ status \in [Calls -> {"idle", "built", "unawaited", "pending", "value", "error"}]
  /\ request \in [Calls -> Message \union {None}]
  /\ sent \subseteq Calls
  /\ stack \in Seq(Frame)
  /\ answered_by \in [Calls -> Origins \union {None}]
  /\ issued \in 0 .. MaxCalls

Completed(c) == status[c] \in {"value", "error"}
Begun(c)     == status[c] \in {"pending", "value", "error"}

(* Another call was registered under the session number of c.              *)
Displaced(c) == \E d \in Calls \ {c} : Begun(d) /\ request[d].session = request[c].session

(* A slot of the pending table never outlives its call: what it points to  *)
(* is an operation that was started, waits under that very session number, *)
(* and has not completed.  application::route relies on it when it calls   *)
(* through the stored pointer.                                             *)
SlotsAreLive ==
  \A s \in Sessions : pending[s] # None =>
    status[pending[s]] = "pending" /\ request[pending[s]].session = s

(* A call that waits can still be reached by its response, unless another  *)
(* call took its slot after the session counter wrapped.  It depends on    *)
(* route clearing the slot before it runs the callback, which may start    *)
(* calls of its own.                                                       *)
NoWaiterLost ==
  \A c \in Calls : status[c] = "pending" =>
    pending[request[c].session] = c \/ Displaced(c)

(* When route is given a response that a waiting call caused, the call     *)
(* completes in that step, unless another call took its slot: neither the  *)
(* skeleton nor the dispatch in between loses or misdirects the answer.    *)
NoAnswerDropped ==
  [][\A c \in Calls :
       /\ At("route") /\ is_response(Top.msg)
       /\ Top.msg.origin = c /\ status[c] = "pending"
       => Completed(c)' \/ Displaced(c)]_vars

(* next_session: the reserved number 0 is never used, and a number comes   *)
(* again only after all the others have been used.                         *)
SessionsDistinct ==
  \A c, d \in 1 .. issued :
    /\ request[c].session # 0
    /\ c < d /\ request[c].session = request[d].session => d - c >= SessionMod - 1

(* A call completes at most once, and only from waiting.                   *)
CompletesOnce ==
  [][\A c \in Calls : Completed(c) => status'[c] = status[c] /\ answered_by'[c] = answered_by[c]]_vars

(* A chain of synchronous calls comes to its end and the thread returns to *)
(* its event loop.                                                         *)
Unwinds == []<>(stack = <<>>)

(* What a call completes with carried its session number, so it            *)
(* was caused by the call itself, by a call that got the same number after *)
(* the counter wrapped, or by another client's request.                    *)
OwnUnlessAmbiguous ==
  \A c \in Calls : Completed(c) =>
    \/ answered_by[c] = Foreign
    \/ answered_by[c] \in Calls /\ request[answered_by[c]].session = request[c].session

(* route dispatches "requests/notifications": a method implementation is   *)
(* given requests, and no response that nobody waits for, which it would   *)
(* answer with a response in turn.                                         *)
ImplSeesRequests ==
  \A i \in 1 .. Len(stack) : stack[i].at = "impl" => ~ is_response(stack[i].msg)
=============================================================================
