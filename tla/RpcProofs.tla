----------------------------- MODULE RpcProofs -----------------------------
(***************************************************************************)
(* What module Rpc promises for every number of calls, every width of the  *)
(* session counter, every set of methods and any mix of handlers.          *)
(***************************************************************************)
EXTENDS Rpc, TLAPS

(* A frame of the stack other than user code holds a message, and the      *)
(* operators on messages stay within Message.                              *)
LEMMA FrameMessage ==
  ASSUME NEW f \in Frame, f.at # "user"
  PROVE  f.msg \in Message
BY DEF Frame

LEMMA FrameMade ==
  ASSUME NEW m \in Message
  PROVE  /\ Routing(m) \in Frame /\ Routing(m).at = "route" /\ Routing(m).msg = m
         /\ Serving(m) \in Frame /\ Serving(m).at = "impl" /\ Serving(m).msg = m
         /\ User \in Frame /\ User.at = "user"
BY DEF Frame, Routing, Serving, User

LEMMA ResponseMade ==
  ASSUME NEW m \in Message, NEW body \in Bodies, NEW ok \in BOOLEAN
  PROVE  /\ create_response(m, body, ok) \in Message
         /\ create_response(m, body, ok).session = m.session
         /\ create_response(m, body, ok).origin = m.origin
BY DEF create_response, Message, Types

LEMMA RequestMade ==
  ASSUME NEW c \in Calls, NEW m \in Methods, NEW s \in Sessions, NEW body \in Bodies
  PROVE  /\ create_request(c, m, s, body) \in Message
         /\ create_request(c, m, s, body).session = s
         /\ create_request(c, m, s, body).origin = c
BY DEF create_request, Message, Types, Origins

LEMMA ForeignMade ==
  ASSUME NEW type \in Types, NEW m \in Methods, NEW s \in Sessions, NEW body \in Bodies
  PROVE  [type |-> type, method |-> m, session |-> s, body |-> body,
          ok |-> TRUE, origin |-> Foreign] \in Message
BY DEF Message, Origins

(* The three ways a step changes the stack, frame by frame.                *)
LEMMA PushFrame ==
  ASSUME stack \in Seq(Frame), NEW f \in Frame, Push(f)
  PROVE  /\ stack' \in Seq(Frame)
         /\ Len(stack') = Len(stack) + 1
         /\ \A i \in 1 .. Len(stack') : stack'[i] = IF i <= Len(stack) THEN stack[i] ELSE f
BY DEF Push

LEMMA Prefix ==
  ASSUME NEW S, NEW q \in Seq(S), NEW n \in Nat, n <= Len(q)
  PROVE  /\ SubSeq(q, 1, n) \in Seq(S)
         /\ Len(SubSeq(q, 1, n)) = n
         /\ \A i \in 1 .. n : SubSeq(q, 1, n)[i] = q[i]
<1>1. SubSeq(q, 1, n) \in Seq(S)
  OBVIOUS
<1>2. Len(SubSeq(q, 1, n)) = n
  OBVIOUS
<1>3. \A i \in 1 .. n : SubSeq(q, 1, n)[i] = q[i]
  OBVIOUS
<1>. QED BY <1>1, <1>2, <1>3

LEMMA PopFrame ==
  ASSUME stack \in Seq(Frame), stack # <<>>, Pop
  PROVE  /\ stack' \in Seq(Frame)
         /\ Len(stack') = Len(stack) - 1
         /\ \A i \in 1 .. Len(stack') : stack'[i] = stack[i]
<1>1. Len(stack) - 1 \in Nat /\ Len(stack) - 1 <= Len(stack)
  OBVIOUS
<1>. QED BY <1>1, Prefix DEF Pop

LEMMA BecomeFrame ==
  ASSUME stack \in Seq(Frame), stack # <<>>, NEW f \in Frame, Become(f)
  PROVE  /\ stack' \in Seq(Frame)
         /\ Len(stack') = Len(stack)
         /\ \A i \in 1 .. Len(stack') : stack'[i] = IF i < Len(stack) THEN stack[i] ELSE f
BY DEF Become

LEMMA TopFrame ==
  ASSUME stack \in Seq(Frame), NEW where \in {"route", "impl", "user"}, At(where)
  PROVE  /\ stack # <<>> /\ Len(stack) \in 1 .. Len(stack) /\ Top \in Frame /\ Top.at = where
         /\ where # "user" => Top.msg \in Message
<1>1. stack # <<>> /\ Top.at = where
  BY DEF At
<1>2. Len(stack) \in 1 .. Len(stack) /\ Top \in Frame
  BY <1>1 DEF Top
<1>. QED BY <1>1, <1>2, FrameMessage
-----------------------------------------------------------------------------
(* The inductive invariant.  Calls are numbered as they are built, each    *)
(* built call has a request that carries its number, the numbers handed    *)
(* out run around the circle 1 .. SessionMod - 1, and the messages on the  *)
(* stack carry the session number of the call that caused them.            *)
Numbered ==
  /\ \A c \in Calls : status[c] # "idle" <=> c <= issued
  /\ sent \subseteq 1 .. issued

Requests ==
  \A c \in 1 .. issued :
    request[c] \in Message /\ request[c].origin = c /\ request[c].session # 0

CounterFollows ==
  session_counter = IF issued = 0 THEN 1 ELSE Advance(request[issued].session)

Around(s, k) == IF s + k <= SessionMod - 1 THEN s + k ELSE s + k - (SessionMod - 1)

SessionWindow ==
  \A c, d \in 1 .. issued :
    c <= d /\ d - c < SessionMod - 1 => request[d].session = Around(request[c].session, d - c)

StackCarries ==
  \A i \in 1 .. Len(stack) :
    stack[i].at # "user" /\ stack[i].msg.origin \in Calls =>
      /\ stack[i].msg.origin <= issued
      /\ stack[i].msg.session = request[stack[i].msg.origin].session

Answers ==
  \A c \in Calls :
    /\ Completed(c) <=> answered_by[c] # None
    /\ answered_by[c] \in Calls => answered_by[c] <= issued

Sound == Numbered /\ Requests /\ CounterFollows /\ SessionWindow /\ StackCarries /\ Answers

IInv == TypeOK /\ Sound /\ SlotsAreLive /\ NoWaiterLost /\ OwnUnlessAmbiguous

LEMMA InitIInv == Init => IInv
<1>. SUFFICES ASSUME Init PROVE IInv
  OBVIOUS
<1>. USE RpcAssumption DEF Init
<1>1. TypeOK
  BY DEF TypeOK, Sessions, Keys
<1>2. Sound
  BY DEF Sound, Numbered, Requests, CounterFollows, SessionWindow, StackCarries, Answers,
         Completed, Calls
<1>3. SlotsAreLive /\ NoWaiterLost /\ OwnUnlessAmbiguous
  BY DEF SlotsAreLive, NoWaiterLost, OwnUnlessAmbiguous, Completed
<1>. QED BY <1>1, <1>2, <1>3 DEF IInv

(* Every step keeps the types, one case per action.                        *)
LEMMA TypeStep == TypeOK /\ Sound /\ SlotsAreLive /\ [Next]_vars => TypeOK'
<1>. SUFFICES ASSUME TypeOK, Sound, SlotsAreLive, [Next]_vars PROVE TypeOK'
  OBVIOUS
<1>. USE RpcAssumption DEF TypeOK
<1>1. ASSUME NEW k \in Keys, NEW h \in Kinds, register_handler(k, h) PROVE TypeOK'
  BY <1>1 DEF register_handler, callVars, history
<1>2. ASSUME NEW k \in Keys, unregister_handler(k) PROVE TypeOK'
  BY <1>2 DEF unregister_handler, callVars, history
<1>3. CASE clear
  BY <1>3 DEF clear, callVars, history
<1>4. ASSUME NEW c \in Calls, NEW m \in Methods, NEW body \in {"req", "junk"},
             async_call(c, m, body)
      PROVE  TypeOK'
  <2>1. next_session \in Sessions /\ Advance(next_session) \in Sessions
    BY DEF next_session, Advance, Sessions
  <2>2. create_request(c, m, next_session, body) \in Message
    BY <2>1, RequestMade DEF Bodies
  <2>. QED BY <1>4, <2>1, <2>2 DEF async_call, Calls
<1>5. ASSUME NEW c \in Calls, start(c) PROVE TypeOK'
  <2>1. c \in 1 .. issued /\ request[c] \in Message
    BY <1>5 DEF start, Sound, Numbered, Requests, Calls
  <2>2. request[c].session \in Sessions /\ Routing(request[c]) \in Frame
    BY <2>1, FrameMade DEF Message
  <2>3. stack' \in Seq(Frame)
    BY <1>5, <2>2, PushFrame DEF start
  <2>. QED BY <1>5, <2>2, <2>3 DEF start, register_pending, history
<1>6. ASSUME NEW c \in Calls, route_unawaited(c) PROVE TypeOK'
  <2>1. c \in 1 .. issued /\ request[c] \in Message
    BY <1>6 DEF route_unawaited, Sound, Numbered, Requests, Calls
  <2>2. stack' \in Seq(Frame)
    BY <1>6, <2>1, FrameMade, PushFrame DEF route_unawaited
  <2>. QED BY <1>6, <2>2 DEF route_unawaited, appVars, history
<1>7. ASSUME NEW c \in Calls, start_remote(c) PROVE TypeOK'
  <2>1. c \in 1 .. issued /\ request[c] \in Message
    BY <1>7 DEF start_remote, Sound, Numbered, Requests, Calls
  <2>2. request[c].session \in Sessions
    BY <2>1 DEF Message
  <2>. QED BY <1>7, <2>2 DEF start_remote, register_pending, history
<1>8. CASE CompletePending
  <2>1. At("route") /\ Top.msg \in Message /\ stack # <<>>
    BY <1>8, TopFrame DEF CompletePending
  <2>2. Top.msg.session \in Sessions /\ Top.msg.origin \in Origins
    BY <2>1 DEF Message
  <2>3. stack' \in Seq(Frame)
    BY <1>8, <2>1, FrameMade, BecomeFrame DEF CompletePending
  <2>4. pending' \in [Sessions -> Calls \union {None}]
    BY <1>8, <2>2 DEF CompletePending, ClearSlot
  <2>. QED BY <1>8, <2>2, <2>3, <2>4 DEF CompletePending
<1>9. CASE Dispatch
  <2>1. Top.msg \in Message /\ stack # <<>>
    BY <1>9, TopFrame DEF Dispatch
  <2>2. stack' \in Seq(Frame)
    <3>1. CASE Become(Serving(Top.msg))
      BY <3>1, <2>1, FrameMade, BecomeFrame
    <3>2. CASE Become(User)
      BY <3>2, <2>1, FrameMade, BecomeFrame
    <3>3. CASE Pop
      BY <3>3, <2>1, PopFrame
    <3>. QED BY <1>9, <3>1, <3>2, <3>3 DEF Dispatch
  <2>. QED BY <1>9, <2>2 DEF Dispatch, appVars, callVars, history
<1>10. ASSUME NEW serialises \in BOOLEAN, impl_returns(serialises) PROVE TypeOK'
  <2>1. Top.msg \in Message /\ stack # <<>>
    BY <1>10, TopFrame DEF impl_returns
  <2>2. create_response(Top.msg, "resp", TRUE) \in Message
    BY <2>1, ResponseMade DEF Bodies
  <2>3. stack' \in Seq(Frame)
    <3>1. CASE Become(Routing(create_response(Top.msg, "resp", TRUE)))
      BY <3>1, <2>1, <2>2, FrameMade, BecomeFrame
    <3>2. CASE Pop
      BY <3>2, <2>1, PopFrame
    <3>. QED BY <1>10, <3>1, <3>2 DEF impl_returns
  <2>. QED BY <1>10, <2>3 DEF impl_returns, appVars, callVars, history
<1>11. CASE user_returns
  <2>1. stack' \in Seq(Frame)
    BY <1>11, TopFrame, PopFrame DEF user_returns
  <2>. QED BY <1>11, <2>1 DEF user_returns, appVars, callVars, history
<1>12. ASSUME NEW c \in Calls, NEW body \in {"resp", "junk", "cut"}, NEW ok \in BOOLEAN,
              deliver_response(c, body, ok)
       PROVE  TypeOK'
  <2>1. request[c] \in Message
    BY <1>12 DEF deliver_response, Sound, Numbered, Requests
  <2>2. create_response(request[c], body, ok) \in Message
    BY <2>1, ResponseMade DEF Bodies
  <2>3. stack' \in Seq(Frame)
    BY <1>12, <2>2, FrameMade, PushFrame DEF deliver_response
  <2>. QED BY <1>12, <2>3 DEF deliver_response, appVars, callVars, history
<1>13. ASSUME NEW type \in {"request", "request_no_return"}, NEW m \in Methods,
              NEW s \in Sessions, NEW body \in {"req", "junk", "cut"},
              deliver_request(type, m, s, body)
       PROVE  TypeOK'
  <2>. DEFINE msg == [type |-> type, method |-> m, session |-> s, body |-> body,
                      ok |-> TRUE, origin |-> Foreign]
  <2>1. msg \in Message
    BY ForeignMade DEF Types, Bodies
  <2>2. Push(Routing(msg))
    BY <1>13 DEF deliver_request
  <2>3. stack' \in Seq(Frame)
    <3>. HIDE DEF msg
    <3>. QED BY <2>1, <2>2, FrameMade, PushFrame
  <2>. QED BY <1>13, <2>3 DEF deliver_request, appVars, callVars, history
<1>14. CASE UNCHANGED vars
  BY <1>14 DEF vars, appVars, callVars, history
<1>. QED
  BY <1>1, <1>2, <1>3, <1>4, <1>5, <1>6, <1>7, <1>8, <1>9, <1>10, <1>11, <1>12, <1>13, <1>14
  DEF Next

(* Apart from the handlers and the stack, four kinds of step change the    *)
(* state: a call is built, a call is registered, a call is routed without  *)
(* being registered, a call completes.                                     *)
LEMMA StepKinds ==
  ASSUME [Next]_vars
  PROVE  \/ UNCHANGED <<session_counter, pending, callVars, history>>
         \/ \E c \in Calls, m \in Methods, body \in {"req", "junk"} : async_call(c, m, body)
         \/ \E c \in Calls : start(c) \/ start_remote(c)
         \/ \E c \in Calls : route_unawaited(c)
         \/ CompletePending
<1>1. CASE UNCHANGED vars
  BY <1>1 DEF vars, appVars
<1>2. CASE \E k \in Keys, h \in Kinds : register_handler(k, h)
  BY <1>2 DEF register_handler
<1>3. CASE \E k \in Keys : unregister_handler(k)
  BY <1>3 DEF unregister_handler
<1>4. CASE clear
  BY <1>4 DEF clear
<1>5. CASE Dispatch \/ user_returns \/ \E serialises \in BOOLEAN : impl_returns(serialises)
  BY <1>5 DEF Dispatch, user_returns, impl_returns, appVars
<1>6. CASE \E c \in Calls, body \in {"resp", "junk", "cut"}, ok \in BOOLEAN :
             deliver_response(c, body, ok)
  BY <1>6 DEF deliver_response, appVars
<1>7. CASE \E type \in {"request", "request_no_return"}, m \in Methods, s \in Sessions,
             body \in {"req", "junk", "cut"} : deliver_request(type, m, s, body)
  BY <1>7 DEF deliver_request, appVars
<1>. QED BY <1>1, <1>2, <1>3, <1>4, <1>5, <1>6, <1>7 DEF Next

(* Around the circle of session numbers: the number handed out next follows*)
(* the last one, so the window property extends by one call.               *)
LEMMA NextFollows ==
  ASSUME TypeOK, Sound
  PROVE  /\ next_session \in Sessions \ {0}
         /\ issued # 0 => next_session = Around(request[issued].session, 1)
<1>. USE RpcAssumption
<1>1. CASE issued = 0
  BY <1>1 DEF Sound, CounterFollows, next_session, Sessions
<1>2. CASE issued # 0
  <2>1. request[issued].session \in Sessions \ {0}
    BY <1>2 DEF Sound, Requests, Message, TypeOK
  <2>. QED BY <1>2, <2>1 DEF Sound, CounterFollows, next_session, Advance, Around, Sessions
<1>. QED BY <1>1, <1>2

LEMMA BuildStep ==
  ASSUME IInv, NEW c \in Calls, NEW m \in Methods, NEW body \in {"req", "junk"},
         async_call(c, m, body)
  PROVE  /\ Numbered' /\ Requests' /\ CounterFollows' /\ SessionWindow' /\ Answers'
         /\ SlotsAreLive' /\ NoWaiterLost' /\ OwnUnlessAmbiguous'
<1>. USE RpcAssumption
<1>1. TypeOK /\ Sound
  BY DEF IInv
<1>2. c = issued + 1 /\ issued' = c /\ issued \in Nat /\ status[c] = "idle"
  BY <1>1 DEF async_call, TypeOK, Sound, Numbered, Calls
<1>. DEFINE r == create_request(c, m, next_session, body)
<1>3. r \in Message /\ r.session = next_session /\ r.origin = c /\ r.session # 0
  BY <1>1, NextFollows, RequestMade DEF Bodies
<1>4. /\ request' = [request EXCEPT ![c] = r]
      /\ status' = [status EXCEPT ![c] = "built"]
      /\ session_counter' = Advance(next_session)
      /\ UNCHANGED <<pending, sent, answered_by>>
  BY DEF async_call
<1>. HIDE DEF r
<1>5. /\ \A d \in Calls \ {c} : request'[d] = request[d] /\ status'[d] = status[d]
      /\ request'[c] = r /\ status'[c] = "built"
  BY <1>1, <1>4 DEF TypeOK
<1>0. \A d \in 1 .. c : d = c \/ (d \in 1 .. issued /\ d \in Calls \ {c})
  BY <1>2 DEF Calls
<1>6. Numbered'
  BY <1>1, <1>2, <1>4, <1>5 DEF Sound, Numbered, Calls
<1>7. Requests'
  BY <1>0, <1>1, <1>2, <1>3, <1>5 DEF Sound, Requests
<1>8. CounterFollows'
  BY <1>2, <1>3, <1>4, <1>5 DEF CounterFollows, Calls
<1>9. SessionWindow'
  <2>. SUFFICES ASSUME NEW a \in 1 .. c, NEW b \in 1 .. c, a <= b, b - a < SessionMod - 1
                PROVE  request'[b].session = Around(request'[a].session, b - a)
    BY <1>2 DEF SessionWindow, Around
  <2>1. next_session \in 1 .. SessionMod - 1
    BY <1>1, NextFollows DEF Sessions
  <2>2. CASE b # c
    <3>1. a # c
      BY <1>2, <2>2
    <3>. QED BY <1>0, <1>1, <1>5, <2>2, <3>1 DEF Sound, SessionWindow
  <2>3. CASE b = c /\ a = c
    BY <1>3, <1>5, <2>1, <2>3 DEF Around
  <2>4. CASE b = c /\ a # c
    <3>1. a \in 1 .. issued /\ issued # 0 /\ issued \in 1 .. issued
      BY <1>2, <2>4
    <3>2. /\ request[a].session \in 1 .. SessionMod - 1
          /\ request[issued].session = Around(request[a].session, issued - a)
      BY <1>1, <1>2, <2>4, <3>1 DEF Sound, Requests, SessionWindow, Message, Sessions
    <3>3. next_session = Around(request[issued].session, 1)
      BY <1>1, <3>1, NextFollows
    <3>4. b - a = issued - a + 1
      BY <1>2, <2>4
    <3>5. next_session = Around(request[a].session, b - a)
      BY <1>2, <2>4, <3>1, <3>2, <3>3, <3>4 DEF Around
    <3>. QED BY <1>3, <1>5, <2>4, <3>1, <3>5, <1>2 DEF TypeOK, Calls
  <2>. QED BY <2>2, <2>3, <2>4
<1>10. Answers'
  <2>1. \A d \in Calls : Completed(d)' <=> Completed(d)
    BY <1>2, <1>5 DEF Completed
  <2>2. \A n \in Calls : n <= issued => n <= c
    BY <1>2 DEF Calls
  <2>. QED BY <1>1, <1>2, <1>4, <2>1, <2>2 DEF Sound, Answers
<1>11. SlotsAreLive'
  BY <1>1, <1>2, <1>4, <1>5, None \notin Calls DEF IInv, SlotsAreLive, TypeOK, Calls
<1>12. NoWaiterLost'
  <2>1. \A d \in Calls : Begun(d) => d # c
    BY <1>2 DEF Begun
  <2>. QED BY <1>1, <1>2, <1>4, <1>5, <2>1 DEF IInv, NoWaiterLost, Displaced, Begun
<1>13. OwnUnlessAmbiguous'
  <2>1. \A d \in Calls : answered_by[d] \in Calls => answered_by[d] # c
    BY <1>1, <1>2 DEF Sound, Answers
  <2>. QED BY <1>1, <1>2, <1>4, <1>5, <2>1 DEF IInv, OwnUnlessAmbiguous, Completed
<1>. QED BY <1>6, <1>7, <1>8, <1>9, <1>10, <1>11, <1>12, <1>13

(* Registering a call overwrites its slot: whoever waited there is         *)
(* displaced by this call, everybody else keeps a slot.                    *)
LEMMA RegisterStep ==
  ASSUME IInv, NEW c \in Calls, start(c) \/ start_remote(c)
  PROVE  /\ Numbered' /\ Requests' /\ CounterFollows' /\ SessionWindow' /\ Answers'
         /\ SlotsAreLive' /\ NoWaiterLost' /\ OwnUnlessAmbiguous'
<1>. USE RpcAssumption
<1>1. TypeOK /\ Sound
  BY DEF IInv
<1>2. /\ status[c] = "built" /\ status' = [status EXCEPT ![c] = "pending"]
      /\ pending' = [pending EXCEPT ![request[c].session] = c]
      /\ UNCHANGED <<session_counter, request, answered_by, issued>>
      /\ sent' \subseteq sent \union {c}
  BY DEF start, start_remote, register_pending, history
<1>3. c \in 1 .. issued /\ request[c].session \in Sessions
  BY <1>1, <1>2 DEF Sound, Numbered, Requests, Message, Calls, TypeOK
<1>4. /\ \A d \in Calls \ {c} : status'[d] = status[d]
      /\ status'[c] = "pending"
  BY <1>1, <1>2 DEF TypeOK
<1>5. /\ pending'[request[c].session] = c
      /\ \A s \in Sessions \ {request[c].session} : pending'[s] = pending[s]
  BY <1>1, <1>2, <1>3 DEF TypeOK
<1>6. Numbered' /\ Requests' /\ CounterFollows' /\ SessionWindow'
  BY <1>1, <1>2, <1>3, <1>4
  DEF Sound, Numbered, Requests, CounterFollows, SessionWindow, Around, Advance
<1>7. \A d \in Calls : Completed(d)' <=> Completed(d)
  BY <1>2, <1>4 DEF Completed
<1>8. Answers' /\ OwnUnlessAmbiguous'
  BY <1>1, <1>2, <1>7 DEF IInv, Sound, Answers, OwnUnlessAmbiguous
<1>9. SlotsAreLive'
  BY <1>1, <1>2, <1>3, <1>4, <1>5 DEF IInv, SlotsAreLive, TypeOK
<1>10. NoWaiterLost'
  <2>. SUFFICES ASSUME NEW d \in Calls, status'[d] = "pending"
                PROVE  pending'[request[d].session] = d \/ Displaced(d)'
    BY <1>2 DEF NoWaiterLost
  <2>1. \A e \in Calls : Begun(e) => Begun(e)'
    BY <1>4 DEF Begun
  <2>2. Begun(c)'
    BY <1>4 DEF Begun
  <2>3. CASE d = c
    BY <1>5, <2>3
  <2>4. CASE d # c /\ request[d].session = request[c].session
    BY <1>2, <2>2, <2>4 DEF Displaced
  <2>5. CASE d # c /\ request[d].session # request[c].session
    <3>1. status[d] = "pending"
      BY <1>4, <2>5
    <3>2. d \in 1 .. issued /\ request[d].session \in Sessions
      BY <1>1, <3>1 DEF Sound, Numbered, Requests, Message, Calls, TypeOK
    <3>3. pending[request[d].session] = d \/ Displaced(d)
      BY <3>1 DEF IInv, NoWaiterLost
    <3>. QED BY <1>2, <1>5, <2>1, <2>5, <3>2, <3>3 DEF Displaced
  <2>. QED BY <2>3, <2>4, <2>5
<1>. QED BY <1>6, <1>8, <1>9, <1>10

LEMMA UnawaitedStep ==
  ASSUME IInv, NEW c \in Calls, route_unawaited(c)
  PROVE  /\ Numbered' /\ Requests' /\ CounterFollows' /\ SessionWindow' /\ Answers'
         /\ SlotsAreLive' /\ NoWaiterLost' /\ OwnUnlessAmbiguous'
<1>1. TypeOK /\ Sound
  BY DEF IInv
<1>2. /\ status[c] = "built" /\ status' = [status EXCEPT ![c] = "unawaited"]
      /\ UNCHANGED <<session_counter, pending, request, sent, answered_by, issued>>
  BY DEF route_unawaited, appVars, history
<1>3. /\ \A d \in Calls \ {c} : status'[d] = status[d]
      /\ status'[c] = "unawaited"
  BY <1>1, <1>2 DEF TypeOK
<1>4. Numbered' /\ Requests' /\ CounterFollows' /\ SessionWindow'
  BY <1>1, <1>2, <1>3
  DEF Sound, Numbered, Requests, CounterFollows, SessionWindow, Around, Advance
<1>5. \A d \in Calls : (Completed(d)' <=> Completed(d)) /\ (Begun(d)' <=> Begun(d))
  BY <1>2, <1>3 DEF Completed, Begun
<1>6. Answers' /\ OwnUnlessAmbiguous'
  BY <1>1, <1>2, <1>5 DEF IInv, Sound, Answers, OwnUnlessAmbiguous
<1>7. SlotsAreLive'
  BY <1>1, <1>2, <1>3 DEF IInv, SlotsAreLive, TypeOK
<1>8. NoWaiterLost'
  BY <1>1, <1>2, <1>3, <1>5 DEF IInv, NoWaiterLost, Displaced
<1>. QED BY <1>4, <1>6, <1>7, <1>8

(* Completing a call: the slot is cleared, and the response carries the    *)
(* session number of the call that caused it.                              *)
LEMMA CompleteStep ==
  ASSUME IInv, CompletePending
  PROVE  /\ Numbered' /\ Requests' /\ CounterFollows' /\ SessionWindow' /\ Answers'
         /\ SlotsAreLive' /\ NoWaiterLost' /\ OwnUnlessAmbiguous'
<1>. USE RpcAssumption
<1>1. TypeOK /\ Sound
  BY DEF IInv
<1>2. /\ stack # <<>> /\ Len(stack) \in 1 .. Len(stack) /\ Top.at = "route"
      /\ Top.msg \in Message
  BY <1>1, TopFrame DEF CompletePending, TypeOK
<1>a. PICK s \in Sessions, o \in Origins : s = Top.msg.session /\ o = Top.msg.origin
  BY <1>2 DEF Message
<1>3. PICK c \in Calls : c = pending[s] /\ status[c] = "pending" /\ request[c].session = s
  BY <1>1, <1>a DEF CompletePending, IInv, SlotsAreLive, TypeOK
<1>4. o \in Calls => o <= issued /\ request[o].session = s
  BY <1>1, <1>2, <1>a DEF Sound, StackCarries, Top
<1>5. PICK r \in {"value", "error"} :
         /\ status' = [status EXCEPT ![c] = r]
         /\ answered_by' = [answered_by EXCEPT ![c] = o]
         /\ pending' = [pending EXCEPT ![s] = None]
         /\ UNCHANGED <<session_counter, request, sent, issued>>
  BY <1>a, <1>3 DEF CompletePending, ClearSlot
<1>6. /\ \A d \in Calls \ {c} : status'[d] = status[d] /\ answered_by'[d] = answered_by[d]
      /\ status'[c] = r /\ answered_by'[c] = o
      /\ \A t \in Sessions \ {s} : pending'[t] = pending[t]
      /\ pending'[s] = None
  BY <1>1, <1>2, <1>3, <1>5 DEF TypeOK
<1>7. Numbered' /\ Requests' /\ CounterFollows' /\ SessionWindow'
  BY <1>1, <1>3, <1>5, <1>6
  DEF Sound, Numbered, Requests, CounterFollows, SessionWindow, Around, Advance
<1>8. o # None
  BY DEF Origins, Calls
<1>9. Answers'
  <2>1. \A d \in Calls \ {c} : Completed(d)' <=> Completed(d)
    BY <1>6 DEF Completed
  <2>2. Completed(c)'
    BY <1>6 DEF Completed
  <2>. QED BY <1>1, <1>3, <1>4, <1>5, <1>6, <1>8, <2>1, <2>2 DEF Sound, Answers
<1>10. OwnUnlessAmbiguous'
  <2>1. \A d \in Calls \ {c} : Completed(d)' <=> Completed(d)
    BY <1>6 DEF Completed
  <2>. QED BY <1>2, <1>3, <1>4, <1>5, <1>6, <2>1 DEF IInv, OwnUnlessAmbiguous, Origins
<1>11. SlotsAreLive'
  BY <1>1, <1>2, <1>3, <1>5, <1>6 DEF IInv, SlotsAreLive, TypeOK
<1>12. NoWaiterLost'
  <2>. SUFFICES ASSUME NEW d \in Calls, status'[d] = "pending"
                PROVE  pending'[request[d].session] = d \/ Displaced(d)'
    BY <1>5 DEF NoWaiterLost
  <2>1. d # c /\ status[d] = "pending"
    BY <1>6
  <2>2. \A e \in Calls : Begun(e) => Begun(e)'
    BY <1>6 DEF Begun
  <2>3. Begun(c)'
    BY <1>6 DEF Begun
  <2>4. CASE request[d].session = s
    BY <1>3, <1>5, <2>1, <2>3, <2>4 DEF Displaced
  <2>5. CASE request[d].session # s
    <3>1. d \in 1 .. issued /\ request[d].session \in Sessions
      BY <1>1, <2>1 DEF Sound, Numbered, Requests, Message, Calls, TypeOK
    <3>2. pending[request[d].session] = d \/ Displaced(d)
      BY <2>1 DEF IInv, NoWaiterLost
    <3>. QED BY <1>5, <1>6, <2>2, <2>5, <3>1, <3>2 DEF Displaced
  <2>. QED BY <2>4, <2>5
<1>. QED BY <1>7, <1>9, <1>10, <1>11, <1>12

(* A frame is in order if the message it holds carries the session number  *)
(* of the call that caused it.  Requests of built calls never change, so a *)
(* frame stays in order; new frames are made from such messages.           *)
InOrder(f, req, n) ==
  f.at # "user" /\ f.msg.origin \in Calls =>
    f.msg.origin <= n /\ f.msg.session = req[f.msg.origin].session

LEMMA RequestsStay ==
  ASSUME IInv, [Next]_vars
  PROVE  /\ \A c \in Calls : c <= issued => c <= issued' /\ request'[c] = request[c]
         /\ \A f : InOrder(f, request, issued) => InOrder(f, request', issued')
<1>1. \A c \in Calls : c <= issued => c <= issued' /\ request'[c] = request[c]
  <2>1. CASE UNCHANGED <<session_counter, pending, callVars, history>>
    BY <2>1 DEF callVars, history
  <2>2. ASSUME NEW c \in Calls, NEW m \in Methods, NEW body \in {"req", "junk"},
               async_call(c, m, body)
        PROVE  \A d \in Calls : d <= issued => d <= issued' /\ request'[d] = request[d]
    BY <2>2 DEF async_call, IInv, TypeOK, Calls
  <2>3. CASE \E c \in Calls : start(c) \/ start_remote(c)
    BY <2>3 DEF start, start_remote, history
  <2>4. CASE \E c \in Calls : route_unawaited(c)
    BY <2>4 DEF route_unawaited, history
  <2>5. CASE CompletePending
    BY <2>5 DEF CompletePending
  <2>. QED BY <2>1, <2>2, <2>3, <2>4, <2>5, StepKinds
<1>. QED BY <1>1 DEF InOrder

LEMMA StackStep ==
  ASSUME IInv, [Next]_vars
  PROVE  StackCarries'
<1>. USE RpcAssumption
<1>1. TypeOK /\ Sound /\ stack \in Seq(Frame)
  BY DEF IInv, TypeOK
<1>2. \A i \in 1 .. Len(stack) : InOrder(stack[i], request, issued)
  BY <1>1 DEF Sound, StackCarries, InOrder
<1>3. \A f : InOrder(f, request, issued) => InOrder(f, request', issued')
  BY RequestsStay
<1>. SUFFICES \A i \in 1 .. Len(stack') : InOrder(stack'[i], request', issued')
  BY DEF StackCarries, InOrder
<1>4. ASSUME NEW f \in Frame, Push(f), InOrder(f, request, issued)
      PROVE  \A i \in 1 .. Len(stack') : InOrder(stack'[i], request', issued')
  BY <1>1, <1>2, <1>3, <1>4, PushFrame
<1>5. ASSUME NEW f \in Frame, stack # <<>>, Become(f), InOrder(f, request, issued)
      PROVE  \A i \in 1 .. Len(stack') : InOrder(stack'[i], request', issued')
  BY <1>1, <1>2, <1>3, <1>5, BecomeFrame
<1>6. ASSUME stack # <<>>, Pop
      PROVE  \A i \in 1 .. Len(stack') : InOrder(stack'[i], request', issued')
  BY <1>1, <1>2, <1>3, <1>6, PopFrame
<1>7. ASSUME UNCHANGED stack
      PROVE  \A i \in 1 .. Len(stack') : InOrder(stack'[i], request', issued')
  BY <1>2, <1>3, <1>7
<1>8. InOrder(User, request, issued)
  BY DEF InOrder, User
<1>9. \A c \in Calls : c <= issued =>
         /\ request[c] \in Message /\ Routing(request[c]) \in Frame
         /\ InOrder(Routing(request[c]), request, issued)
  BY <1>1 DEF Sound, Requests, Calls, InOrder, Routing, Frame
<1>10. CASE \/ UNCHANGED vars \/ clear
            \/ \E k \in Keys, h \in Kinds : register_handler(k, h)
            \/ \E k \in Keys : unregister_handler(k)
            \/ \E c \in Calls, m \in Methods, body \in {"req", "junk"} : async_call(c, m, body)
            \/ \E c \in Calls : start_remote(c)
  BY <1>7, <1>10 DEF vars, clear, register_handler, unregister_handler, async_call, start_remote
<1>11. ASSUME NEW c \in Calls, start(c) \/ route_unawaited(c)
       PROVE  \A i \in 1 .. Len(stack') : InOrder(stack'[i], request', issued')
  <2>1. c <= issued
    BY <1>1, <1>11 DEF start, route_unawaited, Sound, Numbered
  <2>. QED BY <1>4, <1>9, <1>11, <2>1 DEF start, route_unawaited
<1>12. CASE CompletePending
  <2>1. stack # <<>> /\ Become(User)
    BY <1>12 DEF CompletePending, At
  <2>. QED BY <1>5, <1>8, <2>1 DEF Frame, User
<1>13. CASE Dispatch
  <2>1. stack # <<>> /\ Top.msg \in Message /\ InOrder(Top, request, issued) /\ Top.at = "route"
    BY <1>1, <1>2, <1>13, TopFrame DEF Dispatch, Top
  <2>2. Serving(Top.msg) \in Frame /\ InOrder(Serving(Top.msg), request, issued) /\ User \in Frame
    BY <2>1 DEF Serving, User, Frame, InOrder
  <2>3. Become(Serving(Top.msg)) \/ Become(User) \/ Pop
    BY <1>13 DEF Dispatch
  <2>. QED BY <1>5, <1>6, <1>8, <2>1, <2>2, <2>3
<1>14. ASSUME NEW serialises \in BOOLEAN, impl_returns(serialises)
       PROVE  \A i \in 1 .. Len(stack') : InOrder(stack'[i], request', issued')
  <2>1. stack # <<>> /\ Top.msg \in Message /\ InOrder(Top, request, issued) /\ Top.at = "impl"
    BY <1>1, <1>2, <1>14, TopFrame DEF impl_returns, Top
  <2>. DEFINE m == create_response(Top.msg, "resp", TRUE)
  <2>2. m \in Message /\ m.session = Top.msg.session /\ m.origin = Top.msg.origin
    BY <2>1, ResponseMade DEF Bodies
  <2>3. Become(Routing(m)) \/ Pop
    BY <1>14 DEF impl_returns
  <2>. HIDE DEF m
  <2>4. Routing(m) \in Frame /\ InOrder(Routing(m), request, issued)
    BY <2>1, <2>2 DEF Routing, Frame, InOrder
  <2>. QED BY <1>5, <1>6, <2>1, <2>3, <2>4
<1>15. CASE user_returns
  BY <1>6, <1>15 DEF user_returns, At
<1>16. ASSUME NEW c \in Calls, NEW body \in {"resp", "junk", "cut"}, NEW ok \in BOOLEAN,
              deliver_response(c, body, ok)
       PROVE  \A i \in 1 .. Len(stack') : InOrder(stack'[i], request', issued')
  <2>1. c <= issued /\ request[c] \in Message /\ request[c].origin = c
    BY <1>1, <1>16 DEF deliver_response, Sound, Numbered, Requests, TypeOK
  <2>. DEFINE m == create_response(request[c], body, ok)
  <2>2. m \in Message /\ m.session = request[c].session /\ m.origin = c
    <3>1. body \in Bodies
      BY DEF Bodies
    <3>. QED BY <2>1, <3>1, ResponseMade
  <2>3. Push(Routing(m))
    BY <1>16 DEF deliver_response
  <2>. HIDE DEF m
  <2>4. Routing(m) \in Frame /\ InOrder(Routing(m), request, issued)
    BY <2>1, <2>2 DEF Routing, Frame, InOrder
  <2>. QED BY <1>4, <2>3, <2>4
<1>17. ASSUME NEW type \in {"request", "request_no_return"}, NEW m \in Methods,
              NEW s \in Sessions, NEW body \in {"req", "junk", "cut"},
              deliver_request(type, m, s, body)
       PROVE  \A i \in 1 .. Len(stack') : InOrder(stack'[i], request', issued')
  <2>. DEFINE msg == [type |-> type, method |-> m, session |-> s, body |-> body,
                      ok |-> TRUE, origin |-> Foreign]
  <2>1. msg \in Message /\ msg.origin = Foreign
    BY ForeignMade DEF Types, Bodies
  <2>2. Push(Routing(msg))
    BY <1>17 DEF deliver_request
  <2>. HIDE DEF msg
  <2>3. Routing(msg) \in Frame /\ InOrder(Routing(msg), request, issued)
    BY <2>1 DEF Routing, Frame, InOrder, Calls
  <2>. QED BY <1>4, <2>2, <2>3
<1>. QED
  BY <1>10, <1>11, <1>12, <1>13, <1>14, <1>15, <1>16, <1>17 DEF Next
-----------------------------------------------------------------------------
LEMMA NextIInv == IInv /\ [Next]_vars => IInv'
<1>. SUFFICES ASSUME IInv, [Next]_vars PROVE IInv'
  OBVIOUS
<1>1. TypeOK'
  BY TypeStep DEF IInv
<1>2. StackCarries'
  BY StackStep
<1>3. /\ Numbered' /\ Requests' /\ CounterFollows' /\ SessionWindow' /\ Answers'
      /\ SlotsAreLive' /\ NoWaiterLost' /\ OwnUnlessAmbiguous'
  <2>1. CASE UNCHANGED <<session_counter, pending, callVars, history>>
    BY <2>1
    DEF callVars, history, IInv, Sound, Numbered, Requests, CounterFollows, SessionWindow,
        Answers, SlotsAreLive, NoWaiterLost, OwnUnlessAmbiguous, Completed, Displaced, Begun,
        Around, Advance
  <2>2. CASE \E c \in Calls, m \in Methods, body \in {"req", "junk"} : async_call(c, m, body)
    BY <2>2, BuildStep
  <2>3. CASE \E c \in Calls : start(c) \/ start_remote(c)
    BY <2>3, RegisterStep
  <2>4. CASE \E c \in Calls : route_unawaited(c)
    BY <2>4, UnawaitedStep
  <2>5. CASE CompletePending
    BY <2>5, CompleteStep
  <2>. QED BY <2>1, <2>2, <2>3, <2>4, <2>5, StepKinds
<1>. QED BY <1>1, <1>2, <1>3 DEF IInv, Sound

(* The invariant holds in every state of every behaviour.                  *)
THEOREM Invariance == Spec => []IInv
BY InitIInv, NextIInv, PTL DEF Spec

(* Every variable keeps its type, the stack of frames included.            *)
THEOREM TypeCorrect == Spec => []TypeOK
<1>1. IInv => TypeOK
  BY DEF IInv
<1>. QED BY <1>1, Invariance, PTL

(* application::route never calls through a slot whose operation is not    *)
(* waiting: whatever the slot points to was started, under that session    *)
(* number, and has not completed.                                          *)
THEOREM LiveSlots == Spec => []SlotsAreLive
<1>1. IInv => SlotsAreLive
  BY DEF IInv
<1>. QED BY <1>1, Invariance, PTL

(* A waiting call is lost only to a call that was given the same session   *)
(* number, however calls nest inside callbacks and implementations.        *)
THEOREM WaitersKept == Spec => []NoWaiterLost
<1>1. IInv => NoWaiterLost
  BY DEF IInv
<1>. QED BY <1>1, Invariance, PTL

(* A call of this application is completed only by a response that carries *)
(* its session number.                                                     *)
THEOREM AnswersMatch == Spec => []OwnUnlessAmbiguous
<1>1. IInv => OwnUnlessAmbiguous
  BY DEF IInv
<1>. QED BY <1>1, Invariance, PTL

(* next_session runs through all of 1 .. SessionMod - 1 before it repeats  *)
(* a number, for a counter of any width.                                   *)
THEOREM SessionsApart == Spec => []SessionsDistinct
<1>1. IInv => SessionsDistinct
  <2>. SUFFICES ASSUME IInv, NEW c \in 1 .. issued, NEW d \in 1 .. issued
                PROVE  /\ request[c].session # 0
                       /\ c < d /\ request[c].session = request[d].session
                            => d - c >= SessionMod - 1
    BY DEF SessionsDistinct
  <2>1. /\ request[c].session \in 1 .. SessionMod - 1
        /\ c \in Int /\ d \in Int
    BY DEF IInv, Sound, Requests, Message, Sessions, TypeOK
  <2>2. c < d /\ d - c < SessionMod - 1 =>
          request[d].session = Around(request[c].session, d - c)
    BY <2>1 DEF IInv, Sound, SessionWindow
  <2>. QED BY <2>1, <2>2, RpcAssumption DEF Around
<1>. QED BY <1>1, Invariance, PTL

(* A completed call stays as it is: no second response reaches it.         *)
THEOREM CompletionOnce == Spec => CompletesOnce
<1>1. IInv /\ [Next]_vars =>
        [\A c \in Calls : Completed(c) =>
            status'[c] = status[c] /\ answered_by'[c] = answered_by[c]]_vars
  <2>. SUFFICES ASSUME IInv, [Next]_vars, NEW c \in Calls, Completed(c)
                PROVE  status'[c] = status[c] /\ answered_by'[c] = answered_by[c]
    OBVIOUS
  <2>0. TypeOK /\ status[c] \in {"value", "error"} /\ c <= issued
    BY DEF IInv, Sound, Numbered, Completed
  <2>1. CASE UNCHANGED <<session_counter, pending, callVars, history>>
    BY <2>1 DEF callVars, history
  <2>2. CASE \E d \in Calls, m \in Methods, body \in {"req", "junk"} : async_call(d, m, body)
    BY <2>0, <2>2 DEF async_call, TypeOK, Calls
  <2>3. CASE \E d \in Calls : start(d) \/ start_remote(d)
    BY <2>0, <2>3 DEF start, start_remote, register_pending, history, TypeOK
  <2>4. CASE \E d \in Calls : route_unawaited(d)
    BY <2>0, <2>4 DEF route_unawaited, history, TypeOK
  <2>5. CASE CompletePending
    <3>1. Top.msg.session \in Sessions
      BY <2>0, <2>5, TopFrame DEF CompletePending, TypeOK, Message
    <3>2. status[pending[Top.msg.session]] = "pending"
      BY <2>5, <3>1 DEF CompletePending, IInv, SlotsAreLive
    <3>. QED BY <2>0, <2>5, <3>2 DEF CompletePending, TypeOK
  <2>. QED BY <2>1, <2>2, <2>3, <2>4, <2>5, StepKinds
<1>. QED BY <1>1, Invariance, PTL DEF Spec, CompletesOnce

(* A response that reaches route completes the waiting call that caused    *)
(* it, unless another call was given the same session number.              *)
THEOREM AnswersArrive == Spec => NoAnswerDropped
<1>1. IInv /\ [Next]_vars =>
        [\A c \in Calls :
            /\ At("route") /\ is_response(Top.msg)
            /\ Top.msg.origin = c /\ status[c] = "pending"
            => Completed(c)' \/ Displaced(c)]_vars
  <2>. SUFFICES ASSUME IInv, Next, vars' # vars, NEW c \in Calls, At("route"),
                       is_response(Top.msg), Top.msg.origin = c, status[c] = "pending",
                       ~ Displaced(c)
                PROVE  Completed(c)'
    BY DEF vars
  <2>1. /\ stack # <<>> /\ Len(stack) \in 1 .. Len(stack)
        /\ Top.msg.session = request[c].session
    BY TopFrame DEF IInv, TypeOK, Sound, StackCarries, Top, At
  <2>2. pending[request[c].session] = c
    BY DEF IInv, NoWaiterLost
  <2>3. CompletePending
    BY <2>1, <2>2, RpcAssumption
    DEF Next, register_handler, unregister_handler, clear, async_call, start, route_unawaited,
        start_remote, Dispatch, impl_returns, user_returns, deliver_response, deliver_request,
        UserRuns, At, Calls
  <2>4. status'[c] \in {"value", "error"}
    BY <2>1, <2>2, <2>3 DEF CompletePending, IInv, TypeOK
  <2>. QED BY <2>4 DEF Completed
<1>. QED BY <1>1, Invariance, PTL DEF Spec, NoAnswerDropped
=============================================================================
