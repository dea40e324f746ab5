------------------------------ MODULE Routing ------------------------------
(***************************************************************************)
(* The routing manager used by several threads: the registry of the        *)
(* instances of one service, guarded by a shared mutex, and the            *)
(* availability handlers, which are called after the mutex is released.    *)
(*                                                                         *)
(* A thread's stack holds what it is in the middle of: "notify" is         *)
(* dispatcher::notify_availability, about to call handler number next;     *)
(* "visit" is registry::for_each, holding the mutex shared.  A handler     *)
(* that has been called and has not returned may use the manager again.    *)
(***************************************************************************)
EXTENDS Integers, Sequences, FiniteSets

CONSTANTS
  Threads,
  Keys,         \* the (service, instance) keys of the registry
  Owner,        \* the only thread that changes a key, or Anyone
  Anyone,
  MaxHandlers,  \* bound: how many availability handlers are registered
  MaxDepth      \* bound: how deep calls nest

ASSUME RoutingAssumption ==
  /\ IsFiniteSet(Threads)
  /\ Owner \in [Keys -> Threads \union {Anyone}] /\ Anyone \notin Threads
  /\ MaxHandlers \in Nat /\ MaxDepth \in Nat \ {0}

VARIABLES
  services,  \* registry::services_
  readers,   \* the threads that hold registry::mu_ shared
  stack,     \* what each thread is in the middle of, innermost last
  handlers,  \* how many handlers dispatcher::availability_handlers_ holds
  heard,     \* what each handler was last told of each key
  balance    \* history: ups less downs told, from what held at registration

vars == <<services, readers, stack, handlers, heard, balance>>

Target     == {"unknown", "local", "remote"}
Handlers   == 1 .. handlers
Registered == {k \in Keys : services[k] # "unknown"}

Top(t)      == stack[t][Len(stack[t])]
Push(t, f)  == stack' = [stack EXCEPT ![t] = Append(@, f)]
Pop(t)      == stack' = [stack EXCEPT ![t] = SubSeq(@, 1, Len(@) - 1)]
Become(t, f) == stack' = [stack EXCEPT ![t][Len(stack[t])] = f]
In(t, where) == stack[t] # <<>> /\ Top(t).at = where

(* User code runs on the thread: its own, or that of a running handler.    *)
UserRuns(t) ==
  /\ Len(stack[t]) < MaxDepth
  /\ stack[t] # <<>> => Top(t).at = "notify" /\ Top(t).next > 1

(* How the integrator uses a key that has an owner: other threads leave it *)
(* alone, and so does a handler while it is told of that very key.         *)
MayChange(t, k) ==
  \/ Owner[k] = Anyone
  \/ Owner[k] = t /\ \A i \in 1 .. Len(stack[t]) : stack[t][i].key # k
-----------------------------------------------------------------------------
Init ==
  /\ services = [k \in Keys |-> "unknown"]
  /\ readers = {}
  /\ stack = [t \in Threads |-> <<>>]
  /\ handlers = 0
  /\ heard = [h \in 1 .. MaxHandlers |-> [k \in Keys |-> "nothing"]]
  /\ balance = [h \in 1 .. MaxHandlers |-> [k \in Keys |-> 0]]

(* Set-up, while no thread is using the tables.  The handler is not told   *)
(* of what is registered already.                                          *)
on_availability ==
  /\ \A t \in Threads : stack[t] = <<>>
  /\ handlers < MaxHandlers
  /\ handlers' = handlers + 1
  /\ balance' = [balance EXCEPT ![handlers + 1] =
                   [k \in Keys |-> IF k \in Registered THEN 1 ELSE 0]]
  /\ UNCHANGED <<services, readers, stack, heard>>

(* The mutex is free for a writer.                                         *)
Exclusive_Skipped == TRUE
Exclusive == readers = {}

(* registry::offer, under the mutex, and the decision to notify, outside.  *)
Insert_Always(t, k, where) ==
  /\ Exclusive
  /\ services' = [services EXCEPT ![k] = where]
  /\ Push(t, [at |-> "notify", key |-> k, up |-> TRUE, next |-> 1])
Insert(t, k, where) ==
  /\ Exclusive
  /\ services' = [services EXCEPT ![k] = where]
  /\ \/ k \in Registered /\ UNCHANGED stack
     \/ k \notin Registered /\ Push(t, [at |-> "notify", key |-> k, up |-> TRUE, next |-> 1])

(* registry::stop_offer likewise.                                          *)
Erase_TellsLocal(t, k) ==
  /\ Exclusive
  /\ services' = [services EXCEPT ![k] = "unknown"]
  /\ \/ services[k] # "local" /\ UNCHANGED stack
     \/ services[k] = "local" /\ Push(t, [at |-> "notify", key |-> k, up |-> FALSE, next |-> 1])
Erase(t, k) ==
  /\ Exclusive
  /\ services' = [services EXCEPT ![k] = "unknown"]
  /\ \/ k \notin Registered /\ UNCHANGED stack
     \/ k \in Registered /\ Push(t, [at |-> "notify", key |-> k, up |-> FALSE, next |-> 1])

Change(t, k) ==
  /\ UserRuns(t) /\ MayChange(t, k)
  /\ UNCHANGED <<readers, handlers, heard, balance>>

offer_service(t, k)         == Change(t, k) /\ Insert(t, k, "local")
add_remote_service(t, k)    == Change(t, k) /\ Insert(t, k, "remote")
stop_offer_service(t, k)    == Change(t, k) /\ Erase(t, k)
remove_remote_service(t, k) == Change(t, k) /\ Erase(t, k)

(* dispatcher::notify_availability loops over the handlers, calling each.  *)
More(f) == f.next <= handlers

call_handler(t) ==
  /\ In(t, "notify")
  /\ LET f == Top(t) IN
       /\ More(f)
       /\ heard' = [heard EXCEPT ![f.next][f.key] = IF f.up THEN "up" ELSE "down"]
       /\ balance' = [balance EXCEPT ![f.next][f.key] = IF f.up THEN @ + 1 ELSE @ - 1]
       /\ Become(t, [f EXCEPT !.next = @ + 1])
  /\ UNCHANGED <<services, readers, handlers>>

notify_returns(t) ==
  /\ In(t, "notify")
  /\ ~ More(Top(t))
  /\ Pop(t)
  /\ UNCHANGED <<services, readers, handlers, heard, balance>>

(* registry::for_each: the mutex is taken shared, the function is called   *)
(* on each registered key in turn, and the mutex is released.              *)
for_each(t) ==
  /\ UserRuns(t)
  /\ readers' = readers \union {t}
  /\ Push(t, [at |-> "visit", seen |-> {}])
  /\ UNCHANGED <<services, handlers, heard, balance>>

visit_next(t) ==
  /\ In(t, "visit")
  /\ \E k \in Registered \ Top(t).seen :
       Become(t, [Top(t) EXCEPT !.seen = @ \union {k}])
  /\ UNCHANGED <<services, readers, handlers, heard, balance>>

for_each_returns(t) ==
  /\ In(t, "visit")
  /\ Registered \subseteq Top(t).seen
  /\ readers' = readers \ {t}
  /\ Pop(t)
  /\ UNCHANGED <<services, handlers, heard, balance>>

Next ==
  \/ on_availability
  \/ \E t \in Threads, k \in Keys : offer_service(t, k)
  \/ \E t \in Threads, k \in Keys : add_remote_service(t, k)
  \/ \E t \in Threads, k \in Keys : stop_offer_service(t, k)
  \/ \E t \in Threads, k \in Keys : remove_remote_service(t, k)
  \/ \E t \in Threads : call_handler(t)
  \/ \E t \in Threads : notify_returns(t)
  \/ \E t \in Threads : for_each(t)
  \/ \E t \in Threads : visit_next(t)
  \/ \E t \in Threads : for_each_returns(t)

Spec == Init /\ [][Next]_vars
-----------------------------------------------------------------------------
(* The notifications of a key that are still to reach a handler.           *)
Frames == {p \in Threads \X (1 .. MaxDepth) : p[2] <= Len(stack[p[1]])}
Tells(f, h, k, up) == f.at = "notify" /\ f.key = k /\ f.up = up /\ f.next <= h
ToTell(h, k, up)   == {p \in Frames : Tells(stack[p[1]][p[2]], h, k, up)}

(* No notification is lost or invented, whatever the threads do: what a    *)
(* handler has been told, with what is on its way to it, adds up to what   *)
(* the registry holds.  It depends on the registry deciding under the      *)
(* mutex who inserted and who erased.                                      *)
NotificationsBalance ==
  \A h \in Handlers, k \in Keys :
    balance[h][k] + Cardinality(ToTell(h, k, TRUE)) - Cardinality(ToTell(h, k, FALSE))
      = IF k \in Registered THEN 1 ELSE 0

(* The order of notifications is not protected by anything.  For a key     *)
(* that one thread changes, and not from a handler of that key, a handler  *)
(* that has nothing more to hear believes what is so.                      *)
LastHeardIsRight ==
  \A h \in Handlers, k \in Keys :
    /\ Owner[k] # Anyone /\ heard[h][k] # "nothing"
    /\ ToTell(h, k, TRUE) = {} /\ ToTell(h, k, FALSE) = {}
    => heard[h][k] = IF k \in Registered THEN "up" ELSE "down"

(* While for_each runs, what it has shown its function is still registered.*)
VisitIsCurrent ==
  \A t \in Threads : \A i \in 1 .. Len(stack[t]) :
    stack[t][i].at = "visit" => stack[t][i].seen \subseteq Registered
=============================================================================
