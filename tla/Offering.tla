----------------------------- MODULE Offering ------------------------------
(***************************************************************************)
(* The offers and requests of one application: application composes the    *)
(* routing manager, whose registry answers resolve(), with the discovery   *)
(* state machine that announces the offers.  Each call updates the two one *)
(* after the other on one thread.  The integrator's event loop calls tick  *)
(* and registers what it hears from other applications.                    *)
(***************************************************************************)
EXTENDS Discovery

CONSTANT Remote \* bound: the services that other applications may offer too

ASSUME OfferingAssumption == Remote \subseteq Services

VARIABLE services \* the registry: where each service is, if registered

offeringVars == <<vars, services>>

Target == {"unknown", "local", "remote"}

OfferingInit ==
  /\ Init
  /\ services = [s \in Services |-> "unknown"]

(* registry::offer inserts or overwrites, registry::stop_offer erases.     *)
register(s, where) == services' = [services EXCEPT ![s] = where]

(* routing_manager::offer_service, then discovery::start_offer.            *)
offer_service(s) ==
  /\ register(s, "local")
  /\ start_offer(s)

(* routing_manager::stop_offer_service erases whatever is registered;      *)
(* discovery::stop_offer does nothing if it finds no offer.                *)
stop_offer_service_NoRouter(s) ==
  /\ s \in Offered /\ stop_offer(s)
  /\ UNCHANGED services
stop_offer_service(s) ==
  /\ register(s, "unknown")
  /\ \/ s \in Offered /\ stop_offer(s)
     \/ s \notin Offered /\ UNCHANGED vars

request_service(s) == start_find(s) /\ UNCHANGED services

release_service(s) == stop_find(s) /\ UNCHANGED services

(* The event loop has heard another application's offer, or StopOffer.     *)
add_remote_service(s) == s \in Remote /\ register(s, "remote") /\ UNCHANGED vars

remove_remote_service(s) == s \in Remote /\ register(s, "unknown") /\ UNCHANGED vars

run_tick == (\E lost \in BOOLEAN : tick(lost)) /\ UNCHANGED services

time_passes == Elapse /\ UNCHANGED services

OfferingNext ==
  \/ \E s \in Services : offer_service(s)
  \/ \E s \in Services : stop_offer_service(s)
  \/ \E s \in Services : request_service(s)
  \/ \E s \in Services : release_service(s)
  \/ \E s \in Services : add_remote_service(s)
  \/ \E s \in Services : remove_remote_service(s)
  \/ run_tick
  \/ time_passes

OfferingFairness == WF_offeringVars(run_tick) /\ WF_offeringVars(time_passes)

OfferingSpec     == OfferingInit /\ [][OfferingNext]_offeringVars
OfferingFairSpec == OfferingSpec /\ OfferingFairness
-----------------------------------------------------------------------------
(* What the registry resolves as local is in the state machine's list of   *)
(* offers: it stays announced, whatever other applications announce and    *)
(* however often the service is offered and stopped.                       *)
LocalIsOffered == \A s \in Services : services[s] = "local" => s \in Offered
=============================================================================
