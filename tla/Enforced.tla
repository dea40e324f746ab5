------------------------------ MODULE Enforced -----------------------------
(***************************************************************************)
(* Access control in front of end-to-end protection.  Both ends have a     *)
(* policy, an ordered list of rules, and an enforcer that lets a message   *)
(* pass or ends the pipeline with a security_error:                        *)
(*                                                                         *)
(*   just(message) | enforce(policy) | protect(state) | send ...           *)
(*   receive       | enforce(policy) | check(state)   | ...                *)
(*                                                                         *)
(* E2e says what is under way and how it is judged; here each message has  *)
(* a header too, and the network may cut one so short that it has none.    *)
(***************************************************************************)
EXTENDS E2e, SequencesExt

CONSTANTS
  Headers,  \* of the messages: [client, service, method]
  Instance, \* the instance that enforce() is given, or any
  any,      \* any_client, any_service, any_instance and any_method
  Policies, \* the policies that each end may have been set up with
  None

Ends == {"sender", "receiver"}

ASSUME EnforcedAssumption ==
  /\ None \notin Headers
  /\ \A end \in Ends : \A p \in Policies[end] : Len(p) \in Nat /\ DOMAIN p = 1 .. Len(p)

VARIABLES
  policies, \* of both ends; they do not change once they are enforced
  headers,  \* of the messages under way, None if one was cut
  outcome   \* history: what an enforcer did last, and with which message

accessVars == <<policies, headers, outcome>>
enforcedVars == <<vars, accessVars>>
-----------------------------------------------------------------------------
rule(c, s, i, m, act) == [client |-> c, service |-> s, instance |-> i, method |-> m, act |-> act]
allow_all == rule(any, any, any, any, "allow")
deny_all  == rule(any, any, any, any, "deny")
allow_client_service(c, s) == rule(c, s, any, any, "allow")
deny_client(c)             == rule(c, any, any, any, "deny")
allow_service_method(s, m) == rule(any, s, any, m, "allow")

Matches(r, h) ==
  /\ r.client \in {any, h.client}
  /\ r.service \in {any, h.service}
  /\ r.instance \in {any, Instance}
  /\ r.method \in {any, h.method}

(* policy: the rules are gone through in the order they were added.        *)
no_rules == <<>>
add(p, r) == Append(p, r)
evaluate_LastMatch(p, h) ==
  FoldLeft(LAMBDA act, r : IF Matches(r, h) THEN r.act ELSE act, "deny", p)
evaluate(p, h) ==
  FoldRight(LAMBDA r, act : IF Matches(r, h) THEN r.act ELSE act, p, "deny")

(* enforce_sender::set_value: the message is passed on, or an error is,    *)
(* with the fields of the header or zeros.                                 *)
security_error(c, s, m) == [client |-> c, service |-> s, method |-> m]
is_allowed(end, h) == h # None /\ evaluate(policies[end], h) = "allow"
Enforce(end, h) ==
  outcome' = [at |-> end, header |-> h,
              error |-> CASE is_allowed(end, h) -> None
                          [] h = None -> security_error(0, 0, 0)
                          [] OTHER -> security_error(h.client, h.service, h.method)]
-----------------------------------------------------------------------------
EnforcedInit ==
  /\ Init
  /\ policies \in {p \in [Ends -> UNION {Policies[end] : end \in Ends}] :
                     \A end \in Ends : p[end] \in Policies[end]}
  /\ headers = <<>>
  /\ outcome = None

(* A message that is denied does not reach protect_sender, which counts.   *)
send(h, body) ==
  /\ Enforce("sender", h)
  /\ \/ /\ is_allowed("sender", h)
        /\ IF body = "bare" THEN pass_bare ELSE protect(body)
        /\ headers' = Append(headers, h)
     \/ /\ ~ is_allowed("sender", h)
        /\ UNCHANGED <<vars, headers>>
  /\ UNCHANGED policies

network_loses ==
  /\ lose
  /\ headers' = Tail(headers)
  /\ UNCHANGED <<policies, outcome>>

network_corrupts == corrupt /\ UNCHANGED accessVars

network_cuts ==
  /\ headers # <<>>
  /\ headers' = [headers EXCEPT ![1] = None]
  /\ UNCHANGED <<vars, policies, outcome>>

(* A message that is denied does not reach check_sender, and its counter   *)
(* is not looked at.                                                       *)
discard(again) ==
  /\ channel' = IF again THEN channel ELSE Tail(channel)
  /\ UNCHANGED <<send_counter, recv_counter, number, checked, accepted, verdict>>

receive_ChecksFirst(again) ==
  /\ headers # <<>>
  /\ LET h == Head(headers) IN
       /\ Enforce("receiver", h)
       /\ recv_counter' = Head(channel).counter
       /\ channel' = IF again THEN channel ELSE Tail(channel)
       /\ UNCHANGED <<send_counter, number, checked, accepted, verdict>>
  /\ headers' = IF again THEN headers ELSE Tail(headers)
  /\ UNCHANGED policies
receive(again) ==
  /\ headers # <<>>
  /\ LET h == Head(headers) IN
       /\ Enforce("receiver", h)
       /\ IF is_allowed("receiver", h) THEN check(again) ELSE discard(again)
  /\ headers' = IF again THEN headers ELSE Tail(headers)
  /\ UNCHANGED policies

EnforcedNext ==
  \/ \E h \in Headers, body \in {"bare", "short", "intact"} : send(h, body)
  \/ network_loses \/ network_corrupts \/ network_cuts
  \/ \E again \in BOOLEAN : receive(again)

EnforcedSpec == EnforcedInit /\ [][EnforcedNext]_enforcedVars
-----------------------------------------------------------------------------
(* The first rule that speaks of a message decides, and nothing allows one *)
(* that no rule speaks of: a rule put behind another has a say only where  *)
(* that has none.                                                          *)
Decided(p, h) ==
  \E i \in DOMAIN p :
    /\ Matches(p[i], h) /\ p[i].act = "allow"
    /\ \A j \in 1 .. i - 1 : ~ Matches(p[j], h)

(* Whatever is judged by the receiver's protection was allowed at both     *)
(* ends, and what is refused has been refused by a policy, or was cut.     *)
Judged == <<recv_counter, checked, accepted, verdict>>
AllowedAtBothEnds ==
  [][/\ Judged' # Judged =>
          /\ Head(headers) # None
          /\ \A end \in Ends : Decided(policies[end], Head(headers))
     /\ outcome' # outcome /\ outcome'.error # None =>
          outcome'.header = None \/ ~ Decided(policies[outcome'.at], outcome'.header)]_enforcedVars

(* To the protection a message that is denied is like one that is lost:    *)
(* the receiver's verdicts on those that are allowed stay right, and count *)
(* the denied ones as missed.                                              *)
DeniedIsLost == Spec
=============================================================================
