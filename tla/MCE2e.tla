------------------------------- MODULE MCE2e -------------------------------
EXTENDS Enforced

(* Two clients of one service, each calling a method of its own.           *)
MCHeaders == {[client |-> 1, service |-> 7, method |-> 1],
              [client |-> 2, service |-> 7, method |-> 2]}
MCPolicies ==
  [sender |-> {add(no_rules, allow_all), add(add(no_rules, deny_client(2)), allow_all)},
   receiver |-> {add(no_rules, allow_service_method(7, 1)),
                 add(add(no_rules, allow_client_service(2, 7)), deny_all),
                 add(add(no_rules, deny_client(1)), allow_all),
                 add(add(no_rules, rule(any, 7, 5, any, "deny")), allow_all)}]
=============================================================================
