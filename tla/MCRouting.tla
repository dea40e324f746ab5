----------------------------- MODULE MCRouting -----------------------------
EXTENDS Routing, TLC

CONSTANTS t1, t2, k1, k2

(* Two threads fight over k1; k2 belongs to t1.                            *)
MCOwner == k1 :> Anyone @@ k2 :> t1
=============================================================================
