------------------------------ MODULE MCUring ------------------------------
EXTENDS Uring, TLC

CONSTANTS o1, o2, o3

MCOps     == {o1, o2, o3}
MCResults == o1 :> {-1, 0} @@ o2 :> {0} @@ o3 :> {0}
=============================================================================
