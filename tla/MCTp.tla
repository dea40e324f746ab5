-------------------------------- MODULE MCTp -------------------------------
EXTENDS Tp, TLC

CONSTANTS m1, m2, k1, k2

(* Two and a half segments, and exactly two.                               *)
MCPayloadSize == m1 :> 5 @@ m2 :> 4
MCDistinct    == m1 :> k1 @@ m2 :> k2
=============================================================================
