----------------------------- MODULE MCHashMap ------------------------------
(* HashMap with a table small enough to fill: four keys, two of them with  *)
(* one home and one fingerprint, one whose path wraps around at once.      *)
EXTENDS HashMap, TLC

CONSTANTS k1, k2, k3, k4, v, w

MCKeys == {k1, k2, k3, k4}
MCHash == k1 :> 0 @@ k2 :> 1 @@ k3 :> 15 @@ k4 :> 6
MCFp == k1 :> "x" @@ k2 :> "x" @@ k3 :> "y" @@ k4 :> "y"
=============================================================================
