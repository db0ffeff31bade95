------------------------------- MODULE MCSeam -------------------------------
(* Instances of Seam for TLC: orders that compete for the same stock.      *)
EXTENDS Seam, TLC

CONSTANTS r1, r2, s1, s2

Overlapping == (r1 :> (s1 :> 1 @@ s2 :> 1)) @@ (r2 :> (s1 :> 1 @@ s2 :> 0))
OneInAll == s1 :> 1 @@ s2 :> 1
=============================================================================
