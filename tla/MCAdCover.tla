----------------------------- MODULE MCAdCover -----------------------------
(* AdCover for TLC with three breaks and no other mishap.                  *)
EXTENDS AdCover
Breaks == [m \in CoverMishaps |-> IF m = "break" THEN 3 ELSE 0]
=============================================================================
