------------------------------ MODULE MCBarber ------------------------------
(* Barber for TLC.  The clients are interchangeable, which the safety run   *)
(* uses; the refinement and the liveness runs do not.                       *)
EXTENDS Barber, TLC

Symmetry == Permutations(Client)
=============================================================================
