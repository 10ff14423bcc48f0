----------------------------- MODULE MCNetField ------------------------------
(* Instances of NetField for model checking.                               *)
EXTENDS NetFieldProofs, TLC

CONSTANTS r1, r2

=============================================================================
