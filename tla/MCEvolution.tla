---------------------------- MODULE MCEvolution ----------------------------
(* Small instances of Evolution *)
EXTENDS EvolutionProofs

(* A two-stage integrator whose second stage sits at the whole step *)
Rk2Beta == [s \in {1} |-> 1]

=============================================================================
