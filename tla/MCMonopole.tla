----------------------------- MODULE MCMonopole ------------------------------
(* Instances of Monopole for model checking.                               *)
EXTENDS MonopoleProofs, TLC

CONSTANTS r1, r2

(* The default of monopole_gr/run_n_times: no limit *)
Always == -1

=============================================================================
