------------------------------ MODULE MCSwarms -------------------------------
(* Instances of Swarms for model checking: blocks 1 and 2 on one rank,     *)
(* block 3 on another, three particles.                                    *)
EXTENDS SwarmsProofs

CONSTANTS r1, r2

Owners == <<r1, r1, r2>>
Ids == 1 .. 3

MonteCarlo == [method |-> "monte_carlo", nlim |-> 2, outflow |-> TRUE, absorption |-> TRUE,
               remove_emitted |-> FALSE, tuning |-> "dynamic_difference",
               fmks |-> FALSE, horizon |-> 0, update_fluid |-> TRUE]
Tracers == [MonteCarlo EXCEPT !.method = "tracers"]
Mocmc == [MonteCarlo EXCEPT !.method = "mocmc", !.nlim = 1, !.outflow = FALSE]
Considered ==
  {MonteCarlo, [MonteCarlo EXCEPT !.absorption = FALSE, !.remove_emitted = TRUE,
                                  !.tuning = "static"],
   Tracers, [Tracers EXCEPT !.fmks = TRUE, !.horizon = 1], Mocmc}

(* Moving towards each other; all in one cell, which they leave *)
Crossing == << <<1, 2, 3>>, <<1, 1, -1>> >>
Parting == << <<2, 2, 2>>, <<1, -1, 0>> >>
StartsConsidered == [method \in {"monte_carlo", "tracers", "mocmc"} |->
                       IF method = "mocmc" THEN {Parting} ELSE {Crossing, Parting}]

(* In the grid; one sample seen from a fluid that is faster *)
Dir(mu, phi) == [mu |-> mu, phi |-> phi]
DirectionsConsidered ==
  {<<Dir(1, 5), Dir(2, 1), Dir(3, 9)>>, <<Dir(2, 11), Dir(5, 3), Dir(1, 7)>>}

=============================================================================
