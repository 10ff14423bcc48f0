----------------------------- MODULE SampleGrid ------------------------------
(***************************************************************************)
(* How MOCMCReconstruction divides the directions of a cell among its      *)
(* samples: each gets a box of mu and phi, whose size is its share of the  *)
(* solid angle.  phi is counted in Quarter-ths of pi / 2.                  *)
(***************************************************************************)
EXTENDS Integers, FiniteSets, SequencesExt

CONSTANTS
  Mu,       \* units of mu between 0 and 2
  Quarter   \* units of phi in pi / 2

ASSUME SampleGridAssumption == Mu \in Nat \ {0} /\ Quarter \in Nat \ {0}

Whole == [mu_lo |-> 0, mu_hi |-> Mu, phi_lo |-> 0, phi_hi |-> 4 * Quarter]
mu0(box) == box.mu_hi - box.mu_lo
phi0(box) == box.phi_hi - box.phi_lo
dOmega(box) == mu0(box) * phi0(box)

Inside(box, d) ==
  /\ box.mu_lo < d.mu /\ d.mu < box.mu_hi
  /\ box.phi_lo < d.phi /\ d.phi < box.phi_hi

(* Both "midpoints" are taken from the new sample alone: its own mu, and   *)
(* the mean of its phi and phi - pi.  Never above the sample, they always  *)
(* give it the upper part of the box.                                      *)
mu_split(d) == d.mu
phi_split(d) == d.phi - Quarter

Upper(box, d) == IF mu0(box) > phi0(box) THEN [box EXCEPT !.mu_lo = mu_split(d)]
                                         ELSE [box EXCEPT !.phi_lo = phi_split(d)]
(* Mutant: the old sample keeps its box *)
LowerKept(box, d) == box
Lower(box, d) == IF mu0(box) > phi0(box) THEN [box EXCEPT !.mu_hi = mu_split(d)]
                                         ELSE [box EXCEPT !.phi_hi = phi_split(d)]

(* Sample n against the samples before it in the list of the cell: the     *)
(* first whose box it is in is split; if there is none its box stays       *)
Insert(grid, n, dir) ==
  LET split == SelectInSeq(grid.seen, LAMBDA m : Inside(grid.box[m], dir[n]))
      old == grid.box[grid.seen[split]]
      box == CASE grid.seen = <<>> -> [grid.box EXCEPT ![n] = Whole]
               [] grid.seen # <<>> /\ split = 0 -> grid.box
               [] OTHER -> [grid.box EXCEPT ![n] = Upper(old, dir[n]),
                                            ![grid.seen[split]] = Lower(old, dir[n])]
  IN [seen |-> Append(grid.seen, n), box |-> box]

(* What may come of the samples in S, which are sorted by cell but in no   *)
(* order within it                                                         *)
Grids(S, dir, box) ==
  LET listed[k \in 0 .. Cardinality(S)] ==
        IF k = 0 THEN {[seen |-> <<>>, box |-> box]}
        ELSE UNION {{Insert(grid, n, dir) : n \in S \ ToSet(grid.seen)} : grid \in listed[k - 1]}
  IN listed[Cardinality(S)]

=============================================================================
