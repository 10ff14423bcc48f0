----------------------------- MODULE Inversion ------------------------------
(***************************************************************************)
(* What the kernels of one cell do to the state of the fluid: the two      *)
(* inversions of conserved into primitive variables, the bounds, and the   *)
(* injection of floors.                                                    *)
(*                                                                         *)
(* A primitive state is the density rho, the energy density u and the      *)
(* motion w = W^2 - 1, in small units.  A conserved state is named by the  *)
(* primitive state prim2con::p2c maps to it, so that p2c is the identity;  *)
(* a conserved state whose energy does not suffice for its momentum has a  *)
(* negative u, and one that holds a NaN is NaN.                            *)
(***************************************************************************)
EXTENDS Integers

CONSTANTS
  RhoFloor, SieFloor,  \* Floors: density and specific energy
  SieMax, WMax,        \* Ceilings: e_max and gamma_max^2 - 1
  One                  \* the units of w that make W^2 - 1 = 1

ASSUME InversionAssumption ==
  /\ RhoFloor \in Nat \ {0} /\ SieFloor \in Nat \ {0}
  /\ SieMax \in Nat /\ SieMax >= SieFloor
  /\ WMax \in Nat \ {0} /\ One \in Nat \ {0}

State(rho, u, w) == [rho |-> rho, u |-> u, w |-> w]
NaN == State(-1, 0, 0)
(* 10 or 100 times robust::SMALL() in units of the floors, at rest *)
Tiny == State(0, 0, 0)

AtLeast(x, lo) == IF x < lo THEN lo ELSE x
AtMost(x, hi) == IF x > hi THEN hi ELSE x

----------------------------------------------------------------------------
(* con2prim_robust: the master function clamps what it evaluates           *)

(* v^2 is clamped where W is computed, but not in the velocity u^i = W v^i *)
(* that is written: W^2 - 1 of it is gamma_max^2 v^2, between gamma_max^2  *)
(* - 1 and gamma_max^2, and so above the ceiling.  (In whole units, and    *)
(* with v of the state: mu, and v with it, is another root in that range.) *)
written(s) ==
  IF s.w <= WMax THEN s.w
  ELSE -((-((One + WMax) * s.w)) \div (One + s.w))
rhohat(s) == AtLeast(s.rho, RhoFloor)
ehat(s) == AtMost(AtLeast(s.u, SieFloor * rhohat(s)), SieMax * rhohat(s))
Clamped(s) == State(rhohat(s), ehat(s), written(s))

used_density_floor(s) == s.rho <= RhoFloor
used_energy_floor(s) == s.u <= SieFloor * rhohat(s)
used_gamma_max(s) == s.w > WMax

(* A cell is its primitives, its conserved state and its flag "fail".      *)
Cell(prim, cons, ok) == [prim |-> prim, cons |-> cons, ok |-> ok]

(* A NaN returns before anything is written; otherwise the primitives are  *)
(* written even when the cell is then said to have failed                  *)
RobustSolve(c, failOnFloors, failOnCeilings) ==
  IF c.cons = NaN
    THEN [c EXCEPT !.ok = FALSE]
    ELSE LET hat == Clamped(c.cons)
         IN Cell(hat, hat,
                 /\ ~(failOnFloors /\ (used_density_floor(c.cons)
                                         \/ used_energy_floor(c.cons)))
                 /\ ~(failOnCeilings /\ used_gamma_max(c.cons)))

(* Setup guesses the density with 1 / sqrt(1 - W^2 v^2): not a number once  *)
(* the last primitives have W^2 - 1 of one or more                         *)
GuessIsNaN(c) == c.cons = NaN \/ c.prim = NaN \/ c.prim.w >= One

(* Nothing is clamped, and Finalize writes the last guess of a failed solve *)
ClassicSolve(c) ==
  CASE GuessIsNaN(c) -> Cell(NaN, c.cons, FALSE)
    [] ~GuessIsNaN(c) /\ c.cons.u < 0 ->
         Cell(State(c.cons.rho, 0, c.cons.w), c.cons, FALSE)
    [] OTHER -> Cell(c.cons, c.cons, TRUE)

----------------------------------------------------------------------------
(* Floors and ceilings                                                     *)

(* Mass and energy at rest in the normal frame are added to what is there  *)
Inject(cons, drho, du) ==
  IF cons = NaN THEN NaN
  ELSE State(cons.rho + drho, cons.u + du,
             (cons.w * cons.rho) \div (cons.rho + drho))

(* The rescaling of u^i by sqrt(gamma_max^2 - 1) / (W^2 - 1): a fluid at   *)
(* rest becomes NaN                                                        *)
Rescaled(s) == IF s.w = 0 THEN NaN ELSE [s EXCEPT !.w = (WMax * One) \div s.w]

FloorsHold(s) == s.rho >= RhoFloor /\ s.u >= RhoFloor * SieFloor
CeilingsHold(s) == s.w <= WMax /\ s.u <= SieMax * s.rho
InBounds(s) == s # NaN /\ FloorsHold(s) /\ CeilingsHold(s)

(* Density and energy the floors add; a NaN compares to nothing *)
Missing(s) ==
  LET drho == RhoFloor - s.rho
      du == RhoFloor * SieFloor - s.u
      more == AtLeast(drho, du \div SieFloor)
  IN State(more, AtLeast(du, SieFloor * more), 0)
FloorApplied(s) == s # NaN /\ ~FloorsHold(s)

FloorCell(c, failOnFloors, failOnCeilings) ==
  IF ~FloorApplied(c.prim) THEN c
  ELSE LET add == Missing(c.prim)
           solved == RobustSolve([c EXCEPT !.cons = Inject(c.cons, add.rho, add.u)],
                                 failOnFloors, failOnCeilings)
       IN IF solved.ok THEN [solved EXCEPT !.ok = c.ok]
          ELSE Cell(add, add, c.ok)   \* "set to floors": what was missing

CeilCell(c) ==
  IF c.prim = NaN \/ CeilingsHold(c.prim) THEN c
  ELSE LET slowed == Rescaled(c.prim) IN Cell(slowed, slowed, c.ok)

=============================================================================
