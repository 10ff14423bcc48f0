------------------------------ MODULE RadCells -------------------------------
(***************************************************************************)
(* The radiation moments in the cells of a block during sync_region_fixup: *)
(* their inversion, its repair and bounds, the exchange of energy with the *)
(* fluid, and what each step of the fluid does to them.                    *)
(*                                                                         *)
(* Moments are inverted in the frame of the fluid.  v numbers the          *)
(* velocities a cell has had; rest-frame moments remember the v they were  *)
(* computed with.  A moment is its energy and what is wrong with it:       *)
(*   "low" below the floor of J, "negative" J < 0, "beamed" xi >= 1, "nan" *)
(***************************************************************************)
EXTENDS Integers, FiniteSets

CONSTANTS
  Width,    \* interior cells of the block
  Species,  \* PHOEBUS_NUM_SPECIES; the solvers of the source know one
  MaxIter,  \* src_rootfind_maxiter
  EMax,     \* e_max: the energy of a fluid at its ceiling
  Updates,  \* bound: <<fluid, moment>> the update may leave in a cell
  Options   \* bound: the settings that are considered

Full == 8   \* energies of fluid and radiation before the stage
Kinds == {"ok", "low", "negative", "beamed", "nan"}

ASSUME RadCellsAssumption ==
  /\ Width \in Nat \ {0} /\ IsFiniteSet(Species) /\ Species # {} /\ MaxIter \in Nat \ {0}
  /\ EMax \in Nat /\ EMax >= Full
  /\ \A up \in Updates : up[2] \in Kinds
  /\ \A o \in Options : /\ o.closure_c2p_strategy \in {"robust", "frail"}
                        /\ o.oned_fixup_strategy \in {"none", "ignore_dJ", "ignore_all"}

VARIABLES
  set,      \* set: the settings of the run
  cell,     \* cell[c]
  step,     \* the next kernel
  pending,  \* what the kernel has not visited
  failed,   \* history: <<cell, species>> whose inversion failed
  budget,   \* history: energies of fluid and radiation before the source
  fell      \* history: cells whose source update was not solved, or not recovered

vars == <<set, cell, step, pending, failed, budget, fell>>

Interior == 1 .. Width
Row == 0 .. Width + 1
Neighbours(c) == {c - 1, c + 1}
Moment(E, kind) == [E |-> E, kind |-> kind]
Tiny == Moment(0, "low")
Coupled == CHOOSE s \in Species : TRUE   \* the species of the source
EnergyIn(x) == x.e + x.rad[Coupled].E
Sound(m) == m.kind \in {"ok", "low"}

Tasks == <<"FillDerived", "MomentCon2Prim", "C2PFixup", "RadFixup", "ApplyFloors",
           "MomentFluidSource", "ApplyFloors", "Done">>
Doing(task) == Tasks[step] = task
Pairs == Row \X Species

(* e: energy of the fluid; thin: below a floor; rad: E and F; prim: J and H *)
Start(up) ==
  [v |-> 0, e |-> Full, thin |-> FALSE, inverts |-> up[1], ok |-> TRUE, radok |-> TRUE,
   rad |-> [s \in Species |-> Moment(Full, up[2])],
   prim |-> [s \in Species |-> Moment(Full, "ok")], frame |-> [s \in Species |-> 0]]
Calm == <<"inverts", "ok">>

Init ==
  /\ set \in Options
  /\ \E up \in [Interior -> Updates] :
       cell = [c \in Row |-> Start(IF c \in Interior THEN up[c] ELSE Calm)]
  /\ step = 1 /\ pending = {} /\ failed = {} /\ fell = {}
  /\ budget = [c \in Interior |-> 0]

----------------------------------------------------------------------------
(* The inversion of the closure: robust repairs, frail refuses             *)

(* What it leaves as J and H; a negative J stays what it is: it is set to  *)
(* min(J, 10 * SMALL)                                                      *)
Con2Prim(m, strategy) ==
  IF m.kind = "beamed" /\ strategy = "robust" THEN Moment(m.E, "ok") ELSE m
ClosureFails(m, strategy) ==
  m.kind = "nan" \/ (strategy = "frail" /\ m.kind \in {"negative", "beamed"})

InFrame(x, s, m) == [x EXCEPT !.prim[s] = m, !.frame[s] = x.v]
Both(x, s, m) == [InFrame(x, s, m) EXCEPT !.rad[s] = m]
(* Op changes the moments of its species only *)
EachSpecies(Op(_, _), x, S) ==
  [x EXCEPT !.rad = [s \in Species |-> IF s \in S THEN Op(x, s).rad[s] ELSE @[s]],
            !.prim = [s \in Species |-> IF s \in S THEN Op(x, s).prim[s] ELSE @[s]],
            !.frame = [s \in Species |-> IF s \in S THEN Op(x, s).frame[s] ELSE @[s]]]

(* fluid::ConservedToPrimitive, seen from the radiation *)
FillDerived ==
  /\ Doing("FillDerived")
  /\ cell' = [c \in Row |->
       LET x == cell[c] IN
       IF x.inverts = "fails" THEN [x EXCEPT !.ok = FALSE]
       ELSE [x EXCEPT !.v = @ + 1, !.thin = x.inverts = "thin"]]
  /\ step' = step + 1 /\ pending' = Pairs
  /\ UNCHANGED <<set, failed, budget, fell>>

(* One flag for all species of a cell: the last to be inverted decides     *)
(* Mutant: the failure is not flagged *)
InvertedQuietly(x, s) ==
  LET m == Con2Prim(x.rad[s], set.closure_c2p_strategy)
  IN [InFrame(x, s, m) EXCEPT !.rad[s] = m]
Inverted(x, s) ==
  LET m == Con2Prim(x.rad[s], set.closure_c2p_strategy)
      bad == ClosureFails(x.rad[s], set.closure_c2p_strategy)
      y == InFrame(x, s, m)
  IN IF bad THEN [y EXCEPT !.radok = FALSE]
            ELSE [y EXCEPT !.rad[s] = m, !.radok = TRUE]

MomentCon2Prim(c, s) ==
  /\ Doing("MomentCon2Prim") /\ <<c, s>> \in pending
  /\ cell' = [cell EXCEPT ![c] = Inverted(@, s)]
  /\ failed' = IF ClosureFails(cell[c].rad[s], set.closure_c2p_strategy)
                 THEN failed \union {<<c, s>>} ELSE failed
  /\ pending' = pending \ {<<c, s>>}
  /\ step' = IF pending' = {} THEN step + 1 ELSE step
  /\ UNCHANGED <<set, budget, fell>>

----------------------------------------------------------------------------
(* Repairs                                                                 *)

(* A repaired fluid moves differently: moments that did not fail are       *)
(* inverted again, the others are left to the repair of the radiation      *)
Recomputed(x, s) == InFrame(x, s, Con2Prim(x.rad[s], "robust"))
(* Mutant: the moments stay those of the old frame *)
FluidOnlyRepaired(x) == [x EXCEPT !.v = @ + 1]
FluidRepaired(x) ==
  LET y == [x EXCEPT !.v = @ + 1]
  IN IF x.radok THEN EachSpecies(Recomputed, y, Species) ELSE y

C2PFixup ==
  /\ Doing("C2PFixup")
  /\ cell' = [c \in Row |-> IF c \in Interior /\ ~cell[c].ok
                              THEN FluidRepaired(cell[c]) ELSE cell[c]]
  /\ step' = step + 1 /\ pending' = Interior
  /\ UNCHANGED <<set, failed, budget, fell>>

Valid(c) == {n \in Neighbours(c) : cell[n].radok}
KindOf(S, s) ==
  CASE \A n \in S : cell[n].prim[s].kind = "ok" -> "ok"
    [] \E n \in S : cell[n].prim[s].kind = "negative" -> "negative"
    [] OTHER -> "low"
(* Failed neighbours enter times zero, which a NaN survives *)
fail(n) == IF cell[n].radok THEN 1 ELSE 0
Mean(c, s) ==
  (fail(c - 1) * cell[c - 1].prim[s].E + fail(c + 1) * cell[c + 1].prim[s].E)
    \div (fail(c - 1) + fail(c + 1))
Interpolated(c, s) ==
  IF \E n \in Neighbours(c) : cell[n].prim[s].kind = "nan" THEN Moment(0, "nan")
  ELSE Moment(Mean(c, s), KindOf(Valid(c), s))
Stencil(c, s) ==
  IF set.rad_c2p_failure_strategy = "interpolate" /\ Valid(c) # {}
    THEN Interpolated(c, s) ELSE Tiny

RadRepaired(c) ==
  EachSpecies(LAMBDA x, s : Both(x, s, Stencil(c, s)), cell[c], Species)

RadFixupCell(c) ==
  /\ Doing("RadFixup") /\ c \in pending
  /\ cell' = IF cell[c].radok \/ ~set.enable_rad_floors THEN cell
             ELSE [cell EXCEPT ![c] = RadRepaired(c)]
  /\ pending' = pending \ {c}
  /\ step' = IF pending' = {} THEN step + 1 ELSE step
  /\ UNCHANGED <<set, failed, budget, fell>>

----------------------------------------------------------------------------
(* Bounds: those of the fluid change its motion, then those of J and xi    *)

(* The inversion clamps the energy, rewrites the conserved one and succeeds *)
UnderCeiling(e) == IF e > EMax THEN EMax ELSE e

num_species == IF set.enable_rad_floors THEN Species ELSE {}

FluidBound(x) ==
  IF ~x.thin THEN x
  ELSE EachSpecies(Recomputed,
                   [x EXCEPT !.v = @ + 1, !.e = UnderCeiling(@ + Full), !.thin = FALSE],
                   num_species)

(* Radiation at rest in the normal frame makes up for what J lacks *)
(* Mutant: the floor is zero *)
RadBoundAtZero(x, s) ==
  CASE x.prim[s].kind = "negative" -> Both(x, s, Moment(x.rad[s].E + 1, "ok"))
    [] x.prim[s].kind = "beamed" -> Both(x, s, Moment(x.rad[s].E, "ok"))
    [] OTHER -> x
RadBound(x, s) ==
  CASE x.prim[s].kind \in {"low", "negative"} -> Both(x, s, Moment(x.rad[s].E + 1, "ok"))
    [] x.prim[s].kind = "beamed" -> Both(x, s, Moment(x.rad[s].E, "ok"))
    [] OTHER -> x

BoundCell(x) == EachSpecies(RadBound, FluidBound(x), num_species)

ApplyFloors ==
  /\ Doing("ApplyFloors")
  /\ cell' = [c \in Row |-> BoundCell(cell[c])]
  /\ budget' = [c \in Interior |-> EnergyIn(BoundCell(cell[c]))]
  /\ step' = step + 1 /\ pending' = Interior
  /\ UNCHANGED <<set, failed, fell>>

----------------------------------------------------------------------------
(* MomentFluidSource: solve for the energy dE the radiation gains          *)

Exchanged == {-1, 1}
Solved(dE) == [success |-> TRUE, dE |-> dE]
Unsolved(dE) == [success |-> FALSE, dE |-> dE]   \* rejected, or never set

(* No bracket of the temperature is found, or the solution is unphysical   *)
oned ==
  {Solved(d) : d \in Exchanged} \union
  CASE set.oned_fixup_strategy = "none" -> {Unsolved(d) : d \in Exchanged}
    [] set.oned_fixup_strategy = "ignore_dJ" -> {Unsolved(d) : d \in Exchanged}
    [] set.oned_fixup_strategy = "ignore_all" -> {Solved(0)}

(* Newton's method: how the last of niter steps ended *)
NewtonSteps == {"converged", "not yet", "jacobian", "bad guess", "nan"}
NewtonSolves(niter, last) == last = "converged" /\ niter < MaxIter
fourd ==
  UNION {IF NewtonSolves(n, last) THEN {Solved(d) : d \in Exchanged}
         ELSE IF set.src_use_oned_backup THEN oned
         ELSE {Unsolved(d) : d \in Exchanged} : n \in 1 .. MaxIter, last \in NewtonSteps}

Solver == IF set.src_solver = "oned" THEN oned ELSE fourd

(* The moment gains dE if the solver succeeded *)
RadGain(x, s, r) ==
  IF r.success THEN [x EXCEPT !.rad[s].E = @ + r.dE] ELSE x
(* The fluid loses dE whether it did or not *)
(* Mutant: the sign of the exchange *)
FluidGain(x, r) ==
  IF set.update_fluid THEN [x EXCEPT !.e = @ + r.dE] ELSE x
FluidLoss(x, r) ==
  IF set.update_fluid THEN [x EXCEPT !.e = @ - r.dE] ELSE x

(* Set to near zero, fluid at rest *)
(* Mutant: the conserved moments are left *)
SetPrimToFloors(x, s) ==
  LET y == IF set.update_fluid THEN [x EXCEPT !.v = @ + 1, !.e = 0, !.thin = TRUE] ELSE x
  IN InFrame(y, s, Tiny)
SetToFloors(x, s) ==
  LET y == IF set.update_fluid THEN [x EXCEPT !.v = @ + 1, !.e = 0, !.thin = TRUE] ELSE x
  IN Both(y, s, Tiny)

(* Inversions that refuse what they would have to raise to a floor or slow *)
(* down, but not an energy above its ceiling                               *)
Recovered(x, s) ==
  LET y == IF set.update_fluid THEN [x EXCEPT !.v = @ + 1, !.e = UnderCeiling(@)] ELSE x
  IN InFrame(y, s, x.rad[s])

MomentFluidSource(c, r, fluidInverts, radInverts) ==
  /\ Doing("MomentFluidSource") /\ c \in pending
  /\ r \in Solver
  /\ LET s == Coupled
         x == FluidLoss(RadGain(cell[c], s, r), r)
         fluid == ~set.update_fluid \/ (fluidInverts /\ x.e > 0)
         rad == ~ClosureFails(x.rad[s], "frail") /\ (radInverts \/ ~set.update_fluid)
     IN /\ cell' = [cell EXCEPT ![c] =
                      IF fluid /\ rad THEN Recovered(x, s) ELSE SetToFloors(x, s)]
        /\ fell' = IF r.success /\ fluid /\ rad THEN fell ELSE fell \union {c}
  /\ pending' = pending \ {c}
  /\ step' = IF pending' = {} THEN step + 1 ELSE step
  /\ UNCHANGED <<set, failed, budget>>

Finished == Doing("Done") /\ UNCHANGED vars

Next ==
  \/ FillDerived \/ C2PFixup \/ ApplyFloors \/ Finished
  \/ \E c \in Row, s \in Species : MomentCon2Prim(c, s)
  \/ \E c \in Interior : RadFixupCell(c)
  \/ \E c \in Interior, r \in oned \union fourd, f, g \in BOOLEAN :
       MomentFluidSource(c, r, f, g)

Spec == Init /\ [][Next]_vars

----------------------------------------------------------------------------
(* Properties                                                              *)

Current(x) == \A s \in Species : x.frame[s] = x.v /\ x.prim[s] = x.rad[s]

(* Whatever repaired or bounded the fluid, the rest-frame moments the      *)
(* source starts from, and those the stage ends with, are the conserved    *)
(* ones seen from the fluid as it now moves.  (Without enable_rad_floors   *)
(* the bounds of the fluid leave them in the old frame.)                   *)
MomentsInFluidFrame ==
  set.enable_rad_floors /\ (Doing("MomentFluidSource") \/ Doing("Done")) =>
    \A c \in Interior : c \in pending \/ Doing("Done") => Current(cell[c])

Fixed(c, s) == Sound(cell[c].prim[s])
Repairing == Tasks[step] = "ApplyFloors" /\ step = 5

(* What the fixup of the fluid relies on: if the inversion of a moment     *)
(* failed, the repair of the radiation gives it a physical value.  (It     *)
(* does for one species with repairs enabled, if none of the neighbours it *)
(* interpolates failed or has a negative J.)                               *)
LoneFailuresFixedUp ==
  Repairing /\ set.enable_rad_floors /\ Cardinality(Species) = 1 =>
    \A p \in failed :
      /\ p[1] \in Interior
      /\ set.rad_c2p_failure_strategy = "interpolate" =>
           \A n \in Neighbours(p[1]) :
             <<n, p[2]>> \notin failed /\ Sound(cell[n].prim[p[2]])
      => Fixed(p[1], p[2])

(* The driver only applies floors after the source, which "already ensured *)
(* that a sensible state was returned": physical moments, in the frame of  *)
(* the fluid it left, the same as the conserved ones.                      *)
Sourced == Tasks[step] = "ApplyFloors" /\ step = 7
SensibleStateReturned ==
  Sourced => \A c \in Interior :
    Current(cell[c]) /\ \A s \in Species : Fixed(c, s)

(* A source that was solved and recovered moves energy between fluid and   *)
(* radiation and creates none; it loses some only where the fluid would    *)
(* end above its ceiling, which the inversion then calls a success.        *)
Kept(x, b) == EnergyIn(x) <= b /\ (x.e < EMax => EnergyIn(x) = b)
SourceConserves ==
  Sourced /\ set.update_fluid => \A c \in Interior \ fell : Kept(cell[c], budget[c])

(* With floors of the radiation no cell ends below them, be it that its    *)
(* inversion, its repair or its source failed.                             *)
RadiationAboveFloors ==
  Doing("Done") /\ set.enable_rad_floors =>
    \A c \in Interior, s \in Species : cell[c].prim[s].kind = "ok"

=============================================================================
