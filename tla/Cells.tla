------------------------------- MODULE Cells --------------------------------
(***************************************************************************)
(* Inversion, repair and bounds of the fluid in the cells of a stage, on   *)
(* a ring of two blocks: sync_region_fixup, the exchange of the conserved  *)
(* state and async_region_3, without radiation.                            *)
(*                                                                         *)
(* A block is a row of interior cells between two ghost cells.  Inversion  *)
(* and bounds visit the entire row, the repair the interior only, in any   *)
(* order (a parallel kernel), reading the neighbours of each cell.         *)
(***************************************************************************)
EXTENDS Inversion, FiniteSets

CONSTANTS
  Width,       \* interior cells of a block
  Updated,     \* bound: conserved states the update may leave in a cell
  Options      \* bound: the settings that are considered

Parameters ==
  [c2p_method : {"robust", "classic"}, c2p_fail_on_floors : BOOLEAN,
   c2p_fail_on_ceilings : BOOLEAN, enable_c2p_fixup : BOOLEAN,
   enable_floors : BOOLEAN, fluid_c2p_failure_strategy : {"interpolate", "floors"}]

ASSUME CellsAssumption ==
  /\ Width \in Nat \ {0} /\ Updated \subseteq [rho : Int, u : Int, w : Int]
  /\ Options \subseteq Parameters

VARIABLES
  set,      \* set: the settings of the run
  row,      \* row[b][c]: cell c of block b
  step,     \* step[b]: the next task of block b
  pending,  \* pending[b]: cells the repair has not visited
  sent,     \* sent[b]: conserved states sent, <<>> while there are none
  before,   \* history: before[b], the row when the repair, or the bounds, began
  updated   \* history: updated[b], the conserved states of the update

vars == <<set, row, step, pending, sent, before, updated>>

Blocks == {1, 2}
other(b) == 3 - b
Interior == 1 .. Width
Row == 0 .. Width + 1
Old == State(2 * RhoFloor, 2 * RhoFloor * SieFloor, 0)

(* After the exchange the same tasks run once more *)
Tasks == <<"FillDerived", "C2PFixup", "ApplyFloors", "Send", "Receive",
           "FillDerived", "C2PFixup", "ApplyFloors", "Done">>
Doing(b, task) == Tasks[step[b]] = task
Advance(b) == step' = [step EXCEPT ![b] = @ + 1]
Done(b) == Doing(b, "Done")

(* fixup::Initialize: repairs force floors *)
Forced(o) == [o EXCEPT !.enable_floors = @ \/ o.enable_c2p_fixup]

Init ==
  /\ set \in {Forced(o) : o \in Options}
  /\ updated \in [Blocks -> [Interior -> Updated]]
  /\ row = [b \in Blocks |-> [c \in Row |->
              Cell(Old, IF c \in Interior THEN updated[b][c] ELSE Old, TRUE)]]
  /\ step = [b \in Blocks |-> 1]
  /\ pending = [b \in Blocks |-> {}]
  /\ sent = [b \in Blocks |-> <<>>]
  /\ before = row

----------------------------------------------------------------------------
(* fluid::ConservedToPrimitive over the entire row, ghosts included        *)

ConservedToPrimitiveRobust(c) ==
  RobustSolve(c, set.c2p_fail_on_floors, set.c2p_fail_on_ceilings)
ConservedToPrimitive(c) ==
  IF set.c2p_method = "robust" THEN ConservedToPrimitiveRobust(c)
                               ELSE ClassicSolve(c)

(* Mutant: the interior only *)
FillDerivedInterior(b) ==
  /\ Doing(b, "FillDerived")
  /\ row' = [row EXCEPT ![b] = [c \in Row |->
               IF c \in Interior THEN ConservedToPrimitive(@[c]) ELSE @[c]]]
  /\ before' = [before EXCEPT ![b] = row'[b]]
  /\ pending' = [pending EXCEPT ![b] = IF set.enable_c2p_fixup THEN Interior ELSE {}]
  /\ Advance(b)
  /\ UNCHANGED <<set, sent, updated>>
FillDerived(b) ==
  /\ Doing(b, "FillDerived")
  /\ row' = [row EXCEPT ![b] = [c \in Row |-> ConservedToPrimitive(@[c])]]
  /\ before' = [before EXCEPT ![b] = row'[b]]
  /\ pending' = [pending EXCEPT ![b] = IF set.enable_c2p_fixup THEN Interior ELSE {}]
  /\ Advance(b)
  /\ UNCHANGED <<set, sent, updated>>

----------------------------------------------------------------------------
(* fixup::ConservedToPrimitiveFixup, one cell at a time                    *)

Neighbours(c) == {c - 1, c + 1}
Valid(r, c) == {n \in Neighbours(c) : r[n].ok}
fail(x) == IF x.ok THEN 1 ELSE 0   \* FailFlags: success is one
num_valid(r, c) == fail(r[c - 1]) + fail(r[c + 1])
Sum(r, c, q) == fail(r[c - 1]) * r[c - 1].prim[q] + fail(r[c + 1]) * r[c + 1].prim[q]
(* In whole units the density is rounded up and the energy down: a mean    *)
(* has no greater specific energy than all the cells it is of              *)
Average(r, c) ==
  State(-((-Sum(r, c, "rho")) \div num_valid(r, c)),
        Sum(r, c, "u") \div num_valid(r, c), Sum(r, c, "w") \div num_valid(r, c))

(* Failed neighbours enter the sum times zero, which a NaN survives *)
Interpolated(r, c) ==
  IF \E n \in Neighbours(c) : r[n].prim = NaN THEN NaN
  ELSE Average(r, c)

Stencil(r, c) ==
  IF set.fluid_c2p_failure_strategy = "interpolate" /\ Valid(r, c) # {}
    THEN Interpolated(r, c) ELSE Tiny

SlowDown(s) == IF s # NaN /\ s.w > WMax THEN Rescaled(s) ELSE s

(* Mutants: the flag is reset; the conserved variables are forgotten *)
RepairedAndValid(r, c) == LET s == SlowDown(Stencil(r, c)) IN Cell(s, s, TRUE)
RepairedPrimitives(r, c) ==
  LET s == SlowDown(Stencil(r, c)) IN Cell(s, r[c].cons, r[c].ok)
(* The flag of a repaired cell stays "fail" *)
Repaired(r, c) == LET s == SlowDown(Stencil(r, c)) IN Cell(s, s, r[c].ok)
(* Mutant: fail and success confused *)
RepairHealthy(r, c) == IF ~r[c].ok THEN r ELSE [r EXCEPT ![c] = Repaired(r, c)]
RepairRow(r, c) == IF r[c].ok THEN r ELSE [r EXCEPT ![c] = Repaired(r, c)]

C2PFixupCell(b, c) ==
  /\ Doing(b, "C2PFixup") /\ c \in pending[b]
  /\ row' = [row EXCEPT ![b] = RepairRow(@, c)]
  /\ pending' = [pending EXCEPT ![b] = @ \ {c}]
  /\ UNCHANGED <<set, step, sent, before, updated>>

C2PFixupEnds(b) ==
  /\ Doing(b, "C2PFixup") /\ pending[b] = {}
  /\ before' = [before EXCEPT ![b] = row[b]]
  /\ Advance(b)
  /\ UNCHANGED <<set, row, pending, sent, updated>>

----------------------------------------------------------------------------
(* fixup::ApplyFloors over the entire row: floors, then ceilings           *)

(* Mutant: floors only *)
BoundBelow(c) == FloorCell(c, set.c2p_fail_on_floors, set.c2p_fail_on_ceilings)
Bound(c) == CeilCell(FloorCell(c, set.c2p_fail_on_floors, set.c2p_fail_on_ceilings))

ApplyFloors(b) ==
  /\ Doing(b, "ApplyFloors")
  /\ row' = [row EXCEPT ![b] =
               IF set.enable_floors THEN [c \in Row |-> Bound(@[c])] ELSE @]
  /\ Advance(b)
  /\ UNCHANGED <<set, pending, sent, before, updated>>

----------------------------------------------------------------------------
(* Exchange of the conserved states next to the other block                *)

Send(b) ==
  /\ Doing(b, "Send")
  /\ sent' = [sent EXCEPT ![b] = <<row[b][1].cons, row[b][Width].cons>>]
  /\ Advance(b)
  /\ UNCHANGED <<set, row, pending, before, updated>>

Receive(b) ==
  /\ Doing(b, "Receive") /\ sent[other(b)] # <<>>
  /\ row' = [row EXCEPT ![b][0].cons = sent[other(b)][2],
                        ![b][Width + 1].cons = sent[other(b)][1]]
  /\ Advance(b)
  /\ UNCHANGED <<set, pending, sent, before, updated>>

Finished == (\A b \in Blocks : Done(b)) /\ UNCHANGED vars

Next == Finished \/ \E b \in Blocks :
          \/ FillDerived(b) \/ (\E c \in Interior : C2PFixupCell(b, c))
          \/ C2PFixupEnds(b) \/ ApplyFloors(b) \/ Send(b) \/ Receive(b)

Spec == Init /\ [][Next]_vars

----------------------------------------------------------------------------
(* Properties                                                              *)

Robust == set.c2p_method = "robust"
Bounded(b) == Doing(b, "Send") \/ Done(b)
Seen(b) == before[b]

(* A repair only interpolates: density and energy lie between those the    *)
(* successfully inverted neighbours had when the kernel began, whatever    *)
(* the order in which the kernel visits the cells, or are near zero.       *)
Between(x, q, b, c) ==
  \E lo, hi \in Valid(Seen(b), c) :
     Seen(b)[lo].prim[q] <= x[q] /\ x[q] <= Seen(b)[hi].prim[q]
RepairsInterpolate ==
  \A b \in Blocks : Robust /\ Doing(b, "C2PFixup") /\ set.enable_c2p_fixup =>
    \A c \in Interior \ pending[b] : ~Seen(b)[c].ok =>
      LET s == row[b][c].prim
      IN s = Tiny \/ (Between(s, "rho", b, c) /\ Between(s, "u", b, c))

(* However its inversion, repair and bounds went, an interior cell ends    *)
(* with conserved variables that are those of its primitives.              *)
PrimitivesMatchConserved ==
  \A b \in Blocks : Bounded(b) /\ set.enable_c2p_fixup =>
    \A c \in Interior : row[b][c].prim = row[b][c].cons

(* With the robust inversion and repairs every interior cell ends within   *)
(* floors and ceilings, NaNs and cells without valid neighbours included.  *)
(* (Too fast a cell leaves the inversion above the ceiling and is slowed   *)
(* to W^2 = 2 or less, not to gamma_max: the bounds hold if gamma_max^2 is *)
(* 2 or more, and do not if it is less.)                                   *)
CeilingsBind == One <= WMax
RobustCellsBounded ==
  Robust /\ set.enable_c2p_fixup /\ CeilingsBind =>
    \A b \in Blocks : Bounded(b) => \A c \in Interior : InBounds(row[b][c].prim)

(* The two blocks of a face compute one flux: after the exchange a ghost   *)
(* cell has the primitives of the cell it copies, although the copy is     *)
(* inverted and bounded by another block, and never repaired.  (Not so     *)
(* with c2p_fail_on_floors: a cell at its floor fails again.  Stated for a *)
(* gamma_max^2 of 2 or more: what was slowed is not slowed once more.)     *)
Owner(b, c) == row[other(b)][IF c = 0 THEN Width ELSE 1]
GhostsMatchOwners ==
  /\ Robust /\ set.enable_c2p_fixup /\ ~set.c2p_fail_on_floors /\ CeilingsBind
  /\ \A b \in Blocks : Done(b)
  => \A b \in Blocks : \A c \in Row \ Interior :
       row[b][c].prim = Owner(b, c).prim

(* Repairs and bounds change no cell that needs neither: what the update   *)
(* left within the bounds is what the stage ends with.                     *)
StrictlyInside(s) == InBounds(s) /\ s.rho > RhoFloor /\ s.u > SieFloor * s.rho
HealthyCellsKept ==
  Robust => \A b \in Blocks : Done(b) => \A c \in Interior :
    StrictlyInside(updated[b][c]) => row[b][c].prim = updated[b][c]

=============================================================================
