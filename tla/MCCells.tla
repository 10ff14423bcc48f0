------------------------------ MODULE MCCells --------------------------------
(* Instances of Cells for model checking.                                  *)
EXTENDS CellsProofs

(* Conserved states left by the update: at rest, moving at more than       *)
(* W^2 - 1 = 1, at the floors, above either ceiling, without enough        *)
(* energy, and not a number                                                *)
Moving == State(8, 16, 3)
Fast == State(8, 16, 6)
Hot == State(8, 40, 0)
Cold == State(8, -4, 1)
Thin == State(4, 4, 0)
UpdatedStates == {Moving, Fast, Hot, Cold, Thin, NaN}

Settings(method, onFloors, onCeilings, fix, floors, strategy) ==
  [c2p_method |-> method, c2p_fail_on_floors |-> onFloors,
   c2p_fail_on_ceilings |-> onCeilings, enable_c2p_fixup |-> fix,
   enable_floors |-> floors, fluid_c2p_failure_strategy |-> strategy]
Default == Settings("robust", FALSE, FALSE, TRUE, TRUE, "interpolate")
ConsideredOptions ==
  {Default, [Default EXCEPT !.c2p_fail_on_floors = TRUE],
   [Default EXCEPT !.c2p_fail_on_ceilings = TRUE],
   [Default EXCEPT !.fluid_c2p_failure_strategy = "floors"],
   [Default EXCEPT !.enable_c2p_fixup = FALSE],
   [Default EXCEPT !.c2p_method = "classic"],
   [Default EXCEPT !.c2p_method = "classic", !.enable_c2p_fixup = FALSE,
                   !.enable_floors = FALSE]}

=============================================================================
