----------------------------- MODULE MCRadCells ------------------------------
(* Instances of RadCells for model checking.                               *)
EXTENDS RadCellsProofs

CONSTANTS nue, nuebar

(* Fluid: inverts, fails, or inverts below a floor; moment: every kind *)
UpdatesConsidered ==
  {"ok", "fails", "thin"} \X {"ok", "negative", "beamed", "nan"}

Default ==
  [closure_c2p_strategy |-> "robust", rad_c2p_failure_strategy |-> "interpolate",
   enable_rad_floors |-> TRUE, src_solver |-> "oned", oned_fixup_strategy |-> "none",
   src_use_oned_backup |-> FALSE, update_fluid |-> TRUE]
ConsideredOptions ==
  {Default, [Default EXCEPT !.closure_c2p_strategy = "frail"],
   [Default EXCEPT !.rad_c2p_failure_strategy = "floors", !.update_fluid = FALSE],
   [Default EXCEPT !.enable_rad_floors = FALSE],
   [Default EXCEPT !.oned_fixup_strategy = "ignore_all"],
   [Default EXCEPT !.src_solver = "fourd", !.src_use_oned_backup = TRUE,
                   !.oned_fixup_strategy = "ignore_dJ"],
   [Default EXCEPT !.src_solver = "fourd", !.closure_c2p_strategy = "frail"]}

=============================================================================
