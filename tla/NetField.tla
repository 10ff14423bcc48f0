------------------------------ MODULE NetField ------------------------------
(***************************************************************************)
(* The tuning of the net magnetic field: sync_region_5 of RungeKuttaStage  *)
(* and the tasks of fixup_netfield.cpp it runs when                        *)
(* enable_phi_enforcement is set.                                          *)
(*                                                                         *)
(* In the first stage of a step whose time has reached                     *)
(* next_dphi_dt_update_time, Mdot and Phi are summed over all partitions   *)
(* and ranks, an artificial field is added, Phi is summed again, the       *)
(* artificial field is taken away and the scale factors are set from the   *)
(* two totals.  Every stage then applies the scaled field.                 *)
(*                                                                         *)
(* A sum is abstracted to the set of what was added into it, a field to    *)
(* what was done to it.                                                    *)
(***************************************************************************)
EXTENDS Integers, Sequences

CONSTANTS
  Ranks,      \* MPI ranks
  NParts,     \* DefaultNumPartitions of every rank
  NStages,    \* integrator->nstages
  NSteps,     \* bound: steps of the main loop
  InitialTime,\* time the run starts from: 0, or that of a restart file
  Dt,         \* time step
  Cadence,    \* fixup/enforced_phi_cadence
  StartTime   \* fixup/enforced_phi_start_time

ASSUME NetFieldAssumption ==
  /\ NParts \in Nat \ {0} /\ NStages \in Nat \ {0} /\ NSteps \in Nat \ {0}
  /\ Dt \in Nat \ {0} /\ Cadence \in Nat \ {0}
  /\ StartTime \in Nat /\ InitialTime \in Nat

VARIABLES
  step,     \* step[r]: current step of the main loop
  stage,    \* stage[r]
  done,     \* done[r]: <<task, list>> pairs completed in the region
  totals,   \* totals[r][i]: val of net_field_totals and net_field_totals_2
  active,   \* active[r][i]: a reduction is started and not yet found finished
  sent,     \* sent[r][i]: buffers given to the successive reductions
  next,     \* next[r]: next_dphi_dt_update_time
  scale,    \* scale[r]: what phi_factor and dphi_dt were computed from
  field     \* field[r][p]: what partition p's field has had added

vars == <<step, stage, done, totals, active, sent, next, scale, field>>

Lists == 1 .. NParts
Sums == 1 .. 2
time(r) == InitialTime + (step[r] - 1) * Dt

(* One measurement of a partition, with or without the artificial field *)
Measure == [rank : Ranks, part : Lists, step : 1 .. NSteps, fid : Int]
NoScale == [at |-> 0, before |-> {}, after |-> {}, updates |-> 0]
NoField == [fid |-> 0, step |-> 0, stage |-> 0, scale |-> NoScale]

----------------------------------------------------------------------------
(* The task graph of one region                                            *)

sum_mdot(i) == IF i = 1 THEN "sum_mdot_1" ELSE "sum_mdot_2"
start_reduce(i) == IF i = 1 THEN "start_reduce_1" ELSE "start_reduce_2"
finish_reduce(i) == IF i = 1 THEN "finish_reduce_1" ELSE "finish_reduce_2"

EachList == {"sum_mdot_1", "mod_net", "sum_mdot_2", "mod_net_2", "set_scale",
             "update_netfield"}
FirstList == {"start_reduce_1", "finish_reduce_1", "start_reduce_2",
              "finish_reduce_2"}
RegionTasks == (EachList \X Lists) \union (FirstList \X {1})

WaitsForScaleOnly(t, p) ==
  CASE t = "start_reduce_1" -> {"sum_mdot_1"} \X Lists
    [] t = "finish_reduce_1" -> {<<"start_reduce_1", 1>>}
    [] t = "mod_net" -> {<<"finish_reduce_1", 1>>}
    [] t = "sum_mdot_2" -> {<<"mod_net", p>>}
    [] t = "start_reduce_2" -> {"sum_mdot_2"} \X Lists
    [] t = "finish_reduce_2" -> {<<"start_reduce_2", 1>>}
    [] t = "mod_net_2" -> {<<"finish_reduce_2", 1>>}
    [] t = "set_scale" -> {<<"finish_reduce_2", 1>>}
    [] t = "update_netfield" -> {<<"set_scale", p>>}
    [] OTHER -> {}

WaitsForFirstSum(t, p) ==
  CASE t = "start_reduce_1" -> {"sum_mdot_1"} \X Lists
    [] t = "finish_reduce_1" -> {<<"start_reduce_1", 1>>}
    [] t = "mod_net" -> {<<"finish_reduce_1", 1>>}
    [] t = "sum_mdot_2" -> {<<"mod_net", p>>}
    [] t = "start_reduce_2" -> {<<"mod_net", 1>>}
    [] t = "finish_reduce_2" -> {<<"start_reduce_2", 1>>}
    [] t = "mod_net_2" -> {<<"finish_reduce_2", 1>>}
    [] t = "set_scale" -> {<<"mod_net_2", p>>}
    [] t = "update_netfield" -> {<<"set_scale", p>>}
    [] OTHER -> {}

(* The start of a reduction waits for a local_sync task, so for all lists; *)
(* the reductions are started and tested by the first list only            *)
WaitsFor(t, p) ==
  CASE t = "start_reduce_1" -> {"sum_mdot_1"} \X Lists
    [] t = "finish_reduce_1" -> {<<"start_reduce_1", 1>>}
    [] t = "mod_net" -> {<<"finish_reduce_1", 1>>}
    [] t = "sum_mdot_2" -> {<<"mod_net", p>>}
    [] t = "start_reduce_2" -> {"sum_mdot_2"} \X Lists
    [] t = "finish_reduce_2" -> {<<"start_reduce_2", 1>>}
    [] t = "mod_net_2" -> {<<"finish_reduce_2", 1>>}
    [] t = "set_scale" -> {<<"mod_net_2", p>>}
    [] t = "update_netfield" -> {<<"set_scale", p>>}
    [] OTHER -> {}

Run(r, t, p) ==
  /\ <<t, p>> \in RegionTasks \ done[r]
  /\ WaitsFor(t, p) \subseteq done[r]
  /\ done' = [done EXCEPT ![r] = @ \union {<<t, p>>}]
  /\ UNCHANGED <<step, stage>>

Due(r) == time(r) >= next[r]
Tuning(r) == Due(r) /\ time(r) >= StartTime

----------------------------------------------------------------------------
(* The tasks                                                               *)

SumMdotPhiForNetFieldScaling(r, p, i) ==
  LET m == [rank |-> r, part |-> p, step |-> step[r], fid |-> field[r][p].fid] IN
  /\ Run(r, sum_mdot(i), p)
  /\ totals' = IF stage[r] = 1 /\ Tuning(r)
               THEN [totals EXCEPT ![r][i] = @ \union {m}] ELSE totals
  /\ UNCHANGED <<active, sent, next, scale, field>>

NetFieldStartReduceAnyTime(r, i) ==
  /\ Run(r, start_reduce(i), 1)
  /\ IF ~active[r][i]
     THEN /\ active' = [active EXCEPT ![r][i] = TRUE]
          /\ sent' = [sent EXCEPT ![r][i] = Append(@, totals[r][i])]
     ELSE UNCHANGED <<active, sent>>
  /\ UNCHANGED <<totals, next, scale, field>>

(* Starting a reduction that is still active starts nothing *)
NetFieldStartReduce(r, i) ==
  /\ Run(r, start_reduce(i), 1)
  /\ IF Tuning(r) /\ ~active[r][i]
     THEN /\ active' = [active EXCEPT ![r][i] = TRUE]
          /\ sent' = [sent EXCEPT ![r][i] = Append(@, totals[r][i])]
     ELSE UNCHANGED <<active, sent>>
  /\ UNCHANGED <<totals, next, scale, field>>

NetFieldCheckReduceLocal(r, i) ==
  /\ Run(r, finish_reduce(i), 1)
  /\ active' = IF stage[r] = 1 /\ Tuning(r)
               THEN [active EXCEPT ![r][i] = FALSE] ELSE active
  /\ UNCHANGED <<totals, sent, next, scale, field>>

(* A reduction is finished when every rank has given its buffer to it; the *)
(* sum then replaces the rank's own                                        *)
NetFieldCheckReduce(r, i) ==
  LET n == Len(sent[r][i]) IN
  /\ Run(r, finish_reduce(i), 1)
  /\ IF stage[r] = 1 /\ Tuning(r) /\ active[r][i]
     THEN /\ \A q \in Ranks : Len(sent[q][i]) >= n
          /\ active' = [active EXCEPT ![r][i] = FALSE]
          /\ totals' = [totals EXCEPT ![r][i] = UNION {sent[q][i][n] : q \in Ranks}]
     ELSE UNCHANGED <<active, totals>>
  /\ UNCHANGED <<sent, next, scale, field>>

(* fiducial: add or take away the artificial field *)
ModifyNetFieldFiducial(r, p, t, factor) ==
  /\ Run(r, t, p)
  /\ field' = IF stage[r] = 1 /\ Due(r)
              THEN [field EXCEPT ![r][p].fid = @ + factor] ELSE field
  /\ UNCHANGED <<totals, active, sent, next, scale>>

(* not fiducial: apply phi_factor * dphi_dt *)
ModifyNetFieldScaled(r, p) ==
  /\ Run(r, "update_netfield", p)
  /\ field' = [field EXCEPT ![r][p] =
                 [fid |-> @.fid, step |-> step[r], stage |-> stage[r],
                  scale |-> scale[r]]]
  /\ UNCHANGED <<totals, active, sent, next, scale>>

UpdateNetFieldScaleControlsOneRank(r, p) ==
  /\ Run(r, "set_scale", p)
  /\ IF stage[r] = 1 /\ Due(r) /\ r = CHOOSE q \in Ranks : TRUE
     THEN /\ scale' = [scale EXCEPT ![r] =
                         [at |-> step[r], before |-> totals[r][1],
                          after |-> totals[r][2], updates |-> @.updates + 1]]
          /\ next' = [next EXCEPT ![r] = @ + Cadence]
     ELSE UNCHANGED <<scale, next>>
  /\ UNCHANGED <<totals, active, sent, field>>

(* Runs once per partition.  dphi_dt is changed relative to its old value. *)
UpdateNetFieldScaleControls(r, p) ==
  /\ Run(r, "set_scale", p)
  /\ IF stage[r] = 1 /\ Due(r)
     THEN /\ scale' = [scale EXCEPT ![r] =
                         [at |-> step[r], before |-> totals[r][1],
                          after |-> totals[r][2], updates |-> @.updates + 1]]
          /\ next' = [next EXCEPT ![r] = @ + Cadence]
     ELSE UNCHANGED <<scale, next>>
  /\ UNCHANGED <<totals, active, sent, field>>

RegionComplete(r) == done[r] = RegionTasks

(* RungeKuttaStage sets up the next stage's lists and clears the totals *)
NextStage(r) ==
  /\ RegionComplete(r) /\ stage[r] < NStages
  /\ stage' = [stage EXCEPT ![r] = @ + 1]
  /\ done' = [done EXCEPT ![r] = {}]
  /\ totals' = [totals EXCEPT ![r] = [i \in Sums |-> {}]]
  /\ UNCHANGED <<step, active, sent, next, scale, field>>

(* The global time step ties the ranks together *)
NextStep ==
  /\ \A r \in Ranks : RegionComplete(r) /\ stage[r] = NStages /\ step[r] < NSteps
  /\ step' = [r \in Ranks |-> step[r] + 1]
  /\ stage' = [r \in Ranks |-> 1]
  /\ done' = [r \in Ranks |-> {}]
  /\ totals' = [r \in Ranks |-> [i \in Sums |-> {}]]
  /\ UNCHANGED <<active, sent, next, scale, field>>

Finished == \A r \in Ranks :
  RegionComplete(r) /\ stage[r] = NStages /\ step[r] = NSteps

Finish == Finished /\ UNCHANGED vars

(* The scale controls are not written to restart files                     *)
Init ==
  /\ step = [r \in Ranks |-> 1]
  /\ stage = [r \in Ranks |-> 1]
  /\ done = [r \in Ranks |-> {}]
  /\ totals = [r \in Ranks |-> [i \in Sums |-> {}]]
  /\ active = [r \in Ranks |-> [i \in Sums |-> FALSE]]
  /\ sent = [r \in Ranks |-> [i \in Sums |-> <<>>]]
  /\ next = [r \in Ranks |-> StartTime]
  /\ scale = [r \in Ranks |-> NoScale]
  /\ field = [r \in Ranks |-> [p \in Lists |-> NoField]]

RankStep(r) ==
  \/ \E i \in Sums : \/ \E p \in Lists : SumMdotPhiForNetFieldScaling(r, p, i)
                     \/ NetFieldStartReduce(r, i)
                     \/ NetFieldCheckReduce(r, i)
  \/ \E p \in Lists : \/ ModifyNetFieldFiducial(r, p, "mod_net", 1)
                      \/ ModifyNetFieldFiducial(r, p, "mod_net_2", -1)
                      \/ UpdateNetFieldScaleControls(r, p)
                      \/ ModifyNetFieldScaled(r, p)
  \/ NextStage(r)

Next == (\E r \in Ranks : RankStep(r)) \/ NextStep \/ Finish

(* Ranks keep polling their task lists *)
Fairness == (\A r \in Ranks : WF_vars(RankStep(r))) /\ WF_vars(NextStep)

Spec == Init /\ [][Next]_vars /\ Fairness

----------------------------------------------------------------------------
(* Properties                                                              *)

(* The artificial field is gone when the region is over                    *)
(* (phoebus_driver.cpp: "Remove artificial contribution to net field").    *)
FiducialRemoved ==
  \A r \in Ranks : RegionComplete(r) => \A p \in Lists : field[r][p].fid = 0

(* Scale factors are set from totals of the step that sets them: one       *)
(* measurement of every partition of every rank, without the artificial    *)
(* field in the first total and with it once in the second.                *)
TotalsOfTheStep ==
  \A r \in Ranks : LET s == scale[r]
                       all(f) == [rank : Ranks, part : Lists, step : {s.at},
                                  fid : {f}] IN
    s.at > 0 => s.before = all(0) /\ s.after = all(1)

(* In a stage, every partition of every rank gets the field of the same    *)
(* scale factors: the net field has no jump between blocks.                *)
SameScaleEverywhere ==
  \A r, q \in Ranks : \A p, u \in Lists :
    (field[r][p].step = field[q][u].step /\ field[r][p].stage = field[q][u].stage)
      => field[r][p].scale = field[q][u].scale

(* Reductions are made in first stages only and are over when the region   *)
(* is (phoebus_driver.cpp: "tuning region that only evaluates occasionally *)
(* and on first stage", "Test the reduction until it completes").          *)
NoReductionLeftActive ==
  \A r \in Ranks : RegionComplete(r) => \A i \in Sums : ~active[r][i]

(* No rank waits for a reduction another rank never starts.                *)
TuningCompletes == <>Finished

=============================================================================
