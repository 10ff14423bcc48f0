------------------------------ MODULE Evolution ------------------------------
(***************************************************************************)
(* The main loop: PhoebusDriver::Step with its step-size rules, the clock  *)
(* of a time-dependent metric that is cached on the blocks (FLRW with      *)
(* cached_system.hpp), RadiationPostStep with the light bulb, whose heating *)
(* is switched on for the whole mesh by one opaque zone, and restarts.     *)
(*                                                                         *)
(* The stages are kept to their uses of the metric (module RKStage has     *)
(* their tasks), a partition's density to whether one of its zones is      *)
(* opaque.  Times are integers.                                            *)
(***************************************************************************)
EXTENDS Integers, FiniteSets, FiniteSetsExt

CONSTANTS
  Ranks,        \* MPI ranks
  NParts,       \* DefaultNumPartitions of every rank
  NStages,      \* integrator->nstages
  beta,         \* integrator->beta, in units of 1/BetaUnit
  BetaUnit,     \* metric times are in these units of the time
  tlim,         \* parthenon/time/tlim
  dt_init,      \* parthenon/time/dt_init
  FactDen,      \* parthenon/time/dt_init_fact is 1/FactDen
  Limits,       \* steps the packages may allow
  always_gain,  \* radiation/lightbulb/always_gain
  MaxRestarts   \* bound: restarts of the run

ASSUME EvolutionAssumption ==
  /\ Ranks # {}
  /\ NParts \in Nat \ {0} /\ NStages \in Nat \ {0} /\ BetaUnit \in Nat \ {0}
  /\ beta \in [1 .. NStages - 1 -> 0 .. BetaUnit]
  /\ tlim \in Nat \ {0} /\ dt_init \in Nat \ {0} /\ FactDen \in Nat \ {0}
  /\ Limits # {} /\ \A l \in Limits : l \in Nat /\ l >= FactDen
  /\ dt_init >= FactDen /\ tlim >= FactDen
  /\ always_gain \in BOOLEAN /\ MaxRestarts \in Nat

Parts == 1 .. NParts
Lists == Ranks \X Parts

VARIABLES
  time,         \* tm.time
  dt,           \* dt[r]: tm.dt and integrator->dt
  fact,         \* fact[r]: FactDen until dt_init_fact has been applied, then 1
  dump,         \* the last restart file
  restarts,     \* restarts so far
  stage,        \* stage[r]: 0 before Step, NStages + 1 in RadiationPostStep
  pc,           \* pc[l]: next task of a list
  clock,        \* clock[r]: the parameter "time" of the geometry package
  metric,       \* metric[l]: time of the metric in the partition's cache
  swept,        \* swept[l]: the stage and the metric of the last sweep
  ended,        \* history: the time of the last stage, before this step's
  dense,        \* dense[l]: some zone's density makes it opaque
  tau,          \* tau[l]: some zone's tau is above 100
  do_gain,      \* do_gain[r]: val of do_gain_reducer
  sent,         \* sent[r]: what the rank gave to the step's reduction
  force,        \* force[l]: heated or not, in the step's four force
  everOpaque    \* history: a zone was opaque since the program started

loop == <<time, dt, fact, dump, restarts>>
space == <<clock, metric, swept, ended>>
bulb == <<dense, tau, do_gain, sent, force, everOpaque>>
vars == <<loop, stage, pc, space, bulb>>

NotSent == {}
PostStep == NStages + 1
OfRank(r) == {l \in Lists : l[1] = r}
At(l, task) == pc[l] = task
Goto(l, task) == pc' = [pc EXCEPT ![l] = task]
AllDone(r) == \A l \in OfRank(r) : pc[l] = "done"

----------------------------------------------------------------------------
(* Step and the stages                                                     *)

dt_trial(r) == Min({dt[r], dt_init}) \div fact[r]

(* The lists of a stage start with the sweep, and the metric's clock is    *)
(* set while they are built.  Stages after the first sit at beta * dt.     *)
StageTime(s, d) ==
  BetaUnit * time + (IF s > 1 THEN beta[s - 1] * d ELSE 0)

RungeKuttaStage(r, s, d) ==
  /\ stage' = [stage EXCEPT ![r] = s]
  /\ clock' = [clock EXCEPT ![r] = StageTime(s, d)]
  /\ pc' = [l \in Lists |-> IF l[1] = r THEN "sweep" ELSE pc[l]]

(* first_call is never cleared: dt_init bounds every step, not the first   *)
Step(r) ==
  /\ stage[r] = 0
  /\ LET d == Min({dt_trial(r), tlim - time}) IN
       /\ dt' = [dt EXCEPT ![r] = d]
       /\ RungeKuttaStage(r, 1, d)
  /\ fact' = [fact EXCEPT ![r] = 1]
  /\ UNCHANGED <<time, dump, restarts, metric, swept, ended, bulb>>

NextStage(r) ==
  /\ stage[r] \in 1 .. NStages - 1 /\ AllDone(r)
  /\ RungeKuttaStage(r, stage[r] + 1, dt[r])
  /\ UNCHANGED <<loop, metric, swept, ended, bulb>>

(* Every kernel reads the metric from the cache, whatever the clock says   *)
Metric(l) == metric[l]

Sweep(l) ==
  /\ At(l, "sweep") /\ Goto(l, "fill_derived")
  /\ swept' = [swept EXCEPT ![l] = [time |-> time, stage |-> stage[l[1]],
                                    metric |-> Metric(l)]]
  /\ UNCHANGED <<loop, stage, clock, metric, ended, bulb>>

(* Con2prim, fixups and floors leave new densities                         *)
FillDerived(l) ==
  /\ At(l, "fill_derived") /\ Goto(l, "update_geom")
  /\ \E d \in BOOLEAN : dense' = [dense EXCEPT ![l] = d]
  /\ UNCHANGED <<loop, stage, space, tau, do_gain, sent, force, everOpaque>>

(* The coordinate system that fills the cache is one of the clock's time   *)
CoordinateSystem(r) == clock[r]
SetGeometry(l) == metric' = [metric EXCEPT ![l] = CoordinateSystem(l[1])]

UpdateGeometryBetweenStages(l) ==
  /\ At(l, "update_geom") /\ Goto(l, "done")
  /\ IF stage[l[1]] < NStages \/ NStages = 1 THEN SetGeometry(l)
                                             ELSE UNCHANGED metric
  /\ UNCHANGED <<loop, stage, clock, swept, ended, bulb>>

UpdateGeometry(l) ==
  /\ At(l, "update_geom") /\ Goto(l, "done")
  /\ SetGeometry(l)
  /\ UNCHANGED <<loop, stage, clock, swept, ended, bulb>>

----------------------------------------------------------------------------
(* RadiationPostStep, cooling_function with the light bulb                 *)

RadiationPostStep(r) ==
  /\ stage[r] = NStages /\ AllDone(r)
  /\ stage' = [stage EXCEPT ![r] = PostStep]
  /\ pc' = [l \in Lists |-> IF l[1] = r THEN "calc_tau" ELSE pc[l]]
  /\ UNCHANGED <<loop, space, bulb>>

LightBulbCalcTau(l) ==
  /\ At(l, "calc_tau") /\ Goto(l, "check_do_gain")
  /\ tau' = [tau EXCEPT ![l] = dense[l]]
  /\ everOpaque' = (everOpaque \/ dense[l])
  /\ UNCHANGED <<loop, stage, space, dense, do_gain, sent, force>>

(* Only the first list starts and finishes the reduction                   *)
CheckDoGain(l) ==
  /\ At(l, "check_do_gain")
  /\ Goto(l, IF l[2] = 1 THEN "start_reduce" ELSE "check_reduce")
  /\ do_gain' = [do_gain EXCEPT ![l[1]] = @ \/ tau[l]]
  /\ UNCHANGED <<loop, stage, space, dense, tau, sent, force, everOpaque>>

StartReduceUnlessKnown(r) ==
  /\ At(<<r, 1>>, "start_reduce") /\ Goto(<<r, 1>>, "check_reduce")
  /\ sent' = IF do_gain[r] /\ ~always_gain
             THEN sent ELSE [sent EXCEPT ![r] = {do_gain[r]}]
  /\ UNCHANGED <<loop, stage, space, dense, tau, do_gain, force, everOpaque>>

StartReduce(r) ==
  /\ At(<<r, 1>>, "start_reduce") /\ Goto(<<r, 1>>, "check_reduce")
  /\ sent' = [sent EXCEPT ![r] = {do_gain[r]}]
  /\ UNCHANGED <<loop, stage, space, dense, tau, do_gain, force, everOpaque>>

CheckReduceOwn(r) ==
  /\ At(<<r, 1>>, "check_reduce") /\ sent[r] # NotSent
  /\ pc' = [pc EXCEPT ![<<r, 1>>] = "four_force"]
  /\ do_gain' = [do_gain EXCEPT ![r] = TRUE \in sent[r]]
  /\ UNCHANGED <<loop, stage, space, dense, tau, sent, force, everOpaque>>

(* MPI_LOR over what the ranks have sent; it replaces the rank's own value *)
CheckReduce(r) ==
  /\ At(<<r, 1>>, "check_reduce") /\ \A q \in Ranks : sent[q] # NotSent
  /\ pc' = [pc EXCEPT ![<<r, 1>>] = "four_force"]
  /\ do_gain' = [do_gain EXCEPT ![r] = \E q \in Ranks : TRUE \in sent[q]]
  /\ UNCHANGED <<loop, stage, space, dense, tau, sent, force, everOpaque>>

(* Heating minus cooling; only heating depends on the gain                 *)
Heated(r) == do_gain[r]

(* The reduction's end is local_sync and once_per_region: the other lists  *)
(* wait for the first                                                      *)
CalculateFourForce(l) ==
  /\ \/ At(l, "four_force")
     \/ At(l, "check_reduce") /\ l[2] > 1
        /\ pc[<<l[1], 1>>] \in {"four_force", "apply", "done"}
  /\ Goto(l, "apply")
  /\ force' = [force EXCEPT ![l] = Heated(l[1])]
  /\ UNCHANGED <<loop, stage, space, dense, tau, do_gain, sent, everOpaque>>

(* Conserved energy and leptons take dt times the four force               *)
ApplyRadiationFourForce(l) ==
  /\ At(l, "apply") /\ Goto(l, "done")
  /\ UNCHANGED <<loop, stage, space, bulb>>

----------------------------------------------------------------------------
(* Parthenon's main loop between two calls of Step                         *)

(* The global time step joins the ranks.  It doubles at most and does not  *)
(* pass tlim.                                                              *)
NextDt(now, old, limit) ==
  LET d == Min({2 * old, limit}) IN
  IF now < tlim THEN Min({d, tlim - now}) ELSE d

(* Refinement and load balancing make the blocks of some partitions anew:  *)
(* SetGeometryBlock fills their caches with the metric of the clock        *)
Remade(S) == [l \in Lists |-> IF l \in S THEN CoordinateSystem(l[1]) ELSE metric[l]]

CycleDone == \A r \in Ranks : stage[r] = PostStep /\ AllDone(r)

EndCycle(limit, S) ==
  /\ CycleDone
  /\ LET now == time + dt[CHOOSE r \in Ranks : TRUE] IN
       /\ time' = now
       /\ ended' = StageTime(NStages, now - time)
       /\ dt' = [r \in Ranks |-> NextDt(now, dt[r], limit)]
       /\ stage' = [r \in Ranks |-> IF now < tlim THEN 0 ELSE PostStep + 1]
  /\ metric' = Remade(S)
  /\ sent' = [r \in Ranks |-> NotSent]
  /\ UNCHANGED <<fact, dump, restarts, pc, clock, swept, dense, tau, do_gain,
                 force, everOpaque>>

BetweenSteps == \A r \in Ranks : stage[r] = 0

WriteRestart ==
  /\ BetweenSteps
  /\ dump' = [time |-> time, dt |-> dt[CHOOSE r \in Ranks : TRUE]]
  /\ UNCHANGED <<time, dt, fact, restarts, stage, pc, space, bulb>>

(* The program is gone at any time and starts from the file.  The gain and *)
(* the geometry's clock are no restart parameters: the caches are filled   *)
(* with the metric of time 0.  dt_init_fact is not applied again.          *)
Restart ==
  /\ restarts < MaxRestarts
  /\ \E r \in Ranks : stage[r] # 0 /\ stage[r] <= PostStep
  /\ restarts' = restarts + 1
  /\ time' = dump.time
  /\ dt' = [r \in Ranks |-> dump.dt]
  /\ fact' = [r \in Ranks |-> 1]
  /\ stage' = [r \in Ranks |-> 0]
  /\ pc' = [l \in Lists |-> "done"]
  /\ clock' = [r \in Ranks |-> 0]
  /\ metric' = [l \in Lists |-> 0]
  /\ swept' = [l \in Lists |-> [time |-> 0, stage |-> 0, metric |-> 0]]
  /\ ended' = 0
  /\ tau' = [l \in Lists |-> FALSE]
  /\ do_gain' = [r \in Ranks |-> always_gain]
  /\ sent' = [r \in Ranks |-> NotSent]
  /\ force' = [l \in Lists |-> FALSE]
  /\ everOpaque' = FALSE
  /\ UNCHANGED <<dump, dense>>

Finished == \A r \in Ranks : stage[r] > PostStep

Finish == Finished /\ UNCHANGED vars

Init ==
  /\ time = 0
  /\ \E limit \in Limits :
       /\ dt = [r \in Ranks |-> Min({limit, tlim})]
       /\ dump = [time |-> 0, dt |-> Min({limit, tlim})]
  /\ fact = [r \in Ranks |-> FactDen]
  /\ restarts = 0
  /\ stage = [r \in Ranks |-> 0]
  /\ pc = [l \in Lists |-> "done"]
  /\ clock = [r \in Ranks |-> 0]
  /\ metric = [l \in Lists |-> 0]
  /\ swept = [l \in Lists |-> [time |-> 0, stage |-> 0, metric |-> 0]]
  /\ ended = 0
  /\ dense \in [Lists -> BOOLEAN]
  /\ tau = [l \in Lists |-> FALSE]
  /\ do_gain = [r \in Ranks |-> always_gain]
  /\ sent = [r \in Ranks |-> NotSent]
  /\ force = [l \in Lists |-> FALSE]
  /\ everOpaque = FALSE

ListStep(l) ==
  \/ Sweep(l) \/ FillDerived(l) \/ UpdateGeometry(l)
  \/ LightBulbCalcTau(l) \/ CheckDoGain(l)
  \/ CalculateFourForce(l) \/ ApplyRadiationFourForce(l)

RankStep(r) ==
  \/ Step(r) \/ NextStage(r) \/ RadiationPostStep(r)
  \/ StartReduce(r) \/ CheckReduce(r)
  \/ \E l \in OfRank(r) : ListStep(l)

NextCycle == \E limit \in Limits, S \in SUBSET Lists : EndCycle(limit, S)

Next ==
  \/ \E r \in Ranks : RankStep(r)
  \/ NextCycle \/ WriteRestart \/ Restart \/ Finish

(* Ranks keep polling their tasks; the main loop goes on                   *)
Fairness == (\A r \in Ranks : WF_vars(RankStep(r))) /\ WF_vars(NextCycle)

Spec == Init /\ [][Next]_vars /\ Fairness

----------------------------------------------------------------------------
(* Properties                                                              *)

(* Neutrino heating is on or off for the whole mesh: a four force heats if *)
(* and only if, since the program started, some zone of some rank has been *)
(* opaque, this step included (CheckDoGain and the MPI_LOR after it).      *)
GainOfTheMesh ==
  \A l \in Lists : At(l, "apply") => force[l] = (always_gain \/ everOpaque)

(* In a stage, all partitions of all ranks sweep with the metric of one    *)
(* time, those made anew by refinement too: no jump at the faces between   *)
(* blocks.  It is the metric of the stage before, in the first stage that  *)
(* of the last step's last stage; a program that has just started, be it   *)
(* from a restart file, sweeps with the metric of time 0 (driver's "Hack   *)
(* to update time for time-dependent geometries" and UpdateGeometry).      *)
MetricAlike ==
  /\ \A l, k \in Lists :
       (swept[l].time = swept[k].time /\ swept[l].stage = swept[k].stage)
         => swept[l].metric = swept[k].metric
  /\ \A r \in Ranks : \A l \in OfRank(r) : At(l, "fill_derived") =>
       swept[l].metric = IF stage[r] = 1 THEN ended ELSE StageTime(stage[r] - 1, dt[r])

(* The run ends, at tlim exactly, whatever the packages allow, however     *)
(* dt_init and dt_init_fact shorten the steps, and no rank waits for the   *)
(* gain of one that has not joined the reduction.                          *)
ReachesTlim == <>(Finished /\ time = tlim)

=============================================================================
