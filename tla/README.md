# Phoebus: a TLA+ model of the driver, its tasks and the state they share

Phoebus evolves general-relativistic radiation magnetohydrodynamics on a
distributed block-structured mesh. Its physics is numerics; its *correctness as
a program* lies in the driver (`src/src/phoebus_driver.cpp`), which builds, for
every Runge-Kutta stage, about a dozen regions of tasks that communicate through
shared containers, messages and global reductions. That is what is modelled
here: which task may run when, what it reads and writes, on which rank, and what
the numbers it works with were computed from; and, one level below, what the
kernels do to a cell whose inversion fails or to a particle that leaves its
block.

The scheduler, the boundary and flux-correction exchange, the low-storage
averages and the reductions belong to Parthenon, which is not part of the
repository. They are modelled from the way the driver uses them and marked
`external` in `PROJECT.json`.

## 1. Inventory

| Component | State | Operations | Interacts through |
|---|---|---|---|
| Stage task graph (`phoebus_driver.cpp`) | stage, regions, task lists, containers `base`, stage containers, `dUdt`, `geometric source terms` | `Step`, `RungeKuttaStage`, `RadiationPostStep`, `MonteCarloStep`, `PostInitializationCommunication` | calls every package; regions are barriers of one rank only |
| Fluid (`fluid/`) | conserved variables per container, primitives once (`OneCopy`), fluxes, fail flags | sources, fluxes, constrained transport, con2prim, prim2con, time step, div B | containers |
| Radiation moments (`radiation/moments*.cpp`) | moments, edge states, opacities, closure guesses | reconstruction, opacities, fluxes, geometric source, implicit coupling | fluid primitives, fluxes, `c2pfail` flags |
| Cooling function, light bulb (`radiation/cooling_function.cpp`) | `Gcov`, `Gye`, `tau`, `do_gain_reducer` | optical depth, gain decision, four-force | base container, one reduction |
| Fixups, floors, ceilings (`fixup/`) | fail masks, floors | `ConservedToPrimitiveFixup`, `RadConservedToPrimitiveFixup`, `ApplyFloors`, `FixFluxes` | primitives and conserved variables of neighbours |
| Net-field enforcement (`fixup_netfield.cpp`) | `dphi_dt`, `phi_factor`, `next_dphi_dt_update_time`, two reductions | sum, start, check, modify, update controls | magnetic field, all ranks |
| Monopole solver (`monopole_gr/`) | radial matter, volumes, hypersurface, two lapse arrays and a host mirror, `nth_call` | interpolate, reduce, integrate, solve, copy, check | fluid state, metric, all ranks |
| Boundaries (`phoebus_boundaries/`) | ghost zones behind physical boundaries | fill, convert | primitives or conserved variables (`bc_vars`) |
| Step control | `dt`, `dt_init`, `first_call`, status | clamp, stage loop, post step | global time step |
| Monte Carlo, MOCMC, tracers | swarms, tuning parameters, resolution reduction | source, transport, send, receive, tune, purge | swarms of neighbours, four-force |
| Geometry | metric, cache, `time` | evaluate, refresh | all of the above |
| Microphysics, problem generators, TOV, progenitor, analysis | tables, initial data, output | set-up, output | — |

**What is hard.** Tasks of a region run in any order their declared dependencies
allow; the lists of a region interleave; there is no barrier between ranks
inside a step. Primitives, edge states and opacities exist once and are shared
by all stage containers, so the *order* of tasks decides which state a task
sees. A correction or ghost-zone message of another stage is as well-formed as
the right one. Reductions are started under conditions each rank evaluates on
its own. Parameters differ in what a restart keeps. No unit test of the
repository runs the task graph; regression tests compare final fields with
stored ones, mostly on one rank with one block, and would accept a wrong order
that a gold file was made with.

**What makes the components correct.** *Stages:* all fluxes of a stage come from
one complete state; a correction is of the same stage; an update combines the
states the low-storage scheme names; sources are not left over; ghost zones are
current when a stage ends; the time step belongs to the final state. *Split
sources:* what they change survives into the next step. *Net field:* the
artificial field is removed, totals are complete and of one step, ranks agree,
reductions end. *Monopole:* all matter is in the solve, ranks agree, the
previous lapse is the previous one, the solver stops when asked to. *Fixups:* a
repaired cell is built of valid neighbours and ends within the bounds.
*Particles:* none is lost or transported twice; tuning stays bounded. *Step
control:* a failed stage is not overlooked and the step is within its limits.

## 2. Modules

| Module | Models |
|---|---|
| `RKStage` | `Step`, the regions of `RungeKuttaStage` and the cooling function's part of `RadiationPostStep` on any number of ranks, blocks and partitions, with ghost-zone and flux-correction messages |
| `RKStageFluxes` | proofs about `RKStage`: type correctness, conservation across refinement levels |
| `RKStageStates` | proofs about `RKStage`: which state every field holds in every region |
| `NetField` | `sync_region_5` and the tasks of `fixup_netfield.cpp`, with both reductions, over several steps |
| `NetFieldProofs` | what is proved about `NetField` |
| `Monopole` | `sync_region_2` and the tasks of `monopole_gr.cpp`, with both reductions and the lapse arrays, over several stages |
| `MonopoleProofs` | what is proved about `Monopole` |
| `Inversion` | what the kernels of one cell do: both con2prim methods, floors, ceilings |
| `Cells` | the cells of two blocks in `sync_region_fixup`, the exchange and `async_region_3`: failed inversions, their repair, bounds, ghost copies |
| `CellsProofs` | what is proved about `Inversion` and `Cells` |
| `RadCells` | the radiation moments in those cells, and the implicit source with its solvers and fallbacks |
| `RadCellsProofs` | what is proved about `RadCells` |
| `SampleGrid` | how `MOCMCReconstruction` divides the solid angle among the samples of a cell |
| `ParticleStep` | abstract: what particle transport promises |
| `Swarms` | `MonteCarloStep`, the MOCMC and the tracer tasks of a stage, swarm exchange and the tuning reduction; implements `ParticleStep` |
| `SwarmsProofs` | proof that `Swarms` implements `ParticleStep`; where particles are, what tuning is to, energy, solid angle |
| `Evolution` | the main loop and `Step`'s time step, time-dependent geometry, the light bulb's gain reduction, restarts |
| `EvolutionProofs` | what is proved about `Evolution` |
| `MC...` | meshes, ranks, states and settings of the checked instances |

The modules meet at the tasks they share. `RKStage` takes a whole repair or
source as one handler of a block; `Cells` and `RadCells` open it. `NetField`,
`Monopole` and `Swarms` open regions that `RKStage` leaves out, and `Evolution`
closes the loop over steps, keeping of the stages only what depends on the
metric.

### RKStage

A cell's value is abstracted to a **stamp**: `lvl`, the stage since the start
whose state it belongs to (`mag`, the same for the magnetic field), `by`, the
handlers (con2prim, fixups, floors, implicit source, averaging, cooling) that
have worked on it since the update that wrote it, and `net`, the stages whose
net-field update it contains. A flux records its stage, the solvers that have
written it, the stamps it was computed from and the corrections put on it.

| Variable | In the code |
|---|---|
| `cons[c][b][z]` | conserved variables in stage container `c` (`stage_name`; first and last are `base`) |
| `prim[b][z]` | primitives, `Metadata::OneCopy` |
| `flux`, `edge`, `opac` | face fluxes, reconstructed moments, opacities (one copy each) |
| `gsrc`, `dudt`, `force` | containers `geometric source terms`, `dUdt`, field `Gcov` |
| `posted`, `fluxMsg`, `bndMsg` | posted receives and buffers in flight |
| `clk`, `at`, `done` | stage, region and completed `<<task, list>>` pairs of a rank |
| `sums`, `newDt` | what Phi was measured on, what the block's time step was estimated from |
| `avgd`, `used` | history variables: what the last average and update were made of |

A zone is the interior of the block itself, the ghost zones from one neighbour,
or the ghost zones behind physical boundaries (`Phys`). Regions 1 to 9 are
`sync_region_1`, `async_region_1`, `sync_region_5`, `async_region_4`,
`sync_region_3`, `sync_region_fixup`, `sync_region_4`, `async_region_3` and
`sync_region_lb`; `Deps` is the dependency each `AddTask` declares, and
`Begin`/`Complete` is the scheduler. One action is one task.

Left out of these regions: `sync_region_2` (module `Monopole`), the tuning tasks
of `sync_region_5` (module `NetField`; they leave the field as it was, which is
`FiducialRemoved` there), MOCMC and tracers (module `Swarms`), geometry refresh
(module `Evolution`), `CalculateDivB`, refinement tags. The mesh does not change
during a run.

Assumptions on Parthenon: a send waits until the receiver has emptied the last
buffer for the same pair of blocks; a receive returns `incomplete` until all
buffers it expects are there; `AverageIndependentData` rewrites its first
argument; `Update::FillDerived` on a partition reaches the functions packages
register per block (line 587 of the driver calls it on `MeshData`, and packages
set `FillDerivedBlock` only: if the dispatch did not do so, fixups before the
exchange would work on the previous stage's primitives).
`PartitionAssumption` says that partitions are disjoint and of one rank each.

### NetField and Monopole

Both model one region in detail over several steps or stages, each rank running
it at its own pace. A sum is the set of what was added to it, so that a missing,
doubled or old contribution shows. A reduction is the sequence of buffers each
rank has given to it; the n-th is complete when all ranks have given n.
`NetField` keeps the condition each task evaluates on its own (stage, update
time, start time). `Monopole` keeps the two device lapse arrays, which of them
is `lapse`, and the host mirror, which `HostBuild` makes the memory of the first
array.

### Inversion and Cells

A primitive state is a density, an energy and `W^2 - 1` in small integer units;
a conserved state is named by the primitives `p2c` maps to it. So what the code
computes by comparing, clamping, adding and averaging is computed here, and only
the root finds are replaced by their result. `RobustSolve` clamps density and
energy, and the velocity where it computes W from it, but not in the velocity it
writes (`con2prim_robust.hpp:431`): `written` is what becomes of a motion above
the ceiling, still above it by up to one unit of W^2. It fails on a NaN (and, if
asked to, on states at a floor or ceiling); `ClassicSolve` clamps nothing and
writes the last guess of a failed solve; `FloorCell` adds mass and energy and
inverts again; `CeilCell` rescales the velocity by the expression of
`fixup.cpp:534`, which is what slows the robust inversion's cells. That
expression ends within the ceiling if `gamma_max^2` is 2 or more (`CeilingsBind`;
the default of `gamma_max` is 1000).

`Cells` runs them on two blocks in a ring, each a row of interior cells between
two ghost cells. The repair is a parallel kernel: the model visits its cells in
any order (`pending`), each reading its neighbours as they are at that moment.
`before` keeps the row the kernel started from. The mean of a repair is the
code's sum weighted by the fail flags over their number; in whole units its
density is rounded up and its energy down, so that, as in the code, a mean has
no greater specific energy than all the cells it is of. The settings (`set`) are
those of the `fluid` and `fixup` packages, with `fixup::Initialize`'s rule that
repairs force floors. One dimension keeps two neighbours of the code's six.

### RadCells

A moment is its energy and what is wrong with it (below its floor, negative,
beamed, NaN). Moments are inverted in the frame of the fluid, so a cell counts
the velocities it has had, and rest-frame moments carry the count they were
computed with. The kernels are those of `sync_region_fixup` with radiation, in
the driver's order: both inversions, both repairs, bounds, the implicit source,
bounds. The solvers of the source are kept to how they may end: the
one-dimensional one finds its root or does not, Newton's method converges,
stalls or diverges within `MaxIter`, with the one-dimensional one behind it if
`src_use_oned_backup` is set. The cell is then inverted: where the fluid would
end above its energy ceiling `EMax` the inversion cuts it there, rewrites the
conserved energy and still reports success (`con2prim_robust.hpp:122`). The
source couples one species to the fluid (`moments_source.cpp:352` fails with
more); inversion, repair and bounds work on each species of a cell by itself.

### Swarms, SampleGrid and ParticleStep

Blocks are cells of a line, particles move by at most one of them at a time: in
a step, or, for MOCMC, in each of its stages. A swarm is the set of its
particles, a message the set of particles sent over a link between neighbours.
`Lists` gives the regions of the step for the method in use (Monte Carlo,
tracers, MOCMC) with their task lists; lists of a rank's region interleave, and
regions are barriers of a rank only. A round is a step; MOCMC's regions come
once for each of the `NStages` stages (`MocmcStage`), and ranks meet at the
round's end only, not between stages. Emission, absorption, transport,
boundaries, removal and the exchange are actions; `resolution`, `given` and
`tuned` are the reduction of the particle counts and what the tuning made of it.

`ParticleStep` promises that each live particle is advanced exactly `advances`
times per step (once, or for MOCMC once in each stage) and disappears only where
something removes it. `AdvancedOnce == Abstract!Spec` is the refinement: a
particle lives while a swarm or a buffer holds it, its time is the swarm
variable `t`, and a complete step is a round.

`Reconstruction` sees the samples of a cell (`Cell(b)`) anew in each stage, as
the code does from their momenta in the frame of the fluid at that moment: in
any of the `Directions`, which may lie outside the grid, where a sample is in no
box and keeps the share it had. `Grids` then divides the solid angle among them
in any order they may be listed.

Abstractions: blocks are one cell wide; one partition per rank; all particles
have one unit of energy; a counter is kept as the set of what it has counted,
and a sum over ranks as its terms; the sum of the emissivity is kept as a
barrier; the source exchanges the same amount in all cells of a list; the
reconstruction at initialisation is left out. `GetNeighborBlockIndex`, the
buffers and `Reset` of swarms are Parthenon's.

### Evolution

Times are integers, `beta * dt` counted in `BetaUnit`. The density of a
partition is kept to whether one of its zones is opaque to the light bulb. Step
limits come from the set `Limits`; Parthenon's `SetGlobalTimeStep`, main loop
and restart output are external. Between steps any set of partitions may be made
anew by refinement, which fills their caches with the metric of the clock. A
restart may happen at any time from the last dump: it keeps time and step, and
forgets gain and geometry clock, which are no restart parameters. The history
variable `ended` keeps the time the metric was last set to in the step before, 0
in a program just started.

## 3. Runs

| Run | Instance | Shows |
|---|---|---|
| `rkstage_amr` | 2 ranks; coarse b1, fine b2 and b3 (one partition); rk2, 1 step; moments, net-field enforcement, `bc_vars = primitive` | `FluxesFromOneState`, `CorrectedFluxes`, `NoStaleSources`, `GhostZonesCurrent`, `TypeOK` |
| `rkstage_steps` | 2 ranks, a coarse and a fine block; rk3, 2 steps; cooling | `LowStorageCombination`, `TimeStepFromFinal`, `SplitSourceKept`, `NoStageOverrun`, `RunCompletes` |
| `netfield_tuning` | 2 ranks, rk2, 5 steps of 2, cadence 3, start 1 | `FiducialRemoved`, `TotalsOfTheStep`, `SameScaleEverywhere`, `NoReductionLeftActive`, `TuningCompletes` |
| `monopole_solve` | 2 ranks, 4 stages, limit 2, separate device memory | `WholeStar`, `SameSpacetime`, `LapseOfLastCycle`, `StagesComplete` |
| `cells_stage` | 2 blocks of 2 cells, 6 states per cell, 7 settings | `RepairsInterpolate`, `PrimitivesMatchConserved`, `RobustCellsBounded`, `GhostsMatchOwners`, `HealthyCellsKept` |
| `radcells_source` | 2 cells, 12 states per cell, 7 settings, one species | `MomentsInFluidFrame`, `LoneFailuresFixedUp`, `SensibleStateReturned`, `SourceConserves`, `RadiationAboveFloors` |
| `swarms` | 3 blocks on 2 ranks, 3 particles; Monte Carlo and tracers: 2 settings each, 2 starts, 2 steps; MOCMC: 1 step of 2 stages, 2 sets of directions | `AdvancedOnce`, `AtHomeOnce`, `EnergyKept`, `TuningCountsAll`, `SolidAngleShared`, `StepsComplete` |
| `evolution` | 2 ranks, rk2, time 0 to 5, limits 2 and 4, one restart | `GainOfTheMesh`, `MetricAlike`, `ReachesTlim` |

Each property is stated in words above its definition. Some say less than one
would like, because the code does less; the comment says where they stop:

* `GhostsMatchOwners` without `c2p_fail_on_floors`: a cell at its floor fails
  again in the block that owns it, is repaired there, and its ghost copy is not.
* `LoneFailuresFixedUp` for one species and sound neighbours; one flag serves
  all species of a cell, and a failed neighbour's NaN survives the average.
* `MomentsInFluidFrame` and `RadiationAboveFloors` with `enable_rad_floors`,
  which is off by default: without it the fluid's floors leave the moments in
  the old frame.
* `RobustCellsBounded` where `CeilingsBind`, see above.
* `SourceConserves`: a source that is solved and recovered creates no energy, and
  loses none unless the fluid ends at its energy ceiling, where the inversion
  cuts what is above.
* `AdvancedOnce` counts the times a particle is advanced, not by how much: MOCMC
  moves its samples by `beta * dt` in every stage from where they are, which with
  rk2 is 1.5 dt in a step.
* `SolidAngleShared` for the sum of the shares, in cells all of whose directions
  lie in the grid. Elsewhere nothing is claimed: directions are not normalised
  and may leave it. A single share may be negative, since the split point may lie
  outside the box. `InGrid` also keeps directions off the edges of boxes. That
  the source finds the samples sorted (`mocmc.cpp:523`) is not claimed: the tasks
  that sort and those that move them wait for nothing of each other.
* `AtHomeOnce`, that no particle is in two places, for every method; that its
  block is that of its position, for Monte Carlo: a tracer's neighbour is looked
  up before it moves.
* `MetricAlike`: the metric of a sweep is not the stage's but that of the stage
  before it, in a first stage that of the last step's last stage. A program that
  has just started sweeps with the metric of time 0, also if it starts from a
  restart file of a later time. The metric is the same everywhere.

**Bounds.** Two ranks are enough for every race between ranks, since messages
and reductions are the only ties and tie pairs; three blocks give a partition
with two blocks, a face between levels towards each of them, and a same-level
neighbour. Two stages distinguish first, last and `base`; rk3 adds a stage that
is neither; two steps let a step see what the last one left. Five steps of 2
against a cadence of 3 give steps with and without tuning, before and after the
start time, and two tunings in steps that follow one another. Four stages
against a limit of 2 let the solver run and stop. `NSteps` and `LastStage` are
the only bounds on counters there.

In `Cells`, a failed cell has a failed, a healthy and a ghost neighbour between
them, and the states (`Updated`) lie on each side of every comparison; `Width` 2
makes each cell both a neighbour of its block's other cell and the source of a
ghost. `RadCells` takes the states from `Updates`, the settings from `Options`,
and `MaxIter` 2 lets Newton's method end early and late. In `Swarms`, `Starts`
has particles that cross each other's paths between ranks, run through the
middle block and out of the domain, and share a cell; `NRounds` 2 lets a message
of the first step meet the second, and for MOCMC, whose setting `nlim` stops
after one step, a message of the first stage the second. `Directions` has
samples that lie in the grid in both stages, share a cell in any order, and one
that leaves the grid in the second. `Reserve` is what may be emitted,
`Exchanges` what the MOCMC source may move. In `Evolution`, `Limits` lets the
step grow and shrink, 5 is reached by no multiple of them, and `MaxRestarts` 1
lets a restarted run end. No state constraint and no symmetry is used: blocks
and ranks are told apart by the mesh, and several runs check liveness.

**Fairness.** `WF(RankStep(r))`: `TaskCollection::Execute` keeps polling the task
lists of a rank until all are complete, so a task that stays enabled is run.
`WF(SetGlobalTimeStep)`, `WF(NextStep)`, `WF(EndRound)` and `WF(NextCycle)`: a
blocking reduction that all ranks have reached returns, and the main loop goes
on. Nothing is given strong fairness, and restarts none at all.

### What the code does otherwise than it says

Each of these runs checks one property and TLC finds it violated.

| Run | Finding |
|---|---|
| `rkstage_base_lost` | With `enable_phi_enforcement` and rk2 (as in `inputs/torus.pin`), the last stage's `ModifyNetField` and `PrimitiveToConserved` write into `base` before it is averaged in: the state of the step's start is lost |
| `rkstage_phi` | "Evaluate current Mdot, Phi": with rk2 Phi is measured in the first stage's container before this step has filled it, so on a field of the step before; Mdot is measured on current primitives |
| `netfield_restart` | After a restart `next_dphi_dt_update_time` catches up step by step; meanwhile the second stage starts a reduction that no one tests |
| `swarms_purge` | "particle falls into event horizon": the purge misses the last particle of a block and all blocks of a partition but the first |

They explain choices of the passing runs: `LowStorageCombination` is checked
with enforcement off. That the net field is updated "every stage of every
timestep" (`phoebus_driver.cpp:461`) is no property of a run: with several
stages the low-storage average mixes what earlier stages made of the field with
a `base` that the last stage may have overwritten (`rkstage_base_lost`).
`LapseOfLastCycle` is checked with device memory apart from the host's: on host
builds the mirror is one of the two arrays, and every other solve compares the
lapse with itself. `run_n_times` bounds the solves by one more than it says.
`NetField`, `Monopole` and `Evolution` are checked with one partition per rank,
Parthenon's default; with several, `FiducialRemoved`, `WholeStar` and
`GainOfTheMesh` fail (`PROJECT.json` lists the hazards).

## 4. Proofs

Eight modules hold proofs; `tlapm <module>.tla` checks each of them to the last
leaf. The theorems speak of every value of the constants: any number of ranks,
blocks, partitions, stages and steps, any mesh, any settings, under the
assumptions that `RKStage`, `NetField`, `Monopole`, `Inversion`, `Cells`,
`RadCells`, `Swarms` and `Evolution` name, and under the hypotheses given below.
The `MC` modules extend the proof modules, so that TLC evaluates every one of
these assumptions on the instance that is checked.

Every safety proof has the same plan: an inductive invariant, one lemma per task
for its preservation, one for a step that leaves the part alone, and the property
read off at the end. What follows says what each invariant adds to its property,
and why the property is not inductive without it.

### The stage task graph: `RKStageFluxes`, `RKStageStates`

* `TypeCorrect`: `TypeOK`, one lemma per region. What takes work is that the
  level never leaves the run (`NextLevel`: a stage that is not the last of its
  step has a successor within `NSteps * NStages`) and that every container index
  is one (`StageType`).
* `FluxesMatched`: `FluxInv`, and from it `FluxesCorrected`: `CorrectedFluxes`.
  The property is about the divergence an update *has used*; nothing in it says
  that a message in flight is of the receiver's stage. `FluxInv` adds
  - `FluxesSoFar`: which of the flux tasks a block's fluxes have seen, from the
    tasks done in region 2, complete once the region is over;
  - `SendsMatch`: for a fine block `f` of coarse `b`, the number of corrections
    `f` has sent exceeds the number `b` has set by 0 or 1, by 1 exactly if one
    is in flight, and the one in flight holds complete fluxes of the stage the
    counts give. Hence `b` in stage k can only receive f's fluxes of stage k,
    however far apart the ranks run;
  - `UpdateSoFar`: what `dUdt` holds once the divergence is taken.
* `StatesInOrder`: `StateInv`, which says of a block, region by region, of which
  level each field is and which handlers have worked on it (`Read`, `Sourced`,
  `Updated`, `FixedUp`, `Exchanged`, `Filled`, `StageOver`), what is kept of
  `base` meanwhile (`BaseKept`), and of the exchange (`MailInv`) what
  `SendsMatch` says of corrections, now both ways between neighbours. From it:
  `FluxesFromOneState`, `NoStaleSources`, `GhostZonesCurrent`,
  `TimeStepFromFinal` and `NoStageOverrun` without any hypothesis.
* Two more hold under a hypothesis, and the hypothesis is where the code stops:
  - `BaseAveragedIn` (`LowStorageCombination`) needs `BaseSafe`: with Phi
    enforcement, one stage a step. With more the property is false, which is the
    finding of `rkstage_base_lost`.
  - `CoolingKept` (`SplitSourceKept`) needs `~PhiEnforced`: `PrimitiveToConserved`
    of the net-field region rewrites the container it works on from primitives
    that are older than the cooling, and with one stage that container is `base`.

`NeighborAssumption`, that neighbours are each other's, is used by both ways of
the exchange.

### Net field and monopole: `NetFieldProofs`, `MonopoleProofs`

* `FiducialGone`: `FiducialRemoved` for one partition a rank (`NParts = 1`), any
  cadence and any restart. With several partitions the property fails
  (`PROJECT.json` lists the hazard).
* `TuningInvariant`: `TuningInv`, and from it `TotalsCurrent`
  (`TotalsOfTheStep`), `ReductionsOver` (`NoReductionLeftActive`) and
  `ScaleUniform` (`SameScaleEverywhere`). Ranks never meet in this region but in
  the two reductions, and each decides by its own clock whether to tune. The
  invariant therefore relates ranks by what the *step started from* (`Base`,
  `Before`, which undo what the step may already have changed): `Alike` says they
  agree on that, `Sending` that the n-th buffer of a rank is its measurement in
  the step of the n-th update, `Totalled` and `Scaled` that sums and factors are
  those of all ranks. Hypotheses: `NParts = 1`, and `Punctual`: a step is no
  longer than the cadence, and the run begins before its first update has been
  due for a step. The first is for the user to choose; the second holds for
  every fresh run, which begins at time 0 with a start time that may not be
  negative (`fixup.cpp:92`). A restart breaks it, with the consequence
  `netfield_restart` shows.
* `SolverInvariant`: `SolverInv` for any ranks, partitions and stages. All a task
  of a call leaves is a function of the buffers given to the reductions of that
  call (`Sum`, `Sums`), and buffers never change; hence `SpacetimeAgrees`
  (`SameSpacetime`), also after the solver has stopped.
* `StarIsWhole` (`WholeStar`, `NParts = 1`) adds that the n-th buffer is the
  rank's matter of stage n. `LapseKept` (`LapseOfLastCycle`, `~HostBuild`) adds
  that the array swapped out is one call older than the other; on host builds the
  mirror is one of the two.

### Cells: `CellsProofs`, `RadCellsProofs`

For any width, bounds, settings and any states the update may leave.

* `CellsConsistent`: `PrimitivesMatchConserved`. The property is about the end of
  a stage; the induction needs, for the repair under way, that a cell it has not
  visited either holds matching variables or carries the flag that will make the
  repair replace both (`Together`). `Shapes` says what the kernels keep of a cell
  whatever is in it, so that no value needs a type and NaN is nothing special.
* `HealthyKept`: `HealthyCellsKept`. `AllKept` adds that the flag of such a cell
  stays "success" and that its conserved state is still the update's; a state
  strictly inside is a fixed point of inversion, floors and ceilings.
* `RobustBounded` (`RobustCellsBounded`) and `RepairsOnlyInterpolate`
  (`RepairsInterpolate`): `RobustInv` says that the density and energy of a cell
  are within bounds, or it is patched with the tiny state and flagged; that its
  velocity is within bounds once these have been applied, if `CeilingsBind`, since
  the inversion may leave it above; and, inside the repair, that each cell still is what it was or has become a mean of valid neighbours as they were
  *before*, however the visits are ordered. That a mean is within floors and
  ceilings is arithmetic (`MeanInBounds`), nonlinear in the specific energy.
* `GhostsCopyOwners`: `GhostsMatchOwners`, from `CopyInv`: what a block sent
  is its edge cell until that is inverted again, and the state both copies are
  inverted from; neither inversion fails, so no repair comes between.
* `RadInvariant`: `RadInv`, and from it `SourceSeesTheFluid`
  (`MomentsInFluidFrame`), `FailuresFixedUp` (`LoneFailuresFixedUp`),
  `SourceLeavesSensible` (`SensibleStateReturned`), `SourceKeepsEnergy`
  (`SourceConserves`) and `FloorsKept` (`RadiationAboveFloors`), for one species.
  `Inversions` keeps that the flag tells which moments failed and that the
  others are those of the fluid's frame however the fluid has been repaired since;
  `Repairs` and `Bounds` say what the two repairs and the bounds make of them;
  `Budgets` that, unless its source cannot be solved, the energy of a cell does
  not grow, and is what it was unless its fluid ends at `EMax`.

### Particles: `SwarmsProofs`

The first four theorems are about Monte Carlo and tracers (`NoSamples`), the last
about MOCMC's reconstruction. That MOCMC's exchange, which is repeated in every
stage and therefore lets neighbouring ranks be in different ones, implements
`ParticleStep` is model-checked only.

* `ParticlesAdvancedOnce`: `Spec => AdvancedOnce`, that is, `Swarms` implements
  `ParticleStep`, for Monte Carlo and tracers, any line of blocks on any ranks,
  any particles and steps. Regions are barriers of one rank only and the
  message buffers outlive a step, so the danger is in the exchange: a particle
  received in the next step, or emptied out of a buffer by the receiver's reset.
  The invariant has three parts.
  - `Ordered`: a list of a region not yet reached has not begun, one of a region
    left behind is complete. From it, what a task finds done of the blocks it
    works on (`Before`), e.g. no block of a rank has sent when one of them is
    reset.
  - `Flow`: a link holds one message exactly while its sender has sent and its
    receiver, in this step, has not taken it (`Waiting`), and none otherwise. So a
    reset never empties a buffer (`ResetFlow`), no message is of an earlier step,
    and between steps nothing is on its way (`EndFlow`).
  - `Placed`: a particle lies in one spot (`Once`); it has been advanced in this
    step exactly if its block has been moved or it is on a link (`Timely`); and
    for Monte Carlo a particle is in the block of its position, or has left it
    by at most one block and is about to be sent there (`Homed`).

  Then emission maps to `Emit`, the end of a round to `EndStep`, and every other
  step (`Onward`) to `Advance` or a stutter.
* `ParticlesAtHome`: `AtHomeOnce`, from the same invariant. `SwarmsAssumption`
  bounds a particle's way in a step by one block. In the code `EstimateTimestep`
  of radiation bounds it by one zone (`radiation.cpp:619`), and a block of the
  model is one zone wide.
* `TuningIsToTotals`: `TuningCountsAll`, for any interval between tunings. Ranks
  count, reduce, tune and reset at their own pace, so that while one has tuned
  already another has not, and the property alone says nothing of the counters.
  `Tally` relates each rank to what all had *before the round's tuning*
  (`Former`, `DueAt`, which undo what the rank may have done): on that the ranks
  agree (`TunedAlike`). `Counted` says that a counter holds what its rank has
  counted since it last tuned, and that a rank has tuned in this round exactly if
  it is past its `UpdateTuning` and the time was due; `Reduced` what stands in
  `resolution` and in the reduction at each task of the list, and that no rank
  has the sum before all have given their part. Hence nobody counts any more
  once someone tunes.
* `EnergyIsKept`: `EnergyKept`. At a step's end the fluid has its energy back;
  in between, on every rank at a different time, part of it is a force that has
  been collected and not applied. `Energy` adds that part: `Owing(b)` holds of a
  block between its emission and its rank's four-force, outside of which `Gcov`
  is stale, and `Balanced` is the budget of fluid, debt, living and escaped
  particles. What a task does to the budget is a change of one or two terms of a
  sum over the blocks (`SumChange`, `SumSame`, `SumPlus`).
* `SolidAngleIsShared`: `SolidAngleShared`, for every method and any stage,
  however the sort lists the samples of a cell, wherever the fluid now sees them
  and whatever shares they had before, in cells whose directions lie in the
  grid. `Divided` speaks of the list of samples taken in so far: their boxes sum
  to the whole sphere, and the direction of every sample still to come is in one
  of them, or the code would not find a box to split (`Hits`). `InsertDivides`
  is one split and `GridsDivide` the list to its end. `InGrid`, the hypothesis
  of the property, is used where a sample must stay in the half of a box its
  direction is in: it lies in the grid, and on no edge that another sample
  makes. The first may fail, and then the shares need not sum to the whole; the
  second fails with probability zero up to the width of a `Real`, as the
  directions are drawn at random (`mocmc.cpp:197`).

The sums are `MapThenSumSet`, a recursion over a set. The provers do not find
what such a recursion computes by induction (a library theorem with an operator
for a parameter), so it is shown by a least counterexample among the subsets of
the set, which is a fact about a set of numbers (`Solution`, `SumByPick`,
`SumSplit`). The list of samples is treated likewise (`Least`). This is where
`Particles` has to be finite.

### The main loop: `EvolutionProofs`

* `LoopInvariant`: `LoopInv`. Ranks choose the time step by themselves (first
  step, growth limit, end time); `SameStep` says that a rank which has not begun
  the step will choose what the others chose, and `Stepped` that no step passes
  `tlim`. `dt_init`, `tlim` and the packages' limits are at least `FactDen`, a
  choice of the integer unit of time: no division rounds a step to nothing.
* `MetricOfOneTime`: `MetricAlike`. The invariant says that the metric the step
  started with is that of the time `ended`; every cache and sweep of the step is a
  function of it and the stage, in whatever stage its rank is.
* `GainOfAll`: `GainOfTheMesh` with one list a rank. The invariant names the
  gain g the step started with; during the reduction a rank has its own, after it
  that of the mesh.

### Only model-checked

* Liveness (`RunCompletes`, `TuningCompletes`, `StagesComplete`,
  `StepsComplete`, `ReachesTlim`): out of the prover's reach.
* MOCMC's transport, energy and places, for two stages of one step.
* The four properties that runs refute, and what the hypotheses above leave out.

## 5. Not modelled

* Floating-point numerics: Riemann solvers, closures, the con2prim and implicit
  iterations, radial integrations, Eddington factors. They are what stamps, the
  named states of `Inversion` and the kinds of `RadCells` abstract from.
* Problem generators, TOV, progenitor and microphysics set-up, output: run once
  or read nothing back.
* Monte Carlo scattering and its tuning (`monte_carlo.cpp:653`), the light
  bulb's deleptonisation (`cooling_function.cpp:300`).
* `fixup_src.cpp`, called by no task.
* Failing tasks: no task of the repository returns a failure.
* The mesh as it is refined: only that blocks are made anew between steps
  (`Evolution`).

An assumption to note: `Update::FillDerived` on a partition is taken to reach
the functions packages register per block (see RKStage). The monopole solver's
lapse arrays are restart parameters and are therefore not lost in a restart.

## 6. Plan

Done: the modules and proofs above. To come, in order of weight:

1. `NetField`, `Evolution` and `Monopole` with several partitions: which parts of
   their properties survive, stated and proved (the parts that do not are
   hazards).
2. `Reduction`: an abstract all-reduce that `NetField`, `Monopole`, `Swarms` and
   `Evolution` are shown to implement; `Given`, `Sum` and `Sending` of the proofs
   are its mapping.
3. An abstract stage scheme (`LowStorage`: whole-mesh updates) that `RKStage`
   refines when every rank's stage is mapped to one update; `NoStageOverrun` and
   `StateInv` are what that needs.
4. `SwarmsProofs` for MOCMC: `Ordered` and `Flow` with a stage in place of the
   step, which needs how far apart ranks may be in their stages.
5. Scattering and deleptonisation.
