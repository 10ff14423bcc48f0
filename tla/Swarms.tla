------------------------------- MODULE Swarms --------------------------------
(***************************************************************************)
(* Particles that move between the blocks of several ranks: Monte Carlo    *)
(* radiation (MonteCarloStep), the samples of MOCMC and tracers.           *)
(*                                                                         *)
(* Blocks are cells of a line; a particle moves by at most one at a time,  *)
(* in each step, or in each stage of it (MOCMC).  A round is a step of the *)
(* run: ranks meet after it, not between its stages.  Regions are barriers *)
(* of one rank, and tasks of a region interleave.                          *)
(***************************************************************************)
EXTENDS SampleGrid, FiniteSetsExt, Functions

CONSTANTS
  NBlocks,    \* blocks 1 .. NBlocks, from left to right
  RankOf,     \* the rank of each block
  Particles,  \* bound: particles there may ever be
  Reserve,    \* those of them that Monte Carlo has not emitted at the start
  NRounds,    \* bound: steps of a run
  NStages,    \* stages of a step
  Options,    \* bound: the settings that are considered
  Starts,     \* bound: <<positions, velocities>> of the particles of a method
  Directions, \* bound: directions the fluid may see the samples in
  Exchanges,  \* bound: energies MOCMC's source may exchange
  Dt, DtTune  \* time of a step, and between two tunings

ASSUME SwarmsAssumption ==
  /\ NBlocks \in Nat \ {0} /\ NRounds \in Nat \ {0} /\ NStages \in Nat \ {0}
  /\ IsFiniteSet(Particles) /\ Reserve \subseteq Particles /\ Exchanges \subseteq Int
  /\ Dt \in Nat \ {0} /\ DtTune \in Nat \ {0}
  /\ \A o \in Options :
       /\ o.method \in {"monte_carlo", "tracers", "mocmc"}
       /\ \A s \in Starts[o.method] : /\ s[1] \in [Particles -> 1 .. NBlocks]
                                     /\ s[2] \in [Particles -> -1 .. 1]
  /\ \A d \in Directions : d \in [Particles -> [mu : Int, phi : Int]]

Blocks == 1 .. NBlocks
Ranks == {RankOf[b] : b \in Blocks}
BlocksOf(r) == {b \in Blocks : RankOf[b] = r}
Neighbours(b) == {b - 1, b + 1} \intersect Blocks
Links == {l \in Blocks \X Blocks : l[2] \in Neighbours(l[1])}

VARIABLES
  set,       \* set: the settings of the run
  x, vel,    \* position and velocity of each particle
  dir, box,  \* MOCMC: direction seen last, and share of the directions
  time,      \* time[p]: steps or stages it has been advanced to (swarm variable t)
  held,      \* held[b]: particles in the swarm of block b
  going,     \* going[p]: what GetNeighborBlockIndex found last
  unborn,    \* particles not emitted yet
  buffer,    \* buffer[l]: particles sent over link l, oldest first
  arrived,   \* arrived[b]: whether b has received from all neighbours
  fluid,     \* energy of the fluid of a block
  Gcov,      \* Monte Carlo: the force that is to be added to it
  moment,    \* MOCMC: energy of the radiation of a block
  escaped,   \* history: particles that have left the domain
  num,       \* num[r]: particles in num_emitted and num_absorbed
  resolution,\* resolution[r]: particle_resolution, <<>> before the update
  given,     \* given[r]: what it gave to the reduction, <<>> before
  t_tune,    \* t_tune[r]: t_tune_emission
  tuned,     \* history: tuned[r], the totals rank r has tuned to
  exchanged, \* history: what each rank has counted in each round
  round,     \* the step of the run
  region, at \* region[r]; at[l]: next task of list l

swarm == <<x, vel, dir, box, time, held, going, unborn, buffer, arrived>>
tuning == <<num, resolution, given, t_tune, tuned, exchanged>>
energy == <<fluid, Gcov, moment, escaped>>
vars == <<set, swarm, tuning, energy, round, region, at>>

Between(lo, n, hi) == IF n < lo THEN lo ELSE IF n > hi THEN hi ELSE n
InDomain(n) == n \in Blocks
(* Nobody is next to the ends of the line: a particle there stays *)
GetNeighborBlockIndex(n) == Between(1, n, NBlocks)

----------------------------------------------------------------------------
(* Regions and task lists                                                  *)

PerRank(i, r, chain) == [region |-> i, rank |-> r, blocks |-> BlocksOf(r), chain |-> chain]
PerBlock(i, b, chain) == [region |-> i, rank |-> RankOf[b], blocks |-> {b}, chain |-> chain]

Tuning == <<"UpdateParticleResolution", "TotalEmissivity", "StartReduce", "CheckReduce",
            "UpdateTuning">>
(* Mutant: each block resets its own communication *)
MonteCarloResetInList ==
  {PerRank(1, r, <<>>) : r \in Ranks} \union
  {PerBlock(2, b, <<"ResetCommunication", "SourceParticles", "Transport", "Send",
                    "Receive">>) : b \in Blocks} \union
  {PerRank(3, r, Tuning) : r \in Ranks} \union
  {PerRank(4, r, <<"ApplyRadiationFourForce">>) : r \in Ranks}
MonteCarloStep ==
  {PerRank(1, r, <<"ResetCommunication">>) : r \in Ranks} \union
  {PerBlock(2, b, <<"SourceParticles", "Transport", "Send", "Receive">>) : b \in Blocks} \union
  {PerRank(3, r, Tuning) : r \in Ranks} \union
  {PerRank(4, r, <<"ApplyRadiationFourForce">>) : r \in Ranks}

(* One list per partition, and one partition per rank *)
TracerRegion ==
  {PerRank(1, r, <<"ResetCommunication", "AdvectTracers", "PurgeParticles", "Send",
                   "Receive", "Defrag">>) : r \in Ranks}

(* Mutant: samples are sent before they move *)
MocmcSendFirst(n) ==
  {PerRank(2 * n - 1, r, <<"ResetCommunication", "Send", "MOCMCTransport", "Receive">>)
     : r \in Ranks} \union
  {PerRank(2 * n - 1, r, <<"SampleBoundaries", "Reconstruction", "Eddington">>) : r \in Ranks}
  \union {PerRank(2 * n, r, <<"FluidSource", "Eddington">>) : r \in Ranks}
(* In each stage; the boundary samples of a list wait for nothing *)
MocmcStage(n) ==
  {PerRank(2 * n - 1, r, <<"ResetCommunication", "MOCMCTransport", "Send", "Receive">>)
     : r \in Ranks} \union
  {PerRank(2 * n - 1, r, <<"SampleBoundaries", "Reconstruction", "Eddington">>) : r \in Ranks}
  \union {PerRank(2 * n, r, <<"FluidSource", "Eddington">>) : r \in Ranks}
MocmcRegions == UNION {MocmcStage(n) : n \in 1 .. NStages}

(* What the driver has in the regions of a step *)
Lists == CASE set.method = "monte_carlo" -> MonteCarloStep
           [] set.method = "tracers" -> TracerRegion
           [] set.method = "mocmc" -> MocmcRegions
Here(r) == {l \in Lists : l.rank = r /\ l.region = region[r]}
LastRegion == Max({l.region : l \in Lists})

(* The run ends after the steps it was asked for (parthenon/time/nlim)      *)
Over == round > NRounds \/ round > set.nlim
Pending(l, task) ==
  ~Over /\ l.region = region[l.rank] /\ at[l] <= Len(l.chain) /\ l.chain[at[l]] = task
Run(l, task) ==
  /\ Pending(l, task)
  /\ at' = [at EXCEPT ![l] = @ + 1]
  /\ UNCHANGED <<set, round, region>>

Completed(r) == \A l \in Here(r) : at[l] > Len(l.chain)
RegionComplete(r) ==
  /\ region[r] < LastRegion /\ Completed(r)
  /\ region' = [region EXCEPT ![r] = @ + 1]
  /\ UNCHANGED <<set, swarm, tuning, energy, round, at>>

AllComplete == \A r \in Ranks : region[r] = LastRegion /\ Completed(r)
(* All ranks meet between steps; the values to be reduced are set to zero *)
EndRound ==
  /\ AllComplete /\ ~Over
  /\ round' = round + 1
  /\ region' = [r \in Ranks |-> 1] /\ at' = [l \in Lists |-> 1]
  /\ resolution' = [r \in Ranks |-> <<>>] /\ given' = resolution'
  /\ UNCHANGED <<set, swarm, energy, num, t_tune, tuned, exchanged>>

(* Swarms start with what was created in their zones: MOCMC's samples (by  *)
(* the problem generator, seen by the first reconstruction), tracers;      *)
(* Monte Carlo has none before a restart                                   *)
InitSamples(b) == {p \in Particles \ unborn : x[p] = b}

Init ==
  /\ set \in Options
  /\ \E s \in Starts[set.method] : x = s[1] /\ vel = s[2]
  /\ dir = [p \in Particles |-> [mu |-> 0, phi |-> 0]]
  /\ unborn = IF set.method = "monte_carlo" THEN Reserve ELSE {}
  /\ box = [p \in Particles |-> Whole] /\ time = [p \in Particles |-> 0]
  /\ held = [b \in Blocks |-> InitSamples(b)]
  /\ going = x
  /\ buffer = [l \in Links |-> <<>>] /\ arrived = [b \in Blocks |-> TRUE]
  /\ fluid = [b \in Blocks |-> 0] /\ Gcov = fluid /\ moment = fluid /\ escaped = {}
  /\ num = [r \in Ranks |-> {}]
  /\ resolution = [r \in Ranks |-> <<>>] /\ given = resolution
  /\ t_tune = [r \in Ranks |-> DtTune] /\ tuned = [r \in Ranks |-> <<>>]
  /\ exchanged = [k \in 1 .. NRounds |-> [r \in Ranks |-> {}]]
  /\ round = 1 /\ region = [r \in Ranks |-> 1] /\ at = [l \in Lists |-> 1]

----------------------------------------------------------------------------
(* Communication of swarms                                                 *)

Local(l) == RankOf[l[1]] = RankOf[l[2]]

(* What a block of the same rank has already put into the buffers is lost *)
ResetCommunication(l) ==
  /\ Run(l, "ResetCommunication")
  /\ arrived' = [b \in Blocks |-> IF b \in l.blocks THEN FALSE ELSE arrived[b]]
  /\ buffer' = [k \in Links |-> IF Local(k) /\ k[2] \in l.blocks THEN <<>> ELSE buffer[k]]
  /\ UNCHANGED <<x, vel, dir, box, time, held, going, unborn, tuning, energy>>

Leaving(b, n) == {p \in held[b] : going[p] = n}
Send(l) ==
  /\ Run(l, "Send")
  /\ buffer' = [k \in Links |-> IF k[1] \in l.blocks THEN Append(buffer[k], Leaving(k[1], k[2]))
                                                      ELSE buffer[k]]
  /\ held' = [b \in Blocks |-> IF b \in l.blocks
                THEN held[b] \ UNION {Leaving(b, n) : n \in Neighbours(b)} ELSE held[b]]
  /\ UNCHANGED <<x, vel, dir, box, time, going, unborn, arrived, tuning, energy>>

Inbox(b) == {<<n, b>> : n \in Neighbours(b)}
(* A block whose neighbours have all sent takes what they sent; its swarm  *)
(* boundaries (outflow) take what has left the domain                      *)
Ready(b) == ~arrived[b] /\ \A k \in Inbox(b) : buffer[k] # <<>>
Unloaded(b) == held[b] \union UNION {Head(buffer[k]) : k \in Inbox(b)}
Kept(b) == IF set.outflow THEN {p \in Unloaded(b) : InDomain(x[p])} ELSE Unloaded(b)
(* The task is incomplete until every block of the list is served *)
Receive(l) ==
  LET some == {b \in l.blocks : Ready(b)}
  IN /\ Pending(l, "Receive") /\ some # {}
     /\ IF \A b \in l.blocks \ some : arrived[b] THEN Run(l, "Receive")
        ELSE UNCHANGED <<set, round, region, at>>
     /\ arrived' = [b \in Blocks |-> arrived[b] \/ b \in some]
     /\ held' = [b \in Blocks |-> IF b \in some THEN Kept(b) ELSE held[b]]
     /\ escaped' = escaped \union UNION {Unloaded(b) \ Kept(b) : b \in some}
     /\ buffer' = [k \in Links |-> IF k[2] \in some THEN Tail(buffer[k]) ELSE buffer[k]]
     /\ UNCHANGED <<x, vel, dir, box, time, going, unborn, tuning, fluid, Gcov, moment>>

Defrag(l) == Run(l, "Defrag") /\ UNCHANGED <<swarm, tuning, energy>>

----------------------------------------------------------------------------
(* Moving particles                                                        *)

In(l) == UNION {held[b] : b \in l.blocks}

(* The neighbour is looked up with the position the particle had before *)
PushedInPlace(S) ==
  /\ x' = [p \in Particles |-> IF p \in S THEN x[p] + vel[p] ELSE x[p]]
  /\ time' = [p \in Particles |-> IF p \in S THEN time[p] + 1 ELSE time[p]]
  /\ going' = [p \in Particles |-> IF p \in S THEN GetNeighborBlockIndex(x[p]) ELSE going[p]]
Pushed(S) ==
  /\ x' = [p \in Particles |-> IF p \in S THEN x[p] + vel[p] ELSE x[p]]
  /\ time' = [p \in Particles |-> IF p \in S THEN time[p] + 1 ELSE time[p]]
  /\ going' = [p \in Particles |-> IF p \in S THEN GetNeighborBlockIndex(x'[p]) ELSE going[p]]

(* The counters of a rank are kept as what was counted, a sum over ranks   *)
(* as its terms                                                            *)
Count(r, what, S) ==
  /\ num' = [num EXCEPT ![r] = @ \union ({what} \X S)]
  /\ exchanged' = [exchanged EXCEPT ![round][r] = @ \union ({what} \X S)]

(* How many are emitted follows from the emissivity, a weight and a draw *)
Emissions == SUBSET unborn
(* Born at the centre of the zone at the start of the step, of the energy  *)
(* of the fluid                                                            *)
Born(S, b) ==
  /\ x' = [p \in Particles |-> IF p \in S THEN b ELSE x[p]]
  /\ time' = [p \in Particles |-> IF p \in S THEN round - 1 ELSE time[p]]
  /\ going' = [p \in Particles |-> IF p \in S THEN b ELSE going[p]]
  /\ unborn' = unborn \ S
  /\ Gcov' = [Gcov EXCEPT ![b] = - Cardinality(S)]
Staying(S) == IF set.remove_emitted THEN {} ELSE S
SourceParticles(l) ==
  /\ Run(l, "SourceParticles")
  /\ \E S \in Emissions, b \in l.blocks :
       /\ Born(S, b)
       /\ held' = [held EXCEPT ![b] = @ \union Staying(S)]
       /\ Count(l.rank, "emitted", S)
  /\ UNCHANGED <<vel, dir, box, buffer, arrived, fluid, moment, escaped, resolution,
                 given, t_tune, tuned>>

(* Mutant: the fluid forgets what it absorbed *)
TransportNoDeposit(l) ==
  /\ Run(l, "Transport")
  /\ \E absorbed \in SUBSET In(l), b \in l.blocks :
       /\ set.absorption \/ absorbed = {}
       /\ Pushed(In(l) \ absorbed)
       /\ held' = [held EXCEPT ![b] = @ \ absorbed]
       /\ Count(l.rank, "absorbed", absorbed)
  /\ UNCHANGED <<vel, dir, box, unborn, buffer, arrived, energy, resolution, given,
                 t_tune, tuned>>
Transport(l) ==
  /\ Run(l, "Transport")
  /\ \E absorbed \in SUBSET In(l), b \in l.blocks :
       /\ set.absorption \/ absorbed = {}
       /\ Pushed(In(l) \ absorbed)
       /\ held' = [held EXCEPT ![b] = @ \ absorbed]
       /\ Gcov' = [Gcov EXCEPT ![b] = @ + Cardinality(absorbed)]
       /\ Count(l.rank, "absorbed", absorbed)
  /\ UNCHANGED <<vel, dir, box, unborn, buffer, arrived, fluid, moment, escaped,
                 resolution, given, t_tune, tuned>>

ApplyRadiationFourForce(l) ==
  /\ Run(l, "ApplyRadiationFourForce")
  /\ fluid' = [b \in Blocks |-> IF b \in l.blocks THEN fluid[b] + Gcov[b] ELSE fluid[b]]
  /\ UNCHANGED <<swarm, tuning, Gcov, moment, escaped>>

MOCMCTransport(l) ==
  /\ Run(l, "MOCMCTransport") /\ Pushed(In(l))
  /\ UNCHANGED <<vel, dir, box, held, unborn, buffer, arrived, tuning, energy>>

AdvectTracers(l) ==
  /\ Run(l, "AdvectTracers") /\ PushedInPlace(In(l))
  /\ UNCHANGED <<vel, dir, box, held, unborn, buffer, arrived, tuning, energy>>

(* Of the blocks of a partition only the first, of that all but the last   *)
(* particle, in the Kerr-Schild metric of a black hole only                *)
PurgeParticles(l) ==
  /\ Run(l, "PurgeParticles")
  /\ LET b == Min(l.blocks)
     IN \E visited \in IF ~set.fmks \/ held[b] = {} THEN {{}}
                       ELSE {held[b] \ {last} : last \in held[b]} :
          /\ held' = [held EXCEPT ![b] = @ \ {p \in visited : x[p] <= set.horizon}]
          /\ going' = [p \in Particles |-> IF p \in visited THEN GetNeighborBlockIndex(x[p])
                                                             ELSE going[p]]
  /\ UNCHANGED <<x, vel, dir, box, time, unborn, buffer, arrived, tuning, energy>>

----------------------------------------------------------------------------
(* MOCMC: boundaries, reconstruction and source                            *)

Reflected(n) == IF n < 1 THEN 1 - n ELSE IF n > NBlocks THEN 2 * NBlocks - n + 1 ELSE n
SampleBoundaries(l) ==
  /\ Run(l, "SampleBoundaries")
  /\ x' = [p \in Particles |-> IF p \in In(l) THEN Reflected(x[p]) ELSE x[p]]
  /\ vel' = [p \in Particles |-> IF p \in In(l) /\ ~InDomain(x[p]) THEN - vel[p] ELSE vel[p]]
  /\ going' = [p \in Particles |-> IF p \in In(l) THEN GetNeighborBlockIndex(x'[p])
                                                   ELSE going[p]]
  /\ UNCHANGED <<dir, box, time, held, unborn, buffer, arrived, tuning, energy>>

(* The cells of the interior do not see samples that have left the block   *)
Cell(b) == {p \in Particles : p \in held[b] /\ x[p] = b}
GridsOf(l, d) ==
  {grid \in [l.blocks -> UNION {Grids(Cell(b), d, box) : b \in l.blocks}] :
     \A b \in l.blocks : ToSet(grid[b].seen) = Cell(b)}
(* Samples and fluid have moved: the directions are seen anew *)
Reconstruction(l) ==
  /\ Run(l, "Reconstruction")
  /\ \E d \in Directions : \E grid \in GridsOf(l, d) :
       LET here == UNION {Cell(b) : b \in l.blocks}
       IN /\ dir' = [p \in Particles |-> IF p \in here THEN d[p] ELSE dir[p]]
          /\ box' = [p \in Particles |-> IF p \in here THEN grid[x[p]].box[p] ELSE box[p]]
  /\ UNCHANGED <<x, vel, time, held, going, unborn, buffer, arrived, tuning, energy>>

Eddington(l) == Run(l, "Eddington") /\ UNCHANGED <<swarm, tuning, energy>>

(* The moments gain what the fluid loses, if it is updated at all: the     *)
(* same amount in all cells of a list                                      *)
SourceUpdate(l, dE) ==
  /\ moment' = [b \in Blocks |-> IF b \in l.blocks THEN moment[b] + dE ELSE moment[b]]
  /\ fluid' = [b \in Blocks |-> IF b \in l.blocks /\ set.update_fluid
                                   THEN fluid[b] - dE ELSE fluid[b]]
FluidSource(l) ==
  /\ Run(l, "FluidSource")
  /\ \E dE \in Exchanges : SourceUpdate(l, dE)
  /\ UNCHANGED <<swarm, tuning, Gcov, escaped>>

----------------------------------------------------------------------------
(* Monte Carlo: tuning of the number of particles                          *)

UpdateParticleResolution(l) ==
  /\ Run(l, "UpdateParticleResolution")
  /\ resolution' = [resolution EXCEPT ![l.rank] = <<[r \in {l.rank} |-> num[r]]>>]
  /\ UNCHANGED <<swarm, energy, num, given, t_tune, tuned, exchanged>>

(* ... which ends in a blocking sum over all ranks *)
TotalEmissivity(l) ==
  /\ Run(l, "TotalEmissivity") /\ \A r \in Ranks : resolution[r] # <<>>
  /\ UNCHANGED <<swarm, tuning, energy>>

StartReduce(l) ==
  /\ Run(l, "StartReduce")
  /\ given' = [given EXCEPT ![l.rank] = resolution[l.rank]]
  /\ UNCHANGED <<swarm, energy, num, resolution, t_tune, tuned, exchanged>>

CheckReduce(l) ==
  /\ Run(l, "CheckReduce") /\ \A r \in Ranks : given[r] # <<>>
  /\ resolution' = [resolution EXCEPT ![l.rank] = <<[r \in Ranks |-> given[r][1][r]]>>]
  /\ UNCHANGED <<swarm, energy, num, given, t_tune, tuned, exchanged>>

Tune(r) ==
  /\ tuned' = [tuned EXCEPT ![r] = Append(@, [round |-> round, real |-> resolution[r][1]])]
  /\ t_tune' = [t_tune EXCEPT ![r] = @ + DtTune]
(* Mutant: the counters are not reset *)
UpdateTuningCountersKept(l) ==
  /\ Run(l, "UpdateTuning")
  /\ IF set.tuning = "dynamic_difference" /\ t_tune[l.rank] < round * Dt
       THEN Tune(l.rank) ELSE UNCHANGED <<tuned, t_tune>>
  /\ UNCHANGED <<swarm, energy, num, resolution, given, exchanged>>
UpdateTuning(l) ==
  /\ Run(l, "UpdateTuning")
  /\ IF set.tuning = "dynamic_difference" /\ t_tune[l.rank] < round * Dt
       THEN Tune(l.rank) /\ num' = [num EXCEPT ![l.rank] = {}]
       ELSE UNCHANGED <<tuned, t_tune, num>>
  /\ UNCHANGED <<swarm, energy, resolution, given, exchanged>>

----------------------------------------------------------------------------
ListTask(l) ==
  \/ ResetCommunication(l) \/ Send(l) \/ Receive(l) \/ Defrag(l)
  \/ SourceParticles(l) \/ Transport(l) \/ ApplyRadiationFourForce(l)
  \/ UpdateParticleResolution(l) \/ TotalEmissivity(l) \/ StartReduce(l)
  \/ CheckReduce(l) \/ UpdateTuning(l)
  \/ AdvectTracers(l) \/ PurgeParticles(l)
  \/ MOCMCTransport(l) \/ SampleBoundaries(l) \/ Reconstruction(l) \/ Eddington(l)
  \/ FluidSource(l)
RankStep(r) == RegionComplete(r) \/ \E l \in Here(r) : ListTask(l)
Finished == Over /\ UNCHANGED vars
Next == EndRound \/ Finished \/ \E r \in Ranks : RankStep(r)

(* A rank polls its lists until they are complete; the step ends when all are *)
Fairness == WF_vars(EndRound) /\ \A r \in Ranks : WF_vars(RankStep(r))
Spec == Init /\ [][Next]_vars /\ Fairness

----------------------------------------------------------------------------
(* Properties                                                              *)

Alive == {p \in Particles : \/ \E b \in Blocks : p \in held[b]
                            \/ \E k \in Links : \E i \in DOMAIN buffer[k] : p \in buffer[k][i]}

(* Whatever the order of blocks and ranks: each live particle, in a block  *)
(* or on its way, is advanced exactly once per step (MOCMC: as often as    *)
(* the step has stages), and disappears only by absorption, purge or       *)
(* outflow (ParticleStep).                                                 *)
Abstract == INSTANCE ParticleStep WITH
              alive <- Alive, now <- round - 1,
              advances <- IF set.method = "mocmc" THEN NStages ELSE 1,
              time <- [p \in Particles |-> IF p \in Alive THEN time[p] ELSE 0]
AdvancedOnce == Abstract!Spec

(* A particle is never in two places, and a Monte Carlo particle ends the  *)
(* step in the block its position is in.                                   *)
Places(p) == {<<b, b, 0>> : b \in {c \in Blocks : p \in held[c]}}
               \union UNION {{<<k[1], k[2], i>> : i \in {j \in DOMAIN buffer[k] : p \in buffer[k][j]}}
                            : k \in Links}
AtHomeOnce ==
  /\ \A p \in Particles : \A y, z \in Places(p) : y = z
  /\ set.method = "monte_carlo" /\ AllComplete =>
       \A b \in Blocks : \A p \in held[b] : GetNeighborBlockIndex(x[p]) = b

(* What is emitted, absorbed and carried between blocks and out of the     *)
(* domain is taken from and given to the fluid: no energy is created.      *)
SumOver(f, S) == MapThenSumSet(LAMBDA y : f[y], S)
Total(f) == SumOver(f, Blocks)
EnergyKept ==
  AllComplete =>
    CASE set.method = "monte_carlo" /\ ~set.remove_emitted ->
           Total(fluid) + Cardinality(Alive) + Cardinality(escaped)
             = Cardinality(Particles \ Reserve)
      [] set.method = "mocmc" /\ set.update_fluid -> Total(fluid) + Total(moment) = 0
      [] OTHER -> TRUE

(* Every rank tunes to what all ranks have emitted and absorbed since the  *)
(* last tuning, no more and no less.                                       *)
CountedIn(q, i, j) == UNION {exchanged[n][q] : n \in i + 1 .. j}
TunedBefore(r, k) == IF k = 1 THEN 0 ELSE tuned[r][k - 1].round
TuningCountsAll ==
  \A r \in Ranks : \A k \in DOMAIN tuned[r] :
    tuned[r][k].real = [q \in Ranks |-> CountedIn(q, TunedBefore(r, k), tuned[r][k].round)]

(* Directions inside the grid, none on an edge that another one makes      *)
InGrid(S, d) ==
  \A p \in S : /\ Inside(Whole, d[p])
              /\ \A q \in S \ {p} : /\ d[p].mu # mu_split(d[q])
                                    /\ d[p].phi # phi_split(d[q])

(* Samples whose directions lie in the grid share the whole solid angle    *)
(* and no more, in whatever order they are listed and whatever shares they *)
(* had before.  (Directions are not normalised in the frame of the fluid:  *)
(* one that leaves the grid keeps the share it had.)                       *)
SolidAngleShared ==
  [][\A l \in Lists : Pending(l, "Reconstruction") /\ at'[l] # at[l] =>
       \A b \in l.blocks : Cell(b) # {} /\ InGrid(Cell(b), dir') =>
         SumOver([p \in Cell(b) |-> dOmega(box'[p])], Cell(b)) = dOmega(Whole)]_vars

(* No block waits for particles that were sent and forgotten.              *)
StepsComplete == <>Over

(* "Current criteria: particle falls into event horizon": no tracer inside *)
(* the horizon survives the step.                                          *)
HorizonPurged ==
  set.method = "tracers" /\ set.fmks /\ AllComplete =>
    \A p \in Alive : x[p] > set.horizon

=============================================================================
