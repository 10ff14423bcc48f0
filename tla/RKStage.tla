------------------------------- MODULE RKStage -------------------------------
(***************************************************************************)
(* The Runge-Kutta stages of PhoebusDriver::Step on every rank of a run:   *)
(* the task lists RungeKuttaStage builds, region by region, and the state  *)
(* that passes between the tasks.                                          *)
(*                                                                         *)
(* Numbers are abstracted to stamps.  A level k stands for the state that  *)
(* the k-th stage since the start produces (level 0 is the initial state); *)
(* a stamp says of which level some cells are and which handlers have      *)
(* worked on them since the update that wrote them.  Tasks are taken in    *)
(* any order that the declared dependencies allow, lists of a region       *)
(* interleave, and each rank advances on its own: only messages and the    *)
(* global time step tie ranks together.                                    *)
(*                                                                         *)
(* Conserved variables have a copy in every stage container.  Primitives,  *)
(* like everything flagged Metadata::OneCopy, exist once and are shared    *)
(* by all containers.                                                      *)
(***************************************************************************)
EXTENDS Integers, FiniteSets

CONSTANTS
  Ranks,            \* MPI ranks
  Blocks,           \* mesh blocks of all ranks
  RankOf,           \* rank that owns a block
  Partitions,       \* DefaultNumPartitions: sets of blocks of one rank
  Neighbors,        \* blocks a block exchanges ghost zones with
  Finer,            \* neighbours one refinement level finer
  Phys,             \* the ghost zones behind a physical boundary
  NStages,          \* integrator->nstages
  NSteps,           \* bound: steps of the main loop
  BcPrimitive,      \* phoebus/mesh/bc_vars = primitive
  MomentsActive,    \* radiation/moments_active
  PhiEnforced,      \* fixup/enable_phi_enforcement
  CoolingFunction   \* radiation/method = cooling_function

ASSUME StagesAssumption == NStages \in Nat \ {0} /\ NSteps \in Nat \ {0}

ASSUME MeshAssumption ==
  /\ RankOf \in [Blocks -> Ranks]
  /\ Neighbors \in [Blocks -> SUBSET Blocks]
  /\ Finer \in [Blocks -> SUBSET Blocks]
  /\ \A b \in Blocks : b \notin Finer[b]
  /\ Phys \notin Blocks

ASSUME NeighborAssumption ==
  \A b, n \in Blocks : n \in Neighbors[b] => b \in Neighbors[n]

ASSUME PartitionAssumption ==
  /\ Partitions \subseteq SUBSET Blocks
  /\ \A L \in Partitions : \E r \in Ranks : \A b \in L : RankOf[b] = r
  /\ \A b \in Blocks : \E L \in Partitions : b \in L
  /\ \A L, M \in Partitions : L # M => L \intersect M = {}

ASSUME OptionAssumption ==
  /\ BcPrimitive \in BOOLEAN
  /\ MomentsActive \in BOOLEAN
  /\ PhiEnforced \in BOOLEAN
  /\ CoolingFunction \in BOOLEAN

VARIABLES
  clk,      \* clk[r]: level the current stage of rank r computes
  at,       \* at[r]: task region rank r executes
  done,     \* done[r]: <<task, list>> pairs completed in that region
  cons,     \* cons[c][b][z]: conserved variables, one copy per container c
  prim,     \* prim[b][z]: primitive variables, shared by the containers
  flux,     \* flux[b]: face fluxes
  edge,     \* edge[b]: stamps the moment edge states were built from
  opac,     \* opac[b]: stamps the opacities were computed from
  gsrc,     \* gsrc[b]: container "geometric source terms"
  dudt,     \* dudt[b]: container "dUdt"
  force,    \* force[b]: the stamp Gcov was computed from
  posted,   \* posted[b]: receives posted for b
  fluxMsg,  \* fluxMsg[f][b]: correction in flight from fine f, at most one
  bndMsg,   \* bndMsg[b][n]: ghost zones in flight, at most one
  sums,     \* sums[r]: conserved fields Phi was measured on in this stage
  newDt,    \* newDt[b]: stamp the block's time step was estimated from
  avgd,     \* history: avgd[b], the base state averaged in last
  used      \* history: used[b], what the last update was made of

control == <<clk, at, done>>
rates   == <<flux, edge, opac, gsrc, dudt>>
mail    == <<posted, fluxMsg, bndMsg>>
notes   == <<avgd, used>>
vars == <<control, cons, prim, rates, force, mail, sums, newDt, notes>>

----------------------------------------------------------------------------
(* Levels and containers                                                   *)

LastLevel == NSteps * NStages
StageOf(k) == ((k - 1) % NStages) + 1
StepStart(k) == k - StageOf(k)

(* stage_name: the first and the last name are "base" *)
Base == 0
Containers == 0 .. NStages - 1
Sc0(k) == StageOf(k) - 1
Sc1(k) == StageOf(k) % NStages

Zone == Blocks \union {Phys}
ZonesOf(b) == Neighbors[b] \union {b, Phys}

(* A stamp: the level of the cells and, apart, of their magnetic field;    *)
(* the handlers that have worked on them since; the levels whose net-field *)
(* update they contain.                                                    *)
Handlers == {"c2p", "fixup", "radfixup", "floors"}
            \union (IF MomentsActive THEN {"source"} ELSE {})
AnyHandler == {"c2p", "fixup", "radfixup", "floors", "source", "averaged",
               "cooling"}
Stamp == [lvl : -1 .. LastLevel, mag : -1 .. LastLevel,
          by : SUBSET AnyHandler, net : SUBSET (1 .. LastLevel)]
Blank == [lvl |-> -1, mag |-> -1, by |-> {}, net |-> {}]

(* The state a finished stage leaves behind *)
Finished(s, k) == s.lvl = k /\ s.mag = k /\ s.by = Handlers

FluxOps == {"riemann", "ct", "fix"}
           \union (IF MomentsActive THEN {"moment"} ELSE {})
AnyFluxOp == {"riemann", "ct", "fix", "moment"}
NoFlux == [lvl |-> 0, from |-> {}, by |-> {}, corr |-> {}]
NoSource == [fluid |-> Blank, moment |-> Blank]
NoUpdate == [lvl |-> 0, old |-> Blank, base |-> Blank,
             rhs |-> [flux |-> NoFlux, src |-> NoSource]]

----------------------------------------------------------------------------
(* The task graph: regions, their tasks, and declared dependencies         *)

StepEnd == 10

TasksOf(g, k) ==
  CASE g = 1 -> {"StartReceiveBoundBufs", "CalculateFluidSourceTerms"} \union
                (IF \E b \in Blocks : Finer[b] # {}
                 THEN {"StartReceiveFluxCorrections"} ELSE {})
    [] g = 2 -> {"CalculateFluxes", "FluxCT", "FixFluxes"} \union
                (IF MomentsActive
                 THEN {"ReconstructEdgeStates", "MomentCalculateOpacities",
                       "MomentCalculateFluxes", "CalculateGeometricSource"}
                 ELSE {})
    [] g = 3 -> {"SumMdotPhi", "ModifyNetField"}
    [] g = 4 -> IF PhiEnforced THEN {"PrimitiveToConserved"} ELSE {}
    [] g = 5 -> {"LoadAndSendFluxCorrections", "ReceiveFluxCorrections",
                 "SetFluxCorrections", "FluxDivergence", "SumData",
                 "AverageIndependentData", "UpdateIndependentData"}
    [] g = 6 -> {"FillDerivedMesh", "C2PFixupMesh", "RadC2PFixupMesh",
                 "ApplyFloorsMesh"} \union
                (IF MomentsActive
                 THEN {"MomentFluidSource", "ApplyFloorsAgain"} ELSE {})
    [] g = 7 -> {"SendBoundBufs", "ReceiveBoundBufs", "SetBounds"}
    [] g = 8 -> {"ApplyBC", "ConvertBC", "FillDerived", "C2PFixup",
                 "RadC2PFixup", "ApplyFloors"} \union
                (IF StageOf(k) = NStages THEN {"EstimateTimestep"} ELSE {})
    [] g = 9 -> IF CoolingFunction /\ StageOf(k) = NStages
                THEN {"CalculateFourForce", "ApplyRadiationFourForce"} ELSE {}
    [] OTHER -> {}

(* What a task is declared to wait for: the TaskIDs given to AddTask *)
FluxDepsNoOpacity(t) ==
  CASE t = "FluxCT" -> {"CalculateFluxes"}
    [] t = "MomentCalculateOpacities" -> {"ReconstructEdgeStates"}
    [] t = "MomentCalculateFluxes" -> {"ReconstructEdgeStates"}
    [] t = "FixFluxes" -> {"FluxCT", "MomentCalculateFluxes"}
    [] OTHER -> {}

FluxDeps(t) ==
  CASE t = "FluxCT" -> {"CalculateFluxes"}
    [] t = "MomentCalculateOpacities" -> {"ReconstructEdgeStates"}
    [] t = "MomentCalculateFluxes" -> {"MomentCalculateOpacities"}
    [] t = "FixFluxes" -> {"FluxCT", "MomentCalculateFluxes"}
    [] OTHER -> {}

NetFieldDeps(t) == IF t = "ModifyNetField" THEN {"SumMdotPhi"} ELSE {}

UpdateDepsNoAverage(t) ==
  CASE t = "SetFluxCorrections" -> {"ReceiveFluxCorrections"}
    [] t = "FluxDivergence" -> {"SetFluxCorrections"}
    [] t = "SumData" -> {"FluxDivergence"}
    [] t = "AverageIndependentData" -> {"FluxDivergence"}
    [] t = "UpdateIndependentData" -> {"FluxDivergence"}
    [] OTHER -> {}

UpdateDepsNoSetFlux(t) ==
  CASE t = "SetFluxCorrections" -> {"ReceiveFluxCorrections"}
    [] t = "FluxDivergence" -> {"ReceiveFluxCorrections"}
    [] t = "SumData" -> {"FluxDivergence"}
    [] t = "AverageIndependentData" -> {"FluxDivergence"}
    [] t = "UpdateIndependentData" -> {"AverageIndependentData"}
    [] OTHER -> {}

UpdateDeps(t) ==
  CASE t = "SetFluxCorrections" -> {"ReceiveFluxCorrections"}
    [] t = "FluxDivergence" -> {"SetFluxCorrections"}
    [] t = "SumData" -> {"FluxDivergence"}
    [] t = "AverageIndependentData" -> {"FluxDivergence"}
    [] t = "UpdateIndependentData" -> {"AverageIndependentData"}
    [] OTHER -> {}

FixupDeps(t) ==
  CASE t = "C2PFixupMesh" -> {"FillDerivedMesh"}
    [] t = "RadC2PFixupMesh" -> {"C2PFixupMesh"}
    [] t = "ApplyFloorsMesh" -> {"RadC2PFixupMesh"}
    [] t = "MomentFluidSource" -> {"ApplyFloorsMesh"}
    [] t = "ApplyFloorsAgain" -> {"MomentFluidSource"}
    [] OTHER -> {}

BoundaryDepsNoFloors(t) ==
  CASE t = "SetBounds" -> {"ReceiveBoundBufs"}
    [] t = "ConvertBC" -> {"ApplyBC"}
    [] t = "FillDerived" -> {"ConvertBC"}
    [] t = "C2PFixup" -> {"FillDerived"}
    [] t = "RadC2PFixup" -> {"C2PFixup"}
    [] t = "ApplyFloors" -> {"RadC2PFixup"}
    [] t = "EstimateTimestep" -> {"RadC2PFixup"}
    [] OTHER -> {}

BoundaryDeps(t) ==
  CASE t = "SetBounds" -> {"ReceiveBoundBufs"}
    [] t = "ConvertBC" -> {"ApplyBC"}
    [] t = "FillDerived" -> {"ConvertBC"}
    [] t = "C2PFixup" -> {"FillDerived"}
    [] t = "RadC2PFixup" -> {"C2PFixup"}
    [] t = "ApplyFloors" -> {"RadC2PFixup"}
    [] t = "EstimateTimestep" -> {"ApplyFloors"}
    [] OTHER -> {}

PostStepDeps(t) ==
  IF t = "ApplyRadiationFourForce" THEN {"CalculateFourForce"} ELSE {}

Deps(t) == FluxDeps(t) \union NetFieldDeps(t) \union UpdateDeps(t)
           \union FixupDeps(t) \union BoundaryDeps(t) \union PostStepDeps(t)

(* Async regions have one list per block, sync regions one per partition *)
PerBlock(g) == g \in {2, 4, 8}
Lists(r, g) ==
  {L \in (IF PerBlock(g) THEN {{b} : b \in Blocks} ELSE Partitions) :
     \A b \in L : RankOf[b] = r}

Begin(r, g, t, L) ==
  /\ at[r] = g
  /\ t \in TasksOf(g, clk[r])
  /\ L \in Lists(r, g)
  /\ <<t, L>> \notin done[r]
  /\ \A d \in Deps(t) \intersect TasksOf(g, clk[r]) : <<d, L>> \in done[r]

Complete(r, t, L) ==
  /\ done' = [done EXCEPT ![r] = @ \union {<<t, L>>}]
  /\ UNCHANGED <<clk, at>>

----------------------------------------------------------------------------
(* sync_region_1: post receives, fluid geometric sources                   *)

StartReceiveBoundBufs(r, L) ==
  /\ Begin(r, 1, "StartReceiveBoundBufs", L)
  /\ posted' = [b \in Blocks |->
                  posted[b] \union IF b \in L THEN {"bound"} ELSE {}]
  /\ Complete(r, "StartReceiveBoundBufs", L)
  /\ UNCHANGED <<cons, prim, rates, force, fluxMsg, bndMsg, sums, newDt, notes>>

StartReceiveFluxCorrections(r, L) ==
  /\ Begin(r, 1, "StartReceiveFluxCorrections", L)
  /\ posted' = [b \in Blocks |->
                  posted[b] \union IF b \in L THEN {"flux"} ELSE {}]
  /\ Complete(r, "StartReceiveFluxCorrections", L)
  /\ UNCHANGED <<cons, prim, rates, force, fluxMsg, bndMsg, sums, newDt, notes>>

CalculateFluidSourceTerms(r, L) ==
  /\ Begin(r, 1, "CalculateFluidSourceTerms", L)
  /\ gsrc' = [b \in Blocks |->
                IF b \in L
                THEN [gsrc[b] EXCEPT !.fluid = prim[b][b]]
                ELSE gsrc[b]]
  /\ Complete(r, "CalculateFluidSourceTerms", L)
  /\ UNCHANGED <<cons, prim, flux, edge, opac, dudt, force, mail, sums, newDt,
                 notes>>

----------------------------------------------------------------------------
(* async_region_1: fluxes and moment sources, one list per block           *)

(* A solver that writes fluxes undoes what FixFluxes had imposed on them *)
Rewrite(f, k, op, read) ==
  IF f.lvl = k
  THEN [lvl |-> k, from |-> f.from \union read,
        by |-> (f.by \ {"fix"}) \union {op}, corr |-> f.corr]
  ELSE [lvl |-> k, from |-> read, by |-> {op}, corr |-> {}]

CalculateFluxes(r, b) ==
  LET k == clk[r]
      read == {prim[b][z] : z \in ZonesOf(b)} IN
  /\ Begin(r, 2, "CalculateFluxes", {b})
  /\ flux' = [flux EXCEPT ![b] = Rewrite(@, k, "riemann", read)]
  /\ Complete(r, "CalculateFluxes", {b})
  /\ UNCHANGED <<cons, prim, edge, opac, gsrc, dudt, force, mail, sums, newDt,
                 notes>>

FluxCT(r, b) ==
  LET k == clk[r] IN
  /\ Begin(r, 2, "FluxCT", {b})
  /\ flux' = [flux EXCEPT ![b] = Rewrite(@, k, "ct", {})]
  /\ Complete(r, "FluxCT", {b})
  /\ UNCHANGED <<cons, prim, edge, opac, gsrc, dudt, force, mail, sums, newDt,
                 notes>>

ReconstructEdgeStates(r, b) ==
  /\ Begin(r, 2, "ReconstructEdgeStates", {b})
  /\ edge' = [edge EXCEPT ![b] = {prim[b][z] : z \in ZonesOf(b)}]
  /\ Complete(r, "ReconstructEdgeStates", {b})
  /\ UNCHANGED <<cons, prim, flux, opac, gsrc, dudt, force, mail, sums, newDt,
                 notes>>

MomentCalculateOpacities(r, b) ==
  /\ Begin(r, 2, "MomentCalculateOpacities", {b})
  /\ opac' = [opac EXCEPT ![b] = {prim[b][z] : z \in ZonesOf(b)}]
  /\ Complete(r, "MomentCalculateOpacities", {b})
  /\ UNCHANGED <<cons, prim, flux, edge, gsrc, dudt, force, mail, sums, newDt,
                 notes>>

MomentCalculateFluxes(r, b) ==
  LET k == clk[r] IN
  /\ Begin(r, 2, "MomentCalculateFluxes", {b})
  /\ flux' = [flux EXCEPT ![b] =
                Rewrite(@, k, "moment", edge[b] \union opac[b])]
  /\ Complete(r, "MomentCalculateFluxes", {b})
  /\ UNCHANGED <<cons, prim, edge, opac, gsrc, dudt, force, mail, sums, newDt,
                 notes>>

CalculateGeometricSource(r, b) ==
  /\ Begin(r, 2, "CalculateGeometricSource", {b})
  /\ gsrc' = [gsrc EXCEPT ![b].moment = prim[b][b]]
  /\ Complete(r, "CalculateGeometricSource", {b})
  /\ UNCHANGED <<cons, prim, flux, edge, opac, dudt, force, mail, sums, newDt,
                 notes>>

FixFluxes(r, b) ==
  /\ Begin(r, 2, "FixFluxes", {b})
  /\ flux' = [flux EXCEPT ![b].by = @ \union {"fix"}]
  /\ Complete(r, "FixFluxes", {b})
  /\ UNCHANGED <<cons, prim, edge, opac, gsrc, dudt, force, mail, sums, newDt,
                 notes>>

----------------------------------------------------------------------------
(* sync_region_5 and async_region_4: net magnetic field                    *)

(* The first and the last task of the region: the tuning tasks between     *)
(* them, which leave the fields as they were, are module NetField's.       *)
(* Phi is measured on the conserved field of the stage's own container.    *)
SumMdotPhi(r, L) ==
  /\ Begin(r, 3, "SumMdotPhi", L)
  /\ sums' = IF PhiEnforced /\ StageOf(clk[r]) = 1
             THEN [sums EXCEPT ![r] =
                     @ \union {cons[Sc1(clk[r])][b][b] : b \in L}]
             ELSE sums
  /\ Complete(r, "SumMdotPhi", L)
  /\ UNCHANGED <<cons, prim, rates, force, mail, newDt, notes>>

(* s with the magnetic field of m, to which level k's net field is added   *)
NetFieldAdded(s, m, k) == [s EXCEPT !.mag = m.mag, !.net = m.net \union {k}]

(* Adds to the primitive field of the interior and overwrites the          *)
(* conserved field of the stage's container with the result                *)
ModifyNetField(r, L) ==
  LET k == clk[r]  c == Sc1(k) IN
  /\ Begin(r, 3, "ModifyNetField", L)
  /\ IF PhiEnforced
     THEN /\ prim' = [b \in Blocks |-> IF b \in L
                        THEN [prim[b] EXCEPT ![b] = NetFieldAdded(@, @, k)]
                        ELSE prim[b]]
          /\ cons' = [cons EXCEPT ![c] = [b \in Blocks |-> IF b \in L
                        THEN [cons[c][b] EXCEPT ![b] =
                                NetFieldAdded(@, prim[b][b], k)]
                        ELSE cons[c][b]]]
     ELSE UNCHANGED <<cons, prim>>
  /\ Complete(r, "ModifyNetField", L)
  /\ UNCHANGED <<rates, force, mail, sums, newDt, notes>>

PrimitiveToConserved(r, b) ==
  /\ Begin(r, 4, "PrimitiveToConserved", {b})
  /\ cons' = [cons EXCEPT ![Sc1(clk[r])][b] = prim[b]]
  /\ Complete(r, "PrimitiveToConserved", {b})
  /\ UNCHANGED <<prim, rates, force, mail, sums, newDt, notes>>

----------------------------------------------------------------------------
(* sync_region_3: flux corrections, update of the independent variables    *)

LoadAndSendFluxCorrections(r, L) ==
  LET out(f, b) == f \in L /\ f \in Finer[b] IN
  /\ Begin(r, 5, "LoadAndSendFluxCorrections", L)
  /\ \A f, b \in Blocks : out(f, b) => fluxMsg[f][b] = {}
  /\ fluxMsg' = [f \in Blocks |-> [b \in Blocks |->
                   IF out(f, b) THEN {[lvl |-> flux[f].lvl, by |-> flux[f].by]}
                   ELSE fluxMsg[f][b]]]
  /\ Complete(r, "LoadAndSendFluxCorrections", L)
  /\ UNCHANGED <<cons, prim, rates, force, posted, bndMsg, sums, newDt, notes>>

ReceiveFluxCorrectionsPosted(r, L) ==
  /\ Begin(r, 5, "ReceiveFluxCorrections", L)
  /\ \A b \in L : Finer[b] # {} => "flux" \in posted[b]
  /\ Complete(r, "ReceiveFluxCorrections", L)
  /\ UNCHANGED <<cons, prim, rates, force, mail, sums, newDt, notes>>

(* Returns incomplete until every correction the list waits for is there *)
ReceiveFluxCorrections(r, L) ==
  /\ Begin(r, 5, "ReceiveFluxCorrections", L)
  /\ \A b \in L : \A f \in Finer[b] : "flux" \in posted[b] /\ fluxMsg[f][b] # {}
  /\ Complete(r, "ReceiveFluxCorrections", L)
  /\ UNCHANGED <<cons, prim, rates, force, mail, sums, newDt, notes>>

SetFluxCorrections(r, L) ==
  /\ Begin(r, 5, "SetFluxCorrections", L)
  /\ flux' = [b \in Blocks |-> IF b \in L
                THEN [flux[b] EXCEPT !.corr =
                        UNION {{<<f, m>> : m \in fluxMsg[f][b]} : f \in Finer[b]}]
                ELSE flux[b]]
  /\ fluxMsg' = [f \in Blocks |-> [b \in Blocks |->
                   IF b \in L /\ f \in Finer[b] THEN {} ELSE fluxMsg[f][b]]]
  /\ posted' = [b \in Blocks |-> posted[b] \ (IF b \in L THEN {"flux"} ELSE {})]
  /\ Complete(r, "SetFluxCorrections", L)
  /\ UNCHANGED <<cons, prim, edge, opac, gsrc, dudt, force, bndMsg, sums, newDt,
                 notes>>

FluxDivergenceSourcesKept(r, L) ==
  /\ Begin(r, 5, "FluxDivergence", L)
  /\ dudt' = [b \in Blocks |-> IF b \in L
                THEN [dudt[b] EXCEPT !.flux = flux[b]] ELSE dudt[b]]
  /\ Complete(r, "FluxDivergence", L)
  /\ UNCHANGED <<cons, prim, flux, edge, opac, gsrc, force, mail, sums, newDt,
                 notes>>

FluxDivergence(r, L) ==
  /\ Begin(r, 5, "FluxDivergence", L)
  /\ dudt' = [b \in Blocks |-> IF b \in L
                THEN [flux |-> flux[b], src |-> NoSource] ELSE dudt[b]]
  /\ Complete(r, "FluxDivergence", L)
  /\ UNCHANGED <<cons, prim, flux, edge, opac, gsrc, force, mail, sums, newDt,
                 notes>>

SumData(r, L) ==
  /\ Begin(r, 5, "SumData", L)
  /\ dudt' = [b \in Blocks |-> IF b \in L
                THEN [dudt[b] EXCEPT !.src = gsrc[b]] ELSE dudt[b]]
  /\ Complete(r, "SumData", L)
  /\ UNCHANGED <<cons, prim, flux, edge, opac, gsrc, force, mail, sums, newDt,
                 notes>>

Averaged(s, base) ==
  [s EXCEPT !.by = @ \union {"averaged"}, !.net = @ \union base.net]

(* mc0 := beta mc0 + (1 - beta) base: nothing changes when mc0 is base *)
AverageIndependentData(r, L) ==
  LET c == Sc0(clk[r]) IN
  /\ Begin(r, 5, "AverageIndependentData", L)
  /\ avgd' = [b \in Blocks |-> IF b \in L THEN cons[Base][b][b] ELSE avgd[b]]
  /\ cons' = IF c = Base THEN cons
             ELSE [cons EXCEPT ![c] = [b \in Blocks |-> IF b \in L
                     THEN [cons[c][b] EXCEPT ![b] = Averaged(@, cons[Base][b][b])]
                     ELSE cons[c][b]]]
  /\ Complete(r, "AverageIndependentData", L)
  /\ UNCHANGED <<prim, rates, force, mail, sums, newDt, used>>

(* mc1 := mc0 + beta dt dUdt; ghost zones of the result mean nothing *)
UpdateIndependentData(r, L) ==
  LET k == clk[r]  old(b) == cons[Sc0(k)][b][b]
      new(b) == [lvl |-> k, mag |-> k, by |-> {}, net |-> old(b).net] IN
  /\ Begin(r, 5, "UpdateIndependentData", L)
  /\ cons' = [cons EXCEPT ![Sc1(k)] = [b \in Blocks |-> IF b \in L
                THEN [z \in Zone |-> IF z = b THEN new(b) ELSE Blank]
                ELSE cons[Sc1(k)][b]]]
  /\ used' = [b \in Blocks |-> IF b \in L
                THEN [lvl |-> k, old |-> old(b), base |-> avgd[b], rhs |-> dudt[b]]
                ELSE used[b]]
  /\ Complete(r, "UpdateIndependentData", L)
  /\ UNCHANGED <<prim, rates, force, mail, sums, newDt, avgd>>

----------------------------------------------------------------------------
(* Handlers of the primitive state, used per partition and per block       *)

(* A handler other than the floors may leave values below the floors *)
Worked(s, h) == [s EXCEPT !.by = (IF h = "floors" THEN @ ELSE @ \ {"floors"})
                                 \union {h}]

(* FillDerived: con2prim of every cell of the lists' blocks *)
DoFillDerived(L, c) ==
  /\ prim' = [b \in Blocks |-> IF b \in L
                THEN [z \in Zone |-> Worked(cons[c][b][z], "c2p")] ELSE prim[b]]
  /\ UNCHANGED cons

(* A fixup changes primitives of some interior cells, then prim2con on them *)
DoFixup(L, c, h) ==
  LET new(b) == Worked(prim[b][b], h) IN
  /\ prim' = [b \in Blocks |-> IF b \in L
                THEN [prim[b] EXCEPT ![b] = new(b)] ELSE prim[b]]
  /\ cons' = [cons EXCEPT ![c] = [b \in Blocks |-> IF b \in L
                THEN [cons[c][b] EXCEPT ![b] = new(b)] ELSE cons[c][b]]]

(* ApplyFloors does so on ghost zones too *)
DoFloors(L, c) ==
  LET new(b) == [z \in Zone |-> Worked(prim[b][z], "floors")] IN
  /\ prim' = [b \in Blocks |-> IF b \in L THEN new(b) ELSE prim[b]]
  /\ cons' = [cons EXCEPT ![c] =
                [b \in Blocks |-> IF b \in L THEN new(b) ELSE cons[c][b]]]

Handle(r, g, t, L, step) ==
  /\ Begin(r, g, t, L)
  /\ step
  /\ Complete(r, t, L)
  /\ UNCHANGED <<rates, force, mail, sums, newDt, notes>>

(* sync_region_fixup.  Packages register con2prim per block; the call on a *)
(* partition's MeshData is taken to reach it.                              *)
FillDerivedMesh(r, L) ==
  Handle(r, 6, "FillDerivedMesh", L, DoFillDerived(L, Sc1(clk[r])))
C2PFixupMesh(r, L) ==
  Handle(r, 6, "C2PFixupMesh", L, DoFixup(L, Sc1(clk[r]), "fixup"))
RadC2PFixupMesh(r, L) ==
  Handle(r, 6, "RadC2PFixupMesh", L, DoFixup(L, Sc1(clk[r]), "radfixup"))
ApplyFloorsMesh(r, L) ==
  Handle(r, 6, "ApplyFloorsMesh", L, DoFloors(L, Sc1(clk[r])))
MomentFluidSource(r, L) ==
  Handle(r, 6, "MomentFluidSource", L, DoFixup(L, Sc1(clk[r]), "source"))
ApplyFloorsAgain(r, L) ==
  Handle(r, 6, "ApplyFloorsAgain", L, DoFloors(L, Sc1(clk[r])))

(* async_region_3, the same handlers once the ghost zones are set *)
FillDerived(r, b) ==
  Handle(r, 8, "FillDerived", {b}, DoFillDerived({b}, Sc1(clk[r])))
C2PFixup(r, b) ==
  Handle(r, 8, "C2PFixup", {b}, DoFixup({b}, Sc1(clk[r]), "fixup"))
RadC2PFixup(r, b) ==
  Handle(r, 8, "RadC2PFixup", {b}, DoFixup({b}, Sc1(clk[r]), "radfixup"))
ApplyFloors(r, b) ==
  Handle(r, 8, "ApplyFloors", {b}, DoFloors({b}, Sc1(clk[r])))

----------------------------------------------------------------------------
(* sync_region_4: AddBoundaryExchangeTasks on the stage's container        *)

(* A ghost-zone buffer is reused only once the receiver has emptied it.    *)
(* bc_vars = primitive flags the primitives FillGhost too.                 *)
SendBoundBufs(r, L) ==
  LET c == Sc1(clk[r])  out(b, n) == b \in L /\ n \in Neighbors[b] IN
  /\ Begin(r, 7, "SendBoundBufs", L)
  /\ \A b, n \in Blocks : out(b, n) => bndMsg[b][n] = {}
  /\ bndMsg' = [b \in Blocks |-> [n \in Blocks |->
                  IF out(b, n) THEN {[cons |-> cons[c][b][b], prim |-> prim[b][b]]}
                  ELSE bndMsg[b][n]]]
  /\ Complete(r, "SendBoundBufs", L)
  /\ UNCHANGED <<cons, prim, rates, force, posted, fluxMsg, sums, newDt, notes>>

ReceiveBoundBufsPosted(r, L) ==
  /\ Begin(r, 7, "ReceiveBoundBufs", L)
  /\ \A b \in L : "bound" \in posted[b]
  /\ Complete(r, "ReceiveBoundBufs", L)
  /\ UNCHANGED <<cons, prim, rates, force, mail, sums, newDt, notes>>

ReceiveBoundBufs(r, L) ==
  /\ Begin(r, 7, "ReceiveBoundBufs", L)
  /\ \A b \in L : /\ "bound" \in posted[b]
                  /\ \A n \in Blocks : b \in Neighbors[n] => bndMsg[n][b] # {}
  /\ Complete(r, "ReceiveBoundBufs", L)
  /\ UNCHANGED <<cons, prim, rates, force, mail, sums, newDt, notes>>

SetBoundsOldContainer(r, L) ==
  LET c == Sc0(clk[r])
      got(b, n) == CHOOSE m \in bndMsg[n][b] : TRUE IN
  /\ Begin(r, 7, "SetBounds", L)
  /\ cons' = [cons EXCEPT ![c] = [b \in Blocks |-> IF b \in L
                THEN [z \in Zone |->
                        IF z \in Blocks /\ bndMsg[z][b] # {}
                        THEN got(b, z).cons ELSE cons[c][b][z]]
                ELSE cons[c][b]]]
  /\ bndMsg' = [n \in Blocks |-> [b \in Blocks |->
                  IF b \in L THEN {} ELSE bndMsg[n][b]]]
  /\ Complete(r, "SetBounds", L)
  /\ UNCHANGED <<prim, rates, force, posted, fluxMsg, sums, newDt, notes>>

SetBoundsBufferKept(r, L) ==
  LET c == Sc1(clk[r])
      got(b, n) == CHOOSE m \in bndMsg[n][b] : TRUE IN
  /\ Begin(r, 7, "SetBounds", L)
  /\ cons' = [cons EXCEPT ![c] = [b \in Blocks |-> IF b \in L
                THEN [z \in Zone |->
                        IF z \in Blocks /\ bndMsg[z][b] # {}
                        THEN got(b, z).cons ELSE cons[c][b][z]]
                ELSE cons[c][b]]]
  /\ posted' = [b \in Blocks |-> posted[b] \ (IF b \in L THEN {"bound"} ELSE {})]
  /\ Complete(r, "SetBounds", L)
  /\ UNCHANGED <<prim, rates, force, fluxMsg, bndMsg, sums, newDt, notes>>

SetBounds(r, L) ==
  LET c == Sc1(clk[r])
      sent(b, n) == n \in Blocks /\ bndMsg[n][b] # {}
      got(b, n) == CHOOSE m \in bndMsg[n][b] : TRUE IN
  /\ Begin(r, 7, "SetBounds", L)
  /\ cons' = [cons EXCEPT ![c] = [b \in Blocks |-> IF b \in L
                THEN [z \in Zone |-> IF sent(b, z) THEN got(b, z).cons
                                    ELSE cons[c][b][z]]
                ELSE cons[c][b]]]
  /\ prim' = IF BcPrimitive
             THEN [b \in Blocks |-> IF b \in L
                     THEN [z \in Zone |-> IF sent(b, z) THEN got(b, z).prim
                                         ELSE prim[b][z]]
                     ELSE prim[b]]
             ELSE prim
  /\ bndMsg' = [n \in Blocks |-> [b \in Blocks |->
                  IF b \in L THEN {} ELSE bndMsg[n][b]]]
  /\ posted' = [b \in Blocks |-> posted[b] \ (IF b \in L THEN {"bound"} ELSE {})]
  /\ Complete(r, "SetBounds", L)
  /\ UNCHANGED <<rates, force, fluxMsg, sums, newDt, notes>>

----------------------------------------------------------------------------
(* async_region_3: physical boundaries, time step                          *)

(* GenericBC fills the zones from the interior, in the variables bc_vars *)
ApplyBC(r, b) ==
  LET c == Sc1(clk[r]) IN
  Handle(r, 8, "ApplyBC", {b},
    IF BcPrimitive
    THEN /\ prim' = [prim EXCEPT ![b][Phys] = prim[b][b]]
         /\ UNCHANGED cons
    ELSE /\ cons' = [cons EXCEPT ![c][b][Phys] = cons[c][b][b]]
         /\ UNCHANGED prim)

ConvertBC(r, b) ==
  Handle(r, 8, "ConvertBC", {b},
    /\ cons' = IF BcPrimitive
               THEN [cons EXCEPT ![Sc1(clk[r])][b][Phys] = prim[b][Phys]]
               ELSE cons
    /\ UNCHANGED prim)

EstimateTimestep(r, b) ==
  /\ Begin(r, 8, "EstimateTimestep", {b})
  /\ newDt' = [newDt EXCEPT ![b] = prim[b][b]]
  /\ Complete(r, "EstimateTimestep", {b})
  /\ UNCHANGED <<cons, prim, rates, force, mail, sums, notes>>

----------------------------------------------------------------------------
(* RadiationPostStep with the cooling function, on the base container      *)

CalculateFourForce(r, L) ==
  /\ Begin(r, 9, "CalculateFourForce", L)
  /\ force' = [b \in Blocks |-> IF b \in L THEN prim[b][b] ELSE force[b]]
  /\ Complete(r, "CalculateFourForce", L)
  /\ UNCHANGED <<cons, prim, rates, mail, sums, newDt, notes>>

Cooled(s) == [s EXCEPT !.by = @ \union {"cooling"}]

ApplyRadiationFourForceToStage(r, L) ==
  LET c == IF NStages = 1 THEN Base ELSE 1 IN
  Handle(r, 9, "ApplyRadiationFourForce", L,
    /\ cons' = [cons EXCEPT ![c] = [b \in Blocks |-> IF b \in L
                  THEN [cons[c][b] EXCEPT ![b] = Cooled(@)]
                  ELSE cons[c][b]]]
    /\ UNCHANGED prim)

ApplyRadiationFourForce(r, L) ==
  Handle(r, 9, "ApplyRadiationFourForce", L,
    /\ cons' = [cons EXCEPT ![Base] = [b \in Blocks |-> IF b \in L
                  THEN [cons[Base][b] EXCEPT ![b] = Cooled(@)]
                  ELSE cons[Base][b]]]
    /\ UNCHANGED prim)

----------------------------------------------------------------------------
(* TaskCollection::Execute, the stage loop of Step, and the main loop      *)

RegionComplete(r) ==
  \A t \in TasksOf(at[r], clk[r]), L \in Lists(r, at[r]) : <<t, L>> \in done[r]

NextRegionNoLastStage(r) ==
  LET newStage == at[r] = 9 IN
  /\ at[r] < StepEnd
  /\ RegionComplete(r)
  /\ done' = [done EXCEPT ![r] = {}]
  /\ at' = [at EXCEPT ![r] = IF newStage THEN 1 ELSE @ + 1]
  /\ clk' = [clk EXCEPT ![r] = IF newStage THEN @ + 1 ELSE @]
  /\ sums' = [sums EXCEPT ![r] = IF newStage THEN {} ELSE @]
  /\ UNCHANGED <<cons, prim, rates, force, mail, newDt, notes>>

(* Regions run one after the other; a stage starts with cleared sums *)
NextRegion(r) ==
  LET newStage == at[r] = 9 /\ StageOf(clk[r]) < NStages IN
  /\ at[r] < StepEnd
  /\ RegionComplete(r)
  /\ done' = [done EXCEPT ![r] = {}]
  /\ at' = [at EXCEPT ![r] = IF newStage THEN 1 ELSE @ + 1]
  /\ clk' = [clk EXCEPT ![r] = IF newStage THEN @ + 1 ELSE @]
  /\ sums' = [sums EXCEPT ![r] = IF newStage THEN {} ELSE @]
  /\ UNCHANGED <<cons, prim, rates, force, mail, newDt, notes>>

(* The driver's global reduction of the blocks' time steps *)
SetGlobalTimeStep ==
  /\ \A r \in Ranks : at[r] = StepEnd /\ clk[r] < LastLevel
  /\ at' = [r \in Ranks |-> 1]
  /\ clk' = [r \in Ranks |-> clk[r] + 1]
  /\ done' = [r \in Ranks |-> {}]
  /\ sums' = [r \in Ranks |-> {}]
  /\ UNCHANGED <<cons, prim, rates, force, mail, newDt, notes>>

Finish ==
  /\ \A r \in Ranks : at[r] = StepEnd /\ clk[r] = LastLevel
  /\ UNCHANGED vars

Initial == [lvl |-> 0, mag |-> 0, by |-> Handlers, net |-> {}]

(* After initialization; stage containers are allocated, not filled *)
Init ==
  /\ clk = [r \in Ranks |-> 1]
  /\ at = [r \in Ranks |-> 1]
  /\ done = [r \in Ranks |-> {}]
  /\ cons = [c \in Containers |-> [b \in Blocks |-> [z \in Zone |->
               IF c = Base /\ z \in ZonesOf(b) THEN Initial ELSE Blank]]]
  /\ prim = [b \in Blocks |-> [z \in Zone |->
               IF z \in ZonesOf(b) THEN Initial ELSE Blank]]
  /\ flux = [b \in Blocks |-> NoFlux]
  /\ edge = [b \in Blocks |-> {}]
  /\ opac = [b \in Blocks |-> {}]
  /\ gsrc = [b \in Blocks |-> NoSource]
  /\ dudt = [b \in Blocks |-> [flux |-> NoFlux, src |-> NoSource]]
  /\ force = [b \in Blocks |-> Blank]
  /\ posted = [b \in Blocks |-> {}]
  /\ fluxMsg = [f \in Blocks |-> [b \in Blocks |-> {}]]
  /\ bndMsg = [b \in Blocks |-> [n \in Blocks |-> {}]]
  /\ sums = [r \in Ranks |-> {}]
  /\ newDt = [b \in Blocks |-> Blank]
  /\ avgd = [b \in Blocks |-> Blank]
  /\ used = [b \in Blocks |-> NoUpdate]

PartitionTask(r, L) ==
  \/ StartReceiveBoundBufs(r, L) \/ StartReceiveFluxCorrections(r, L)
  \/ CalculateFluidSourceTerms(r, L)
  \/ SumMdotPhi(r, L) \/ ModifyNetField(r, L)
  \/ LoadAndSendFluxCorrections(r, L) \/ ReceiveFluxCorrections(r, L)
  \/ SetFluxCorrections(r, L) \/ FluxDivergence(r, L) \/ SumData(r, L)
  \/ AverageIndependentData(r, L) \/ UpdateIndependentData(r, L)
  \/ FillDerivedMesh(r, L) \/ C2PFixupMesh(r, L) \/ RadC2PFixupMesh(r, L)
  \/ ApplyFloorsMesh(r, L) \/ MomentFluidSource(r, L) \/ ApplyFloorsAgain(r, L)
  \/ SendBoundBufs(r, L) \/ ReceiveBoundBufs(r, L) \/ SetBounds(r, L)
  \/ CalculateFourForce(r, L) \/ ApplyRadiationFourForce(r, L)

BlockTask(r, b) ==
  \/ CalculateFluxes(r, b) \/ FluxCT(r, b) \/ FixFluxes(r, b)
  \/ ReconstructEdgeStates(r, b) \/ MomentCalculateOpacities(r, b)
  \/ MomentCalculateFluxes(r, b) \/ CalculateGeometricSource(r, b)
  \/ PrimitiveToConserved(r, b)
  \/ ApplyBC(r, b) \/ ConvertBC(r, b) \/ FillDerived(r, b) \/ C2PFixup(r, b)
  \/ RadC2PFixup(r, b) \/ ApplyFloors(r, b) \/ EstimateTimestep(r, b)

RankStep(r) ==
  \/ \E L \in Partitions : PartitionTask(r, L)
  \/ \E b \in Blocks : BlockTask(r, b)
  \/ NextRegion(r)

Next == (\E r \in Ranks : RankStep(r)) \/ SetGlobalTimeStep \/ Finish

(* Every rank keeps polling its task lists, and the reduction completes *)
Fairness ==
  /\ \A r \in Ranks : WF_vars(RankStep(r))
  /\ WF_vars(SetGlobalTimeStep)

Spec == Init /\ [][Next]_vars /\ Fairness

----------------------------------------------------------------------------
(* Properties                                                              *)

AllTasks == UNION {TasksOf(g, k) : g \in 1 .. 9, k \in 1 .. LastLevel}

FluxStamp == [lvl : 0 .. LastLevel, by : SUBSET AnyFluxOp]
FluxType == [lvl : 0 .. LastLevel, from : SUBSET Stamp, by : SUBSET AnyFluxOp,
             corr : SUBSET (Blocks \X FluxStamp)]
SourceType == [fluid : Stamp, moment : Stamp]
RhsType == [flux : FluxType, src : SourceType]
UpdateType == [lvl : 0 .. LastLevel, old : Stamp, base : Stamp, rhs : RhsType]
PrimType == [Blocks -> [Zone -> Stamp]]
ConsType == [Containers -> [Blocks -> [Zone -> Stamp]]]
PostedType == [Blocks -> SUBSET {"bound", "flux"}]
FluxMailType == [Blocks -> [Blocks -> SUBSET FluxStamp]]
BoundMailType == [Blocks -> [Blocks -> SUBSET [cons : Stamp, prim : Stamp]]]

(* Every rank is at a region of a level of the run, every container holds  *)
(* stamps, and what is under way is what the tasks post and send.          *)
TypeOK ==
  /\ clk \in [Ranks -> 1 .. LastLevel]
  /\ at \in [Ranks -> 1 .. StepEnd]
  /\ done \in [Ranks -> SUBSET (AllTasks \X SUBSET Blocks)]
  /\ cons \in ConsType
  /\ prim \in PrimType
  /\ flux \in [Blocks -> FluxType]
  /\ edge \in [Blocks -> SUBSET Stamp]
  /\ opac \in [Blocks -> SUBSET Stamp]
  /\ gsrc \in [Blocks -> SourceType]
  /\ dudt \in [Blocks -> RhsType]
  /\ force \in [Blocks -> Stamp]
  /\ posted \in PostedType
  /\ fluxMsg \in FluxMailType
  /\ bndMsg \in BoundMailType
  /\ sums \in [Ranks -> SUBSET Stamp]
  /\ newDt \in [Blocks -> Stamp]
  /\ avgd \in [Blocks -> Stamp]
  /\ used \in [Blocks -> UpdateType]

(* All fluxes of a stage, hydrodynamic and radiative, interior and ghost   *)
(* zones, edge states and opacities, come from one state: the complete     *)
(* result of the stage before, although primitives, edge states and        *)
(* opacities are single copies that later tasks overwrite.                 *)
FluxesFromOneState ==
  \A b \in Blocks : flux[b].by # {} =>
    \A s \in flux[b].from : Finished(s, flux[b].lvl - 1)

(* An update combines what the low-storage scheme asks for: the averaged   *)
(* result of the previous stage, and a base state that is the complete     *)
(* result of the last step, which no task of the stages in between, in     *)
(* this list or another, has overwritten.                                  *)
LowStorageCombination ==
  \A b \in Blocks : LET u == used[b] IN u.lvl > 0 =>
    /\ u.old.lvl = u.lvl - 1 /\ Handlers \subseteq u.old.by
    /\ StageOf(u.lvl) > 1 => "averaged" \in u.old.by
    /\ u.base.lvl = StepStart(u.lvl) /\ u.base.mag = u.base.lvl
    /\ Handlers \subseteq u.base.by

(* Conservation across refinement levels: the divergence a block is        *)
(* updated with has complete fluxes of this stage, and on a face shared    *)
(* with a finer block the finer block's complete fluxes of the same stage. *)
CorrectedFluxes ==
  \A b \in Blocks : LET u == used[b] IN u.lvl > 0 =>
    /\ u.rhs.flux.lvl = u.lvl
    /\ u.rhs.flux.by = FluxOps
    /\ u.rhs.flux.corr = {<<f, [lvl |-> u.lvl, by |-> FluxOps]>> : f \in Finer[b]}

(* Once a stage is over, the primitives of a block's interior and of every *)
(* ghost zone are the complete result of that stage.                       *)
GhostZonesCurrent ==
  \A b \in Blocks : at[RankOf[b]] \in {9, 10} =>
    \A z \in ZonesOf(b) : Finished(prim[b][z], clk[RankOf[b]])

(* The time step of the next step is estimated from the state the next     *)
(* step starts from, floors applied.                                       *)
TimeStepFromFinal ==
  \A b \in Blocks : LET r == RankOf[b] IN
    (at[r] >= 9 /\ StageOf(clk[r]) = NStages) => Finished(newDt[b], clk[r])

(* Cooling is split from the stages: the state a step starts from, and     *)
(* which its last stage averages in, contains the previous step's cooling. *)
SplitSourceKept ==
  CoolingFunction => \A b \in Blocks :
    (used[b].lvl > 0 /\ StepStart(used[b].lvl) > 0) => "cooling" \in used[b].base.by

(* Without any barrier inside a step, the exchange of ghost zones keeps    *)
(* ranks with neighbouring blocks within one stage of each other.          *)
NoStageOverrun ==
  \A b \in Blocks : \A n \in Neighbors[b] :
    /\ clk[RankOf[b]] - clk[RankOf[n]] \in -1 .. 1
    /\ clk[RankOf[b]] > clk[RankOf[n]] => at[RankOf[n]] >= 7

(* "Evaluate current Mdot, Phi": from the second step on, Phi is measured  *)
(* on the magnetic field the step starts from, before any update of the    *)
(* net field, as Mdot is.  (In the first step of a run the containers of   *)
(* the stages have only been allocated.)                                   *)
CurrentPhi ==
  \A r \in Ranks : clk[r] > NStages => \A s \in sums[r] :
    s.lvl = clk[r] - 1 /\ s.mag = s.lvl /\ clk[r] \notin s.net

(* The right-hand side holds geometric sources of this stage or, as no     *)
(* task makes the update wait for SumData, none yet: never those of an     *)
(* earlier stage, left behind in the container all stages share.           *)
NoStaleSources ==
  \A b \in Blocks : LET u == used[b] IN
    u.lvl > 0 /\ u.rhs.src # NoSource =>
      /\ Finished(u.rhs.src.fluid, u.lvl - 1)
      /\ MomentsActive => Finished(u.rhs.src.moment, u.lvl - 1)

(* Exchanges inside a stage never wait for each other in a circle: every   *)
(* rank completes every step.                                              *)
RunCompletes == <>(\A r \in Ranks : at[r] = StepEnd /\ clk[r] = LastLevel)

=============================================================================
