--------------------------- MODULE RKStageFluxes ---------------------------
(* Type correctness of RKStage and conservation across refinement levels,  *)
(* for every mesh, integrator and choice of options: what an update is     *)
(* made of are complete fluxes of its own stage, corrected with complete   *)
(* fluxes of the same stage from every finer neighbour.                    *)
EXTENDS RKStage, TLAPS

(* Time for the provers on a machine with other work to do *)
USE SMTT(20), ZenonT(40)

(* Arithmetic of levels: the stage of a level, and where the run ends.     *)
LEMMA ModUnique ==
  ASSUME NEW n \in Nat \ {0}, NEW q \in Int, NEW m \in 0 .. n - 1
  PROVE  (q * n + m) % n = m
OBVIOUS

LEMMA LevelType == LastLevel \in Nat \ {0}
BY StagesAssumption DEF LastLevel

LEMMA StageType ==
  ASSUME NEW k \in Int
  PROVE  /\ StageOf(k) \in 1 .. NStages
         /\ Sc0(k) \in Containers
         /\ Sc1(k) \in Containers
<1>1. (k - 1) % NStages \in 0 .. NStages - 1
  BY StagesAssumption
<1>2. StageOf(k) \in 1 .. NStages /\ Sc0(k) \in Containers
  BY <1>1, StagesAssumption DEF StageOf, Sc0, Containers
<1>3. Sc1(k) \in Containers
  BY <1>2, StagesAssumption DEF Sc1, Containers
<1> QED BY <1>2, <1>3

(* A stage that is not its step's last is not the run's last either.       *)
LEMMA NextLevel ==
  ASSUME NEW k \in 1 .. LastLevel, StageOf(k) < NStages
  PROVE  k + 1 \in 1 .. LastLevel
<1>1. CASE k = LastLevel
  <2>1. k - 1 = (NSteps - 1) * NStages + (NStages - 1)
    BY <1>1, StagesAssumption DEF LastLevel
  <2>2. (k - 1) % NStages = NStages - 1
    BY <2>1, ModUnique, StagesAssumption
  <2> QED BY <2>2, StagesAssumption DEF StageOf
<1>2. CASE k # LastLevel
  BY <1>2, LevelType
<1> QED BY <1>1, <1>2

(* Stamps and what the handlers make of them.                              *)
LEMMA StampTypes ==
  /\ Blank \in Stamp /\ Initial \in Stamp
  /\ NoSource \in SourceType
  /\ NoFlux \in FluxType
BY LevelType DEF Blank, Initial, Stamp, Handlers, AnyHandler, NoSource,
   SourceType, NoFlux, FluxType

LEMMA WorkedType ==
  ASSUME NEW s \in Stamp, NEW h \in AnyHandler
  PROVE  Worked(s, h) \in Stamp
BY DEF Worked, Stamp

LEMMA RewriteType ==
  ASSUME NEW f \in FluxType, NEW k \in 1 .. LastLevel, NEW op \in AnyFluxOp,
         NEW read \in SUBSET Stamp
  PROVE  Rewrite(f, k, op, read) \in FluxType
BY LevelType DEF Rewrite, FluxType

(* Changing one field of a record keeps its type.                          *)
LEMMA SourceFieldTypes ==
  ASSUME NEW s \in SourceType, NEW x \in Stamp
  PROVE  /\ [s EXCEPT !.fluid = x] \in SourceType
         /\ [s EXCEPT !.moment = x] \in SourceType
BY DEF SourceType

LEMMA StampFieldTypes ==
  ASSUME NEW s \in Stamp
  PROVE  /\ Cooled(s) \in Stamp
         /\ \A x \in Stamp : Averaged(s, x) \in Stamp
         /\ \A x \in Stamp, k \in 1 .. LastLevel : NetFieldAdded(s, x, k) \in Stamp
BY DEF Stamp, NetFieldAdded, Averaged, Cooled, AnyHandler

LEMMA FluxFieldTypes ==
  ASSUME NEW f \in FluxType
  PROVE  /\ \A op \in AnyFluxOp : [f EXCEPT !.by = @ \union {op}] \in FluxType
         /\ \A c \in SUBSET (Blocks \X FluxStamp) :
              [f EXCEPT !.corr = c] \in FluxType
         /\ [lvl |-> f.lvl, by |-> f.by] \in FluxStamp
BY DEF FluxType, FluxStamp

LEMMA RhsFieldTypes ==
  ASSUME NEW d \in RhsType, NEW f \in FluxType, NEW s \in SourceType
  PROVE  /\ [d EXCEPT !.src = s] \in RhsType
         /\ [flux |-> f, src |-> s] \in RhsType
BY DEF RhsType

(* Completing a task leaves the control state well typed.                  *)
LEMMA TaskType ==
  ASSUME TypeOK, NEW r \in Ranks, NEW g \in 1 .. 9, NEW t,
         NEW L \in SUBSET Blocks, Begin(r, g, t, L), Complete(r, t, L)
  PROVE  /\ done' \in [Ranks -> SUBSET (AllTasks \X SUBSET Blocks)]
         /\ clk' = clk /\ at' = at
<1>1. t \in AllTasks
  BY DEF Begin, AllTasks, TypeOK
<1> QED BY <1>1 DEF Complete, TypeOK

(* Changing the interiors of some blocks, all zones of some blocks, or the *)
(* blocks of one container, keeps the type of the primitive variables and  *)
(* of the containers.                                                      *)
LEMMA InteriorType ==
  ASSUME NEW p \in PrimType, NEW q, q = [b \in Blocks |-> q[b]],
         \A b \in Blocks : q[b] # p[b] =>
           \E x \in Stamp : q[b] = [p[b] EXCEPT ![b] = x]
  PROVE  q \in PrimType
BY DEF PrimType

LEMMA ContainerType ==
  ASSUME NEW s \in ConsType, NEW c \in Containers, NEW q \in PrimType
  PROVE  [s EXCEPT ![c] = q] \in ConsType
BY DEF ConsType, PrimType

(* One lemma for each group of tasks: posting receives and sources ...     *)
LEMMA PostTasksType ==
  ASSUME TypeOK, NEW r \in Ranks, NEW L \in SUBSET Blocks
  PROVE  /\ StartReceiveBoundBufs(r, L) => TypeOK'
         /\ StartReceiveFluxCorrections(r, L) => TypeOK'
         /\ CalculateFluidSourceTerms(r, L) => TypeOK'
<1>p. \A b \in Blocks : prim[b][b] \in Stamp
  BY DEF TypeOK, PrimType, Zone
<1>1. ASSUME StartReceiveBoundBufs(r, L) PROVE TypeOK'
  <2>1. /\ done' \in [Ranks -> SUBSET (AllTasks \X SUBSET Blocks)]
        /\ clk' = clk /\ at' = at
    BY <1>1, TaskType DEF StartReceiveBoundBufs
  <2>2. posted' \in PostedType
    BY <1>1 DEF StartReceiveBoundBufs, TypeOK, PostedType
  <2> QED
    BY <1>1, <2>1, <2>2 DEF StartReceiveBoundBufs, TypeOK, rates, mail, notes
<1>2. ASSUME StartReceiveFluxCorrections(r, L) PROVE TypeOK'
  <2>1. /\ done' \in [Ranks -> SUBSET (AllTasks \X SUBSET Blocks)]
        /\ clk' = clk /\ at' = at
    BY <1>2, TaskType DEF StartReceiveFluxCorrections
  <2>2. posted' \in PostedType
    BY <1>2 DEF StartReceiveFluxCorrections, TypeOK, PostedType
  <2> QED
    BY <1>2, <2>1, <2>2 DEF StartReceiveFluxCorrections, TypeOK, rates, mail, notes
<1>3. ASSUME CalculateFluidSourceTerms(r, L) PROVE TypeOK'
  <2>1. /\ done' \in [Ranks -> SUBSET (AllTasks \X SUBSET Blocks)]
        /\ clk' = clk /\ at' = at
    BY <1>3, TaskType DEF CalculateFluidSourceTerms
  <2>2. gsrc' \in [Blocks -> SourceType]
    BY <1>3, <1>p, SourceFieldTypes DEF CalculateFluidSourceTerms, TypeOK
  <2> QED
    BY <1>3, <2>1, <2>2 DEF CalculateFluidSourceTerms, TypeOK, rates, mail, notes
<1> QED BY <1>1, <1>2, <1>3

(* ... fluxes and moment sources ...                                       *)
LEMMA FluxTasksType ==
  ASSUME TypeOK, NEW r \in Ranks, NEW b \in Blocks
  PROVE  /\ CalculateFluxes(r, b) => TypeOK'
         /\ FluxCT(r, b) => TypeOK'
         /\ ReconstructEdgeStates(r, b) => TypeOK'
         /\ MomentCalculateOpacities(r, b) => TypeOK'
         /\ MomentCalculateFluxes(r, b) => TypeOK'
         /\ CalculateGeometricSource(r, b) => TypeOK'
         /\ FixFluxes(r, b) => TypeOK'
<1> DEFINE read == {prim[b][z] : z \in ZonesOf(b)}
<1>r. read \in SUBSET Stamp /\ prim[b][b] \in Stamp /\ clk[r] \in 1 .. LastLevel
  BY MeshAssumption DEF ZonesOf, Zone, TypeOK, PrimType
<1>1. ASSUME CalculateFluxes(r, b) PROVE TypeOK'
  <2>1. /\ done' \in [Ranks -> SUBSET (AllTasks \X SUBSET Blocks)]
        /\ clk' = clk /\ at' = at
    BY <1>1, TaskType DEF CalculateFluxes
  <2>2. flux' \in [Blocks -> FluxType]
    BY <1>1, <1>r, RewriteType DEF CalculateFluxes, TypeOK, AnyFluxOp
  <2> QED
    BY <1>1, <2>1, <2>2 DEF CalculateFluxes, TypeOK, rates, mail, notes
<1>2. ASSUME FluxCT(r, b) PROVE TypeOK'
  <2>1. /\ done' \in [Ranks -> SUBSET (AllTasks \X SUBSET Blocks)]
        /\ clk' = clk /\ at' = at
    BY <1>2, TaskType DEF FluxCT
  <2>2. flux' \in [Blocks -> FluxType]
    BY <1>2, <1>r, RewriteType DEF FluxCT, TypeOK, AnyFluxOp
  <2> QED
    BY <1>2, <2>1, <2>2 DEF FluxCT, TypeOK, rates, mail, notes
<1>3. ASSUME ReconstructEdgeStates(r, b) PROVE TypeOK'
  <2>1. /\ done' \in [Ranks -> SUBSET (AllTasks \X SUBSET Blocks)]
        /\ clk' = clk /\ at' = at
    BY <1>3, TaskType DEF ReconstructEdgeStates
  <2>2. edge' \in [Blocks -> SUBSET Stamp]
    BY <1>3, <1>r DEF ReconstructEdgeStates, TypeOK
  <2> QED
    BY <1>3, <2>1, <2>2 DEF ReconstructEdgeStates, TypeOK, rates, mail, notes
<1>4. ASSUME MomentCalculateOpacities(r, b) PROVE TypeOK'
  <2>1. /\ done' \in [Ranks -> SUBSET (AllTasks \X SUBSET Blocks)]
        /\ clk' = clk /\ at' = at
    BY <1>4, TaskType DEF MomentCalculateOpacities
  <2>2. opac' \in [Blocks -> SUBSET Stamp]
    BY <1>4, <1>r DEF MomentCalculateOpacities, TypeOK
  <2> QED
    BY <1>4, <2>1, <2>2 DEF MomentCalculateOpacities, TypeOK, rates, mail, notes
<1>5. ASSUME MomentCalculateFluxes(r, b) PROVE TypeOK'
  <2>1. /\ done' \in [Ranks -> SUBSET (AllTasks \X SUBSET Blocks)]
        /\ clk' = clk /\ at' = at
    BY <1>5, TaskType DEF MomentCalculateFluxes
  <2>2. edge[b] \union opac[b] \in SUBSET Stamp
    BY DEF TypeOK
  <2>3. flux' \in [Blocks -> FluxType]
    BY <1>5, <1>r, <2>2, RewriteType DEF MomentCalculateFluxes, TypeOK, AnyFluxOp
  <2> QED
    BY <1>5, <2>1, <2>2, <2>3 DEF MomentCalculateFluxes, TypeOK, rates, mail, notes
<1>6. ASSUME CalculateGeometricSource(r, b) PROVE TypeOK'
  <2>1. /\ done' \in [Ranks -> SUBSET (AllTasks \X SUBSET Blocks)]
        /\ clk' = clk /\ at' = at
    BY <1>6, TaskType DEF CalculateGeometricSource
  <2>2. gsrc' \in [Blocks -> SourceType]
    BY <1>6, <1>r, SourceFieldTypes DEF CalculateGeometricSource, TypeOK
  <2> QED
    BY <1>6, <2>1, <2>2 DEF CalculateGeometricSource, TypeOK, rates, mail, notes
<1>7. ASSUME FixFluxes(r, b) PROVE TypeOK'
  <2>1. /\ done' \in [Ranks -> SUBSET (AllTasks \X SUBSET Blocks)]
        /\ clk' = clk /\ at' = at
    BY <1>7, TaskType DEF FixFluxes
  <2>2. [flux[b] EXCEPT !.by = @ \union {"fix"}] \in FluxType
    BY <1>7, FluxFieldTypes DEF TypeOK, AnyFluxOp
  <2>3. flux' \in [Blocks -> FluxType]
    BY <1>7, <2>2 DEF FixFluxes, TypeOK
  <2> QED
    BY <1>7, <2>1, <2>2, <2>3 DEF FixFluxes, TypeOK, rates, mail, notes
<1> QED BY <1>1, <1>2, <1>3, <1>4, <1>5, <1>6, <1>7

(* ... the net magnetic field ...                                          *)
LEMMA NetFieldTasksType ==
  ASSUME TypeOK, NEW r \in Ranks, NEW L \in SUBSET Blocks
  PROVE  /\ SumMdotPhi(r, L) => TypeOK'
         /\ ModifyNetField(r, L) => TypeOK'
<1>c. Sc1(clk[r]) \in Containers /\ clk[r] \in 1 .. LastLevel
  BY StageType DEF TypeOK
<1>p. \A b \in Blocks :
        prim[b][b] \in Stamp /\ cons[Sc1(clk[r])][b][b] \in Stamp
  BY <1>c DEF TypeOK, PrimType, ConsType, Zone, Stamp
<1>1. ASSUME SumMdotPhi(r, L) PROVE TypeOK'
  <2>1. /\ done' \in [Ranks -> SUBSET (AllTasks \X SUBSET Blocks)]
        /\ clk' = clk /\ at' = at
    BY <1>1, TaskType DEF SumMdotPhi
  <2>2. sums' \in [Ranks -> SUBSET Stamp]
    BY <1>1, <1>p DEF SumMdotPhi, TypeOK
  <2> QED
    BY <1>1, <2>1, <2>2 DEF SumMdotPhi, TypeOK, rates, mail, notes
<1>2. ASSUME ModifyNetField(r, L) PROVE TypeOK'
  <2>1. /\ done' \in [Ranks -> SUBSET (AllTasks \X SUBSET Blocks)]
        /\ clk' = clk /\ at' = at
    BY <1>2, TaskType DEF ModifyNetField
  <2>2. \A b \in Blocks :
          /\ NetFieldAdded(prim[b][b], prim[b][b], clk[r]) \in Stamp
          /\ NetFieldAdded(cons[Sc1(clk[r])][b][b], prim[b][b], clk[r]) \in Stamp
    BY <1>c, <1>p, StampFieldTypes
  <2>3. prim' \in PrimType /\ cons' \in ConsType
    <3>1. CASE PhiEnforced
      <4>1. prim' = [b \in Blocks |-> IF b \in L
                       THEN [prim[b] EXCEPT ![b] = NetFieldAdded(@, @, clk[r])]
                       ELSE prim[b]]
        BY <1>2, <3>1 DEF ModifyNetField
      <4>2. prim' \in PrimType
        BY <4>1, <2>2 DEF TypeOK, PrimType
      <4> DEFINE q == [b \in Blocks |-> IF b \in L
                         THEN [cons[Sc1(clk[r])][b] EXCEPT ![b] =
                                 NetFieldAdded(@, prim[b][b], clk[r])]
                         ELSE cons[Sc1(clk[r])][b]]
      <4>c. cons[Sc1(clk[r])] \in PrimType
        BY <1>c DEF TypeOK, ConsType, PrimType
      <4>3. q \in PrimType
        BY <4>c, <2>2 DEF PrimType
      <4>4. cons' = [cons EXCEPT ![Sc1(clk[r])] = q]
        BY <1>2, <3>1 DEF ModifyNetField
      <4>5. cons' \in ConsType
        BY <1>c, <4>3, <4>4, ContainerType DEF TypeOK
      <4> QED BY <4>2, <4>5
    <3>2. CASE ~PhiEnforced
      BY <1>2, <3>2 DEF ModifyNetField, TypeOK
    <3> QED BY <3>1, <3>2
  <2> QED
    BY <1>2, <2>1, <2>3 DEF ModifyNetField, TypeOK, rates, mail, notes
<1> QED BY <1>1, <1>2

LEMMA PrimitiveToConservedType ==
  ASSUME TypeOK, NEW r \in Ranks, NEW b \in Blocks
  PROVE  PrimitiveToConserved(r, b) => TypeOK'
<1>c. Sc1(clk[r]) \in Containers /\ clk[r] \in 1 .. LastLevel
  BY StageType DEF TypeOK
<1>1. ASSUME PrimitiveToConserved(r, b) PROVE TypeOK'
  <2>1. /\ done' \in [Ranks -> SUBSET (AllTasks \X SUBSET Blocks)]
        /\ clk' = clk /\ at' = at
    BY <1>1, TaskType DEF PrimitiveToConserved
  <2>2. cons' \in ConsType
    BY <1>1, <1>c DEF PrimitiveToConserved, TypeOK, PrimType, ConsType
  <2> QED
    BY <1>1, <2>1, <2>2 DEF PrimitiveToConserved, TypeOK, rates, mail, notes
<1> QED BY <1>1

(* ... flux corrections and the update ...                                 *)
LEMMA UpdateTasksType ==
  ASSUME TypeOK, NEW r \in Ranks, NEW L \in SUBSET Blocks
  PROVE  /\ LoadAndSendFluxCorrections(r, L) => TypeOK'
         /\ ReceiveFluxCorrections(r, L) => TypeOK'
         /\ SetFluxCorrections(r, L) => TypeOK'
         /\ FluxDivergence(r, L) => TypeOK'
         /\ SumData(r, L) => TypeOK'
         /\ AverageIndependentData(r, L) => TypeOK'
         /\ UpdateIndependentData(r, L) => TypeOK'
<1>k. /\ clk[r] \in 1 .. LastLevel
      /\ Sc0(clk[r]) \in Containers /\ Sc1(clk[r]) \in Containers
      /\ Base \in Containers
  BY StageType, StagesAssumption DEF TypeOK, Base, Containers
<1>c. \A c \in Containers : cons[c] \in PrimType
  BY DEF TypeOK, ConsType, PrimType
<1>s. \A c \in Containers, b \in Blocks : cons[c][b][b] \in Stamp
  BY <1>c DEF PrimType, Zone
<1>1. ASSUME LoadAndSendFluxCorrections(r, L) PROVE TypeOK'
  <2>1. /\ done' \in [Ranks -> SUBSET (AllTasks \X SUBSET Blocks)]
        /\ clk' = clk /\ at' = at
    BY <1>1, TaskType DEF LoadAndSendFluxCorrections
  <2>2. \A f \in Blocks : [lvl |-> flux[f].lvl, by |-> flux[f].by] \in FluxStamp
    BY DEF TypeOK, FluxType, FluxStamp
  <2>3. fluxMsg' \in FluxMailType
    BY <1>1, <2>2 DEF LoadAndSendFluxCorrections, TypeOK, FluxMailType
  <2> QED
    BY <1>1, <2>1, <2>3 DEF LoadAndSendFluxCorrections, TypeOK, rates, notes
<1>2. ASSUME ReceiveFluxCorrections(r, L) PROVE TypeOK'
  <2>1. /\ done' \in [Ranks -> SUBSET (AllTasks \X SUBSET Blocks)]
        /\ clk' = clk /\ at' = at
    BY <1>2, TaskType DEF ReceiveFluxCorrections
  <2> QED
    BY <1>2, <2>1 DEF ReceiveFluxCorrections, TypeOK, rates, mail, notes
<1>3. ASSUME SetFluxCorrections(r, L) PROVE TypeOK'
  <2>1. /\ done' \in [Ranks -> SUBSET (AllTasks \X SUBSET Blocks)]
        /\ clk' = clk /\ at' = at
    BY <1>3, TaskType DEF SetFluxCorrections
  <2> DEFINE got(b) == UNION {{<<f, m>> : m \in fluxMsg[f][b]} : f \in Finer[b]}
  <2>2. \A b \in Blocks : got(b) \in SUBSET (Blocks \X FluxStamp)
    BY MeshAssumption DEF TypeOK, FluxMailType
  <2> HIDE DEF got
  <2>3. \A b \in Blocks : [flux[b] EXCEPT !.corr = got(b)] \in FluxType
    BY <2>2, FluxFieldTypes DEF TypeOK, AnyFluxOp
  <2>4. flux' = [b \in Blocks |-> IF b \in L THEN [flux[b] EXCEPT !.corr = got(b)]
                                  ELSE flux[b]]
    BY <1>3 DEF SetFluxCorrections, got
  <2>5. flux' \in [Blocks -> FluxType]
    BY <2>3, <2>4 DEF TypeOK
  <2>6. fluxMsg' \in FluxMailType
    BY <1>3 DEF SetFluxCorrections, TypeOK, FluxMailType
  <2>7. posted' \in PostedType
    BY <1>3 DEF SetFluxCorrections, TypeOK, PostedType
  <2> QED
    BY <1>3, <2>1, <2>5, <2>6, <2>7 DEF SetFluxCorrections, TypeOK, notes
<1>4. ASSUME FluxDivergence(r, L) PROVE TypeOK'
  <2>1. /\ done' \in [Ranks -> SUBSET (AllTasks \X SUBSET Blocks)]
        /\ clk' = clk /\ at' = at
    BY <1>4, TaskType DEF FluxDivergence
  <2>2. \A b \in Blocks : [flux |-> flux[b], src |-> NoSource] \in RhsType
    BY StampTypes DEF TypeOK, RhsType
  <2>3. dudt' \in [Blocks -> RhsType]
    BY <1>4, <2>2 DEF FluxDivergence, TypeOK
  <2> QED
    BY <1>4, <2>1, <2>3 DEF FluxDivergence, TypeOK, mail, notes
<1>5. ASSUME SumData(r, L) PROVE TypeOK'
  <2>1. /\ done' \in [Ranks -> SUBSET (AllTasks \X SUBSET Blocks)]
        /\ clk' = clk /\ at' = at
    BY <1>5, TaskType DEF SumData
  <2>2. \A b \in Blocks : [dudt[b] EXCEPT !.src = gsrc[b]] \in RhsType
    <3>1. \A b \in Blocks : dudt[b] \in RhsType /\ gsrc[b] \in SourceType
      BY Zenon DEF TypeOK
    <3> QED BY <3>1 DEF RhsType
  <2>3. dudt' \in [Blocks -> RhsType]
    BY <1>5, <2>2 DEF SumData, TypeOK
  <2> QED
    BY <1>5, <2>1, <2>3 DEF SumData, TypeOK, mail, notes
<1>6. ASSUME AverageIndependentData(r, L) PROVE TypeOK'
  <2>1. /\ done' \in [Ranks -> SUBSET (AllTasks \X SUBSET Blocks)]
        /\ clk' = clk /\ at' = at
    BY <1>6, TaskType DEF AverageIndependentData
  <2>2. avgd' \in [Blocks -> Stamp]
    BY <1>6, <1>k, <1>s DEF AverageIndependentData, TypeOK
  <2>3. cons' \in ConsType
    <3>1. CASE Sc0(clk[r]) = Base
      BY <1>6, <3>1 DEF AverageIndependentData, TypeOK
    <3>2. CASE Sc0(clk[r]) # Base
      <4> DEFINE p == cons[Sc0(clk[r])]
                 q == [b \in Blocks |-> IF b \in L
                         THEN [p[b] EXCEPT ![b] = Averaged(@, cons[Base][b][b])]
                         ELSE p[b]]
      <4>1. cons' = [cons EXCEPT ![Sc0(clk[r])] = q]
        BY <1>6, <3>2 DEF AverageIndependentData
      <4>2. \A b \in Blocks : Averaged(p[b][b], cons[Base][b][b]) \in Stamp
        BY <1>k, <1>s, StampFieldTypes
      <4>3. p \in PrimType
        BY <1>k, <1>c
      <4> HIDE DEF p
      <4>4. q \in PrimType
        BY <4>2, <4>3 DEF PrimType
      <4> QED BY <1>k, <4>1, <4>4, ContainerType DEF TypeOK
    <3> QED BY <3>1, <3>2
  <2> QED
    BY <1>6, <2>1, <2>2, <2>3 DEF AverageIndependentData, TypeOK, rates, mail
<1>7. ASSUME UpdateIndependentData(r, L) PROVE TypeOK'
  <2>1. /\ done' \in [Ranks -> SUBSET (AllTasks \X SUBSET Blocks)]
        /\ clk' = clk /\ at' = at
    BY <1>7, TaskType DEF UpdateIndependentData
  <2> DEFINE k == clk[r]
             old(b) == cons[Sc0(k)][b][b]
             new(b) == [lvl |-> k, mag |-> k, by |-> {}, net |-> old(b).net]
             upd(b) == [lvl |-> k, old |-> old(b), base |-> avgd[b],
                        rhs |-> dudt[b]]
             q == [b \in Blocks |-> IF b \in L
                     THEN [z \in Zone |-> IF z = b THEN new(b) ELSE Blank]
                     ELSE cons[Sc1(k)][b]]
  <2>2. \A b \in Blocks : old(b) \in Stamp
    BY <1>k, <1>s
  <2>3. cons' = [cons EXCEPT ![Sc1(k)] = q]
    BY <1>7 DEF UpdateIndependentData
  <2>4. used' = [b \in Blocks |-> IF b \in L THEN upd(b) ELSE used[b]]
    BY <1>7 DEF UpdateIndependentData
  <2> HIDE DEF old
  <2>5. \A b \in Blocks : new(b) \in Stamp
    BY <1>k, <2>2, LevelType DEF Stamp
  <2>6. \A b \in Blocks : upd(b) \in UpdateType
    BY <1>k, <2>2 DEF TypeOK, UpdateType
  <2> HIDE DEF new, upd
  <2>7. q \in PrimType
    BY <1>k, <1>c, <2>5, StampTypes DEF PrimType
  <2>8. cons' \in ConsType
    BY <1>k, <2>3, <2>7, ContainerType DEF TypeOK
  <2>9. used' \in [Blocks -> UpdateType]
    BY <2>4, <2>6 DEF TypeOK
  <2> QED
    BY <1>7, <2>1, <2>8, <2>9 DEF UpdateIndependentData, TypeOK, rates, mail
<1> QED BY <1>1, <1>2, <1>3, <1>4, <1>5, <1>6, <1>7

(* ... the handlers of the primitive state ...                             *)
LEMMA HandledType ==
  ASSUME TypeOK, NEW r \in Ranks, NEW g \in 1 .. 9, NEW t,
         NEW L \in SUBSET Blocks, Begin(r, g, t, L), Complete(r, t, L),
         UNCHANGED <<rates, force, mail, sums, newDt, notes>>,
         prim' \in PrimType, cons' \in ConsType
  PROVE  TypeOK'
<1>1. /\ done' \in [Ranks -> SUBSET (AllTasks \X SUBSET Blocks)]
      /\ clk' = clk /\ at' = at
  BY TaskType
<1> QED BY <1>1 DEF TypeOK, rates, mail, notes

LEMMA HandlersType ==
  ASSUME TypeOK, NEW c \in Containers, NEW L \in SUBSET Blocks
  PROVE  /\ DoFillDerived(L, c) => prim' \in PrimType /\ cons' \in ConsType
         /\ \A h \in AnyHandler :
              DoFixup(L, c, h) => prim' \in PrimType /\ cons' \in ConsType
         /\ DoFloors(L, c) => prim' \in PrimType /\ cons' \in ConsType
<1>c. cons[c] \in PrimType /\ prim \in PrimType
  BY DEF TypeOK, ConsType, PrimType
<1>1. ASSUME DoFillDerived(L, c) PROVE prim' \in PrimType /\ cons' \in ConsType
  <2>1. \A b \in Blocks, z \in Zone : Worked(cons[c][b][z], "c2p") \in Stamp
    BY <1>c, WorkedType DEF PrimType, AnyHandler
  <2> QED BY <1>1, <1>c, <2>1 DEF DoFillDerived, TypeOK, PrimType
<1>2. ASSUME NEW h \in AnyHandler, DoFixup(L, c, h)
      PROVE  prim' \in PrimType /\ cons' \in ConsType
  <2> DEFINE p == cons[c]
             new(b) == Worked(prim[b][b], h)
             q == [b \in Blocks |-> IF b \in L THEN [p[b] EXCEPT ![b] = new(b)]
                                    ELSE p[b]]
  <2>1. /\ prim' = [b \in Blocks |-> IF b \in L
                      THEN [prim[b] EXCEPT ![b] = new(b)] ELSE prim[b]]
        /\ cons' = [cons EXCEPT ![c] = q]
    BY <1>2 DEF DoFixup
  <2>2. \A b \in Blocks : new(b) \in Stamp
    BY <1>c, WorkedType DEF PrimType, Zone
  <2>p. p \in PrimType
    BY <1>c
  <2> HIDE DEF new, p
  <2>3. prim' \in PrimType
    BY <1>c, <2>1, <2>2 DEF PrimType
  <2>4. q \in PrimType
    BY <2>p, <2>2 DEF PrimType
  <2>5. cons' \in ConsType
    BY <2>1, <2>4, ContainerType DEF TypeOK
  <2> QED BY <2>3, <2>5
<1>3. ASSUME DoFloors(L, c) PROVE prim' \in PrimType /\ cons' \in ConsType
  <2> DEFINE p == cons[c]
             new(b) == [z \in Zone |-> Worked(prim[b][z], "floors")]
             q == [b \in Blocks |-> IF b \in L THEN new(b) ELSE p[b]]
  <2>1. /\ prim' = [b \in Blocks |-> IF b \in L THEN new(b) ELSE prim[b]]
        /\ cons' = [cons EXCEPT ![c] = q]
    BY <1>3 DEF DoFloors
  <2>2. \A b \in Blocks, z \in Zone : Worked(prim[b][z], "floors") \in Stamp
    BY <1>c, WorkedType DEF PrimType, AnyHandler
  <2>3. \A b \in Blocks : new(b) \in [Zone -> Stamp]
    BY <2>2
  <2>p. p \in PrimType
    BY <1>c
  <2> HIDE DEF new, p
  <2>4. prim' \in PrimType /\ q \in PrimType
    BY <1>c, <2>p, <2>1, <2>3 DEF PrimType
  <2>5. cons' \in ConsType
    BY <2>1, <2>4, ContainerType DEF TypeOK
  <2> QED BY <2>4, <2>5
<1> QED BY <1>1, <1>2, <1>3

LEMMA HandlerTasksType ==
  ASSUME TypeOK, NEW r \in Ranks, NEW L \in SUBSET Blocks
  PROVE  /\ FillDerivedMesh(r, L) => TypeOK'
         /\ C2PFixupMesh(r, L) => TypeOK'
         /\ RadC2PFixupMesh(r, L) => TypeOK'
         /\ ApplyFloorsMesh(r, L) => TypeOK'
         /\ MomentFluidSource(r, L) => TypeOK'
         /\ ApplyFloorsAgain(r, L) => TypeOK'
<1>c. Sc1(clk[r]) \in Containers
  BY StageType DEF TypeOK
<1>1. FillDerivedMesh(r, L) => TypeOK'
  BY <1>c, HandlersType, HandledType DEF FillDerivedMesh, Handle
<1>2. C2PFixupMesh(r, L) => TypeOK'
  BY <1>c, HandlersType, HandledType DEF C2PFixupMesh, Handle, AnyHandler
<1>3. RadC2PFixupMesh(r, L) => TypeOK'
  BY <1>c, HandlersType, HandledType DEF RadC2PFixupMesh, Handle, AnyHandler
<1>4. ApplyFloorsMesh(r, L) => TypeOK'
  BY <1>c, HandlersType, HandledType DEF ApplyFloorsMesh, Handle
<1>5. MomentFluidSource(r, L) => TypeOK'
  BY <1>c, HandlersType, HandledType DEF MomentFluidSource, Handle, AnyHandler
<1>6. ApplyFloorsAgain(r, L) => TypeOK'
  BY <1>c, HandlersType, HandledType DEF ApplyFloorsAgain, Handle
<1> QED BY <1>1, <1>2, <1>3, <1>4, <1>5, <1>6

LEMMA BlockHandlerTasksType ==
  ASSUME TypeOK, NEW r \in Ranks, NEW b \in Blocks
  PROVE  /\ FillDerived(r, b) => TypeOK'
         /\ C2PFixup(r, b) => TypeOK'
         /\ RadC2PFixup(r, b) => TypeOK'
         /\ ApplyFloors(r, b) => TypeOK'
<1>c. Sc1(clk[r]) \in Containers /\ {b} \in SUBSET Blocks
  BY StageType DEF TypeOK
<1>1. FillDerived(r, b) => TypeOK'
  BY <1>c, HandlersType, HandledType DEF FillDerived, Handle
<1>2. C2PFixup(r, b) => TypeOK'
  BY <1>c, HandlersType, HandledType DEF C2PFixup, Handle, AnyHandler
<1>3. RadC2PFixup(r, b) => TypeOK'
  BY <1>c, HandlersType, HandledType DEF RadC2PFixup, Handle, AnyHandler
<1>4. ApplyFloors(r, b) => TypeOK'
  BY <1>c, HandlersType, HandledType DEF ApplyFloors, Handle
<1> QED BY <1>1, <1>2, <1>3, <1>4

(* ... ghost zones and physical boundaries ...                             *)
LEMMA GhostTasksType ==
  ASSUME TypeOK, NEW r \in Ranks, NEW L \in SUBSET Blocks
  PROVE  /\ SendBoundBufs(r, L) => TypeOK'
         /\ ReceiveBoundBufs(r, L) => TypeOK'
         /\ SetBounds(r, L) => TypeOK'
<1>k. Sc1(clk[r]) \in Containers
  BY StageType DEF TypeOK
<1>c. cons[Sc1(clk[r])] \in PrimType /\ prim \in PrimType
  BY <1>k DEF TypeOK, ConsType, PrimType
<1>1. ASSUME SendBoundBufs(r, L) PROVE TypeOK'
  <2>1. /\ done' \in [Ranks -> SUBSET (AllTasks \X SUBSET Blocks)]
        /\ clk' = clk /\ at' = at
    BY <1>1, TaskType DEF SendBoundBufs
  <2> DEFINE p == cons[Sc1(clk[r])]
             msg(b) == [cons |-> p[b][b], prim |-> prim[b][b]]
             out(b, n) == b \in L /\ n \in Neighbors[b]
  <2>2. bndMsg' = [b \in Blocks |-> [n \in Blocks |->
                     IF out(b, n) THEN {msg(b)} ELSE bndMsg[b][n]]]
    BY <1>1 DEF SendBoundBufs
  <2>3. \A b \in Blocks : msg(b) \in [cons : Stamp, prim : Stamp]
    BY <1>c DEF PrimType, Zone
  <2> HIDE DEF msg, out
  <2>4. bndMsg' \in BoundMailType
    BY <2>2, <2>3 DEF TypeOK, BoundMailType
  <2> QED
    BY <1>1, <2>1, <2>4 DEF SendBoundBufs, TypeOK, rates, notes
<1>2. ASSUME ReceiveBoundBufs(r, L) PROVE TypeOK'
  <2>1. /\ done' \in [Ranks -> SUBSET (AllTasks \X SUBSET Blocks)]
        /\ clk' = clk /\ at' = at
    BY <1>2, TaskType DEF ReceiveBoundBufs
  <2> QED
    BY <1>2, <2>1 DEF ReceiveBoundBufs, TypeOK, rates, mail, notes
<1>3. ASSUME SetBounds(r, L) PROVE TypeOK'
  <2>1. /\ done' \in [Ranks -> SUBSET (AllTasks \X SUBSET Blocks)]
        /\ clk' = clk /\ at' = at
    BY <1>3, TaskType DEF SetBounds
  <2> DEFINE p == cons[Sc1(clk[r])]
             sent(b, n) == n \in Blocks /\ bndMsg[n][b] # {}
             got(b, n) == CHOOSE m \in bndMsg[n][b] : TRUE
             q == [b \in Blocks |-> IF b \in L
                     THEN [z \in Zone |-> IF sent(b, z) THEN got(b, z).cons
                                         ELSE p[b][z]]
                     ELSE p[b]]
             pq == [b \in Blocks |-> IF b \in L
                      THEN [z \in Zone |-> IF sent(b, z) THEN got(b, z).prim
                                          ELSE prim[b][z]]
                      ELSE prim[b]]
  <2>2. cons' = [cons EXCEPT ![Sc1(clk[r])] = q]
    BY <1>3 DEF SetBounds
  <2>3. prim' = IF BcPrimitive THEN pq ELSE prim
    BY <1>3 DEF SetBounds
  <2>4. \A b \in Blocks, z \in Zone :
          sent(b, z) => got(b, z) \in [cons : Stamp, prim : Stamp]
    BY DEF TypeOK, BoundMailType
  <2>p. p \in PrimType
    BY <1>c
  <2> HIDE DEF got, sent, p
  <2>5. q \in PrimType
    BY <2>p, <2>4 DEF PrimType
  <2>6. pq \in PrimType
    BY <1>c, <2>4 DEF PrimType
  <2> HIDE DEF q, pq
  <2>7. cons' \in ConsType
    BY <1>k, <2>2, <2>5, ContainerType DEF TypeOK
  <2>8. prim' \in PrimType
    BY <1>c, <2>3, <2>6
  <2>9. bndMsg' \in BoundMailType
    BY <1>3 DEF SetBounds, TypeOK, BoundMailType
  <2>10. posted' \in PostedType
    BY <1>3 DEF SetBounds, TypeOK, PostedType
  <2> QED
    BY <1>3, <2>1, <2>7, <2>8, <2>9, <2>10 DEF SetBounds, TypeOK, rates, notes
<1> QED BY <1>1, <1>2, <1>3

LEMMA BoundaryTasksType ==
  ASSUME TypeOK, NEW r \in Ranks, NEW b \in Blocks
  PROVE  /\ ApplyBC(r, b) => TypeOK'
         /\ ConvertBC(r, b) => TypeOK'
         /\ EstimateTimestep(r, b) => TypeOK'
<1> DEFINE c == Sc1(clk[r])
           p == cons[c]
<1>k. c \in Containers /\ {b} \in SUBSET Blocks
  BY StageType DEF TypeOK
<1>c. p \in PrimType /\ prim \in PrimType
  BY <1>k DEF TypeOK, ConsType, PrimType
<1>z. b \in Zone /\ Phys \in Zone
  BY DEF Zone
<1>x. \A x \in Stamp : [prim EXCEPT ![b][Phys] = x] \in PrimType
  BY <1>c, <1>z DEF PrimType
<1>y. \A x \in Stamp : [cons EXCEPT ![c][b][Phys] = x] \in ConsType
  BY <1>k, <1>z DEF TypeOK, ConsType
<1>s. prim[b][b] \in Stamp /\ prim[b][Phys] \in Stamp /\ p[b][b] \in Stamp
  BY <1>c, <1>z DEF PrimType
<1>t. prim \in PrimType /\ cons \in ConsType
  BY DEF TypeOK
<1>1. ASSUME ApplyBC(r, b) PROVE TypeOK'
  <2>1. CASE BcPrimitive
    <3>1. prim' \in PrimType /\ cons' \in ConsType
      BY <1>1, <2>1, <1>x, <1>s, <1>t DEF ApplyBC, Handle
    <3> QED BY <1>1, <1>k, <3>1, HandledType DEF ApplyBC, Handle
  <2>2. CASE ~BcPrimitive
    <3>1. prim' \in PrimType /\ cons' \in ConsType
      BY <1>1, <2>2, <1>y, <1>s, <1>t DEF ApplyBC, Handle
    <3> QED BY <1>1, <1>k, <3>1, HandledType DEF ApplyBC, Handle
  <2> QED BY <2>1, <2>2
<1>2. ASSUME ConvertBC(r, b) PROVE TypeOK'
  <2>1. cons' \in ConsType
    <3>1. CASE BcPrimitive
      BY <1>2, <3>1, <1>y, <1>s DEF ConvertBC, Handle
    <3>2. CASE ~BcPrimitive
      BY <1>2, <3>2, <1>t DEF ConvertBC, Handle
    <3> QED BY <3>1, <3>2
  <2>2. prim' \in PrimType
    BY <1>2, <1>t DEF ConvertBC, Handle
  <2>3. /\ Begin(r, 8, "ConvertBC", {b}) /\ Complete(r, "ConvertBC", {b})
        /\ UNCHANGED <<rates, force, mail, sums, newDt, notes>>
    BY <1>2 DEF ConvertBC, Handle
  <2> QED BY <1>k, <2>1, <2>2, <2>3, HandledType
<1>3. ASSUME EstimateTimestep(r, b) PROVE TypeOK'
  <2>1. /\ done' \in [Ranks -> SUBSET (AllTasks \X SUBSET Blocks)]
        /\ clk' = clk /\ at' = at
    BY <1>3, <1>k, TaskType DEF EstimateTimestep
  <2>2. newDt' \in [Blocks -> Stamp]
    BY <1>3, <1>s DEF EstimateTimestep, TypeOK
  <2> QED
    BY <1>3, <2>1, <2>2 DEF EstimateTimestep, TypeOK, rates, mail, notes
<1> QED BY <1>1, <1>2, <1>3

(* ... and cooling.                                                        *)
LEMMA CoolingTasksType ==
  ASSUME TypeOK, NEW r \in Ranks, NEW L \in SUBSET Blocks
  PROVE  /\ CalculateFourForce(r, L) => TypeOK'
         /\ ApplyRadiationFourForce(r, L) => TypeOK'
<1>k. Base \in Containers
  BY StagesAssumption DEF Base, Containers
<1>c. cons[Base] \in PrimType /\ prim \in PrimType
  BY <1>k DEF TypeOK, ConsType, PrimType
<1>1. ASSUME CalculateFourForce(r, L) PROVE TypeOK'
  <2>1. /\ done' \in [Ranks -> SUBSET (AllTasks \X SUBSET Blocks)]
        /\ clk' = clk /\ at' = at
    BY <1>1, TaskType DEF CalculateFourForce
  <2>2. force' \in [Blocks -> Stamp]
    BY <1>1, <1>c DEF CalculateFourForce, TypeOK, PrimType, Zone
  <2> QED
    BY <1>1, <2>1, <2>2 DEF CalculateFourForce, TypeOK, rates, mail, notes
<1>2. ASSUME ApplyRadiationFourForce(r, L) PROVE TypeOK'
  <2> DEFINE p == cons[Base]
             q == [b \in Blocks |-> IF b \in L
                     THEN [p[b] EXCEPT ![b] = Cooled(@)] ELSE p[b]]
  <2>1. cons' = [cons EXCEPT ![Base] = q] /\ prim' = prim
    BY <1>2 DEF ApplyRadiationFourForce, Handle
  <2>2. \A b \in Blocks : Cooled(p[b][b]) \in Stamp
    BY <1>c, StampFieldTypes DEF PrimType, Zone
  <2>p. p \in PrimType
    BY <1>c
  <2> HIDE DEF p
  <2>3. q \in PrimType
    BY <2>p, <2>2 DEF PrimType
  <2>4. cons' \in ConsType /\ prim' \in PrimType
    BY <1>k, <1>c, <2>1, <2>3, ContainerType DEF TypeOK
  <2>5. /\ Begin(r, 9, "ApplyRadiationFourForce", L)
        /\ Complete(r, "ApplyRadiationFourForce", L)
        /\ UNCHANGED <<rates, force, mail, sums, newDt, notes>>
    BY <1>2 DEF ApplyRadiationFourForce, Handle
  <2> QED BY <2>4, <2>5, HandledType
<1> QED BY <1>1, <1>2

(* The scheduler and the driver's reduction.                               *)
LEMMA DriverType ==
  ASSUME TypeOK
  PROVE  /\ \A r \in Ranks : NextRegion(r) => TypeOK'
         /\ SetGlobalTimeStep => TypeOK'
         /\ UNCHANGED vars => TypeOK'
<1>1. ASSUME NEW r \in Ranks, NextRegion(r) PROVE TypeOK'
  <2> DEFINE newStage == at[r] = 9 /\ StageOf(clk[r]) < NStages
  <2>1. clk' \in [Ranks -> 1 .. LastLevel]
    BY <1>1, NextLevel DEF NextRegion, TypeOK
  <2>2. at' \in [Ranks -> 1 .. StepEnd]
    BY <1>1 DEF NextRegion, TypeOK, StepEnd
  <2>3. /\ done' \in [Ranks -> SUBSET (AllTasks \X SUBSET Blocks)]
        /\ sums' \in [Ranks -> SUBSET Stamp]
    BY <1>1 DEF NextRegion, TypeOK
  <2> QED
    BY <1>1, <2>1, <2>2, <2>3 DEF NextRegion, TypeOK, rates, mail, notes
<1>2. ASSUME SetGlobalTimeStep PROVE TypeOK'
  <2>1. clk' \in [Ranks -> 1 .. LastLevel]
    BY <1>2, LevelType DEF SetGlobalTimeStep, TypeOK
  <2>2. /\ at' \in [Ranks -> 1 .. StepEnd]
        /\ done' \in [Ranks -> SUBSET (AllTasks \X SUBSET Blocks)]
        /\ sums' \in [Ranks -> SUBSET Stamp]
    BY <1>2 DEF SetGlobalTimeStep, StepEnd
  <2> QED
    BY <1>2, <2>1, <2>2 DEF SetGlobalTimeStep, TypeOK, rates, mail, notes
<1>3. ASSUME UNCHANGED vars PROVE TypeOK'
  BY <1>3 DEF TypeOK, vars, control, rates, mail, notes
<1> QED BY <1>1, <1>2, <1>3

LEMMA InitType == Init => TypeOK
<1> SUFFICES ASSUME Init PROVE TypeOK
  OBVIOUS
<1>1. /\ clk \in [Ranks -> 1 .. LastLevel]
      /\ at \in [Ranks -> 1 .. StepEnd]
      /\ done \in [Ranks -> SUBSET (AllTasks \X SUBSET Blocks)]
      /\ sums \in [Ranks -> SUBSET Stamp]
  BY LevelType DEF Init, StepEnd
<1>2. prim \in PrimType /\ cons \in ConsType
  BY StampTypes DEF Init, PrimType, ConsType
<1>3. [flux |-> NoFlux, src |-> NoSource] \in RhsType
  BY StampTypes DEF RhsType
<1>4. NoUpdate \in UpdateType
  BY <1>3, StampTypes, LevelType DEF NoUpdate, UpdateType
<1>5. /\ flux \in [Blocks -> FluxType]
      /\ edge \in [Blocks -> SUBSET Stamp] /\ opac \in [Blocks -> SUBSET Stamp]
      /\ gsrc \in [Blocks -> SourceType] /\ dudt \in [Blocks -> RhsType]
      /\ force \in [Blocks -> Stamp] /\ newDt \in [Blocks -> Stamp]
      /\ avgd \in [Blocks -> Stamp] /\ used \in [Blocks -> UpdateType]
  BY <1>3, <1>4, StampTypes DEF Init
<1>6. posted \in PostedType /\ fluxMsg \in FluxMailType /\ bndMsg \in BoundMailType
  BY DEF Init, PostedType, FluxMailType, BoundMailType
<1> QED BY <1>1, <1>2, <1>5, <1>6 DEF TypeOK

LEMMA NextType == TypeOK /\ [Next]_vars => TypeOK'
<1> SUFFICES ASSUME TypeOK, [Next]_vars PROVE TypeOK'
  OBVIOUS
<1>1. ASSUME NEW r \in Ranks, NEW L \in Partitions, PartitionTask(r, L)
      PROVE  TypeOK'
  <2>1. L \in SUBSET Blocks
    BY PartitionAssumption
  <2> QED
    BY <1>1, <2>1, PostTasksType, NetFieldTasksType, UpdateTasksType,
       HandlerTasksType, GhostTasksType, CoolingTasksType DEF PartitionTask
<1>2. ASSUME NEW r \in Ranks, NEW b \in Blocks, BlockTask(r, b)
      PROVE  TypeOK'
  BY <1>2, FluxTasksType, PrimitiveToConservedType, BlockHandlerTasksType,
     BoundaryTasksType DEF BlockTask
<1>3. CASE Next
  BY <1>1, <1>2, <1>3, DriverType DEF Next, RankStep, Finish
<1>4. CASE UNCHANGED vars
  BY <1>4, DriverType
<1> QED BY <1>3, <1>4

(* Every state of every run is one of the model's: no task, in any order   *)
(* the dependencies allow, runs past the last level of the run or leaves a *)
(* container, a flux register or a message in a shape no task produces.    *)
THEOREM TypeCorrect == Spec => []TypeOK
BY InitType, NextType, PTL DEF Spec

----------------------------------------------------------------------------
(* Fluxes and their corrections                                            *)

BlockDone(t, b) == <<t, {b}>> \in done[RankOf[b]]
ListDone(t, b) ==
  \E L \in Partitions : b \in L /\ <<t, L>> \in done[RankOf[b]]

Complete5(t, b) ==
  at[RankOf[b]] > 5 \/ (at[RankOf[b]] = 5 /\ ListDone(t, b))

(* How many stages have done task t of sync_region_3 for block b *)
TimesDone(t, b) ==
  IF Complete5(t, b) THEN clk[RankOf[b]] ELSE clk[RankOf[b]] - 1

CompleteFluxes(f, k) == f.lvl = k /\ f.by = FluxOps
Corrected(f, b, k) ==
  /\ CompleteFluxes(f, k)
  /\ f.corr = {<<n, [lvl |-> k, by |-> FluxOps]>> : n \in Finer[b]}

(* While a stage computes fluxes, those of the solvers that are done are   *)
(* there, and FixFluxes comes after all of them.                           *)
FluxesSoFar(b) ==
  LET r == RankOf[b] IN
  /\ flux[b].by \subseteq FluxOps
  /\ at[r] = 2 =>
    /\ BlockDone("CalculateFluxes", b) =>
         flux[b].lvl = clk[r] /\ "riemann" \in flux[b].by
    /\ BlockDone("FluxCT", b) =>
         /\ flux[b].lvl = clk[r] /\ "ct" \in flux[b].by
         /\ BlockDone("CalculateFluxes", b)
    /\ BlockDone("MomentCalculateFluxes", b) =>
         flux[b].lvl = clk[r] /\ "moment" \in flux[b].by
    /\ BlockDone("FixFluxes", b) =>
         /\ "fix" \in flux[b].by
         /\ BlockDone("FluxCT", b)
         /\ MomentsActive => BlockDone("MomentCalculateFluxes", b)

FluxesReady(b) ==
  at[RankOf[b]] > 2 => CompleteFluxes(flux[b], clk[RankOf[b]])

(* A fine block's sends and a coarse block's receives alternate, so what   *)
(* is in flight is of the level the coarse block waits for.                *)
SendsMatch(f, b) ==
  LET sent == TimesDone("LoadAndSendFluxCorrections", f)
      set == TimesDone("SetFluxCorrections", b) IN
  \/ sent = set /\ fluxMsg[f][b] = {}
  \/ sent = set + 1 /\ fluxMsg[f][b] = {[lvl |-> sent, by |-> FluxOps]}

(* Within sync_region_3: received corrections are in the buffers until     *)
(* they are set; once set the fluxes, and then the divergence, have them.  *)
UpdateSoFar(b) ==
  LET r == RankOf[b] IN
  at[r] = 5 =>
    /\ ListDone("ReceiveFluxCorrections", b) =>
         \/ ListDone("SetFluxCorrections", b)
         \/ \A f \in Finer[b] : fluxMsg[f][b] # {}
    /\ ListDone("SetFluxCorrections", b) => Corrected(flux[b], b, clk[r])
    /\ ListDone("FluxDivergence", b) => Corrected(dudt[b].flux, b, clk[r])
    /\ ListDone("AverageIndependentData", b) =>
         Corrected(dudt[b].flux, b, clk[r])

(* The inductive invariant behind CorrectedFluxes: a stage's fluxes are    *)
(* complete before they are sent or used, and the correction a block takes *)
(* from its buffer is the one its finer neighbour sent in the same stage.  *)
FluxInv ==
  /\ \A b \in Blocks : FluxesSoFar(b)
  /\ \A b \in Blocks : FluxesReady(b)
  /\ \A b \in Blocks : \A f \in Finer[b] : SendsMatch(f, b)
  /\ \A b \in Blocks : UpdateSoFar(b)
  /\ CorrectedFluxes

----------------------------------------------------------------------------

(* The tasks the invariant speaks of                                       *)
Spoken == {"CalculateFluxes", "FluxCT", "MomentCalculateFluxes", "FixFluxes",
           "LoadAndSendFluxCorrections", "ReceiveFluxCorrections",
           "SetFluxCorrections", "FluxDivergence", "AverageIndependentData"}

(* What completing a task does to the control state.                       *)
LEMMA CompleteDone ==
  ASSUME TypeOK, NEW r \in Ranks, NEW t, NEW L, Complete(r, t, L)
  PROVE  /\ clk' = clk /\ at' = at
         /\ \A q \in Ranks : \A p : p \in done'[q] <=>
              p \in done[q] \/ (q = r /\ p = <<t, L>>)
BY DEF Complete, TypeOK

LEMMA RankOfType == \A b \in Blocks : RankOf[b] \in Ranks
BY MeshAssumption

(* Any other task that leaves fluxes, messages and updates alone.          *)
LEMMA OtherTask ==
  ASSUME TypeOK, FluxInv, NEW r \in Ranks, NEW t, NEW L, Complete(r, t, L),
         t \notin Spoken, flux' = flux, fluxMsg' = fluxMsg, used' = used,
         \A b \in Blocks : dudt'[b].flux = dudt[b].flux
  PROVE  FluxInv'
<1>1. /\ clk' = clk /\ at' = at
      /\ \A q \in Ranks : \A p : p \in done'[q] <=>
           p \in done[q] \/ (q = r /\ p = <<t, L>>)
  BY CompleteDone
<1>d. \A u \in Spoken, b \in Blocks : \A M :
        <<u, M>> \in done'[RankOf[b]] <=> <<u, M>> \in done[RankOf[b]]
  BY <1>1, RankOfType
<1>2. \A u \in Spoken, b \in Blocks : BlockDone(u, b)' <=> BlockDone(u, b)
  BY <1>d DEF BlockDone
<1>3. \A u \in Spoken, b \in Blocks : ListDone(u, b)' <=> ListDone(u, b)
  BY <1>d DEF ListDone
<1>4. \A b \in Blocks : FluxesSoFar(b)'
  BY <1>1, <1>2 DEF FluxInv, FluxesSoFar, Spoken
<1>5. \A b \in Blocks : \A f \in Finer[b] : SendsMatch(f, b)'
  <2>1. \A u \in Spoken, b \in Blocks : TimesDone(u, b)' = TimesDone(u, b)
    BY <1>1, <1>3 DEF TimesDone, Complete5
  <2> QED BY <1>1, <2>1, MeshAssumption DEF FluxInv, SendsMatch, Spoken
<1>6. \A b \in Blocks : UpdateSoFar(b)'
  BY <1>1, <1>3 DEF FluxInv, UpdateSoFar, Spoken, Corrected, CompleteFluxes
<1>7. CorrectedFluxes'
  BY DEF FluxInv, CorrectedFluxes
<1>8. \A b \in Blocks : FluxesReady(b)'
  BY <1>1 DEF FluxInv, FluxesReady, CompleteFluxes
<1> QED BY <1>4, <1>5, <1>6, <1>7, <1>8 DEF FluxInv

(* A flux task of a block concerns that block's fluxes only.               *)
LEMMA FluxTask ==
  ASSUME TypeOK, FluxInv, NEW r \in Ranks, NEW b \in Blocks,
         NEW t \in {"CalculateFluxes", "FluxCT", "MomentCalculateFluxes",
                    "FixFluxes"},
         Begin(r, 2, t, {b}), Complete(r, t, {b}),
         \A x \in Blocks : x # b => flux'[x] = flux[x],
         fluxMsg' = fluxMsg, used' = used, dudt' = dudt
  PROVE  /\ RankOf[b] = r /\ at[r] = 2 /\ clk' = clk /\ at' = at
         /\ \A u : BlockDone(u, b)' <=> BlockDone(u, b) \/ u = t
         /\ FluxesSoFar(b)' => FluxInv'
<1>1. /\ clk' = clk /\ at' = at
      /\ \A q \in Ranks : \A p : p \in done'[q] <=>
           p \in done[q] \/ (q = r /\ p = <<t, {b}>>)
  BY CompleteDone
<1>2. RankOf[b] = r /\ at[r] = 2
  BY DEF Begin, Lists
<1>3. \A u : \A M :
        <<u, M>> \in done'[r] <=> <<u, M>> \in done[r] \/ (u = t /\ M = {b})
  BY <1>1
<1>4. \A u : BlockDone(u, b)' <=> BlockDone(u, b) \/ u = t
  BY <1>2, <1>3 DEF BlockDone
<1>5. ASSUME FluxesSoFar(b)' PROVE FluxInv'
  <2>1. \A u : \A x \in Blocks : x # b => (BlockDone(u, x)' <=> BlockDone(u, x))
    BY <1>1, RankOfType DEF BlockDone
  <2>2. \A x \in Blocks : FluxesSoFar(x)'
    BY <1>1, <1>5, <2>1 DEF FluxInv, FluxesSoFar
  <2>3. \A x \in Blocks : FluxesReady(x)'
    BY <1>1, <1>2 DEF FluxInv, FluxesReady, CompleteFluxes
  <2>4. \A x \in Blocks : \A u \in Spoken :
          at[RankOf[x]] = 5 => (ListDone(u, x)' <=> ListDone(u, x))
    <3>1. \A x \in Blocks : at[RankOf[x]] = 5 =>
            \A p : p \in done'[RankOf[x]] <=> p \in done[RankOf[x]]
      BY <1>1, <1>2, RankOfType
    <3> QED BY <3>1 DEF ListDone
  <2>5. \A x \in Blocks : UpdateSoFar(x)'
    <3>1. \A x \in Blocks : at[RankOf[x]] = 5 => flux'[x] = flux[x]
      BY <1>2
    <3> QED
      BY <1>1, <2>4, <3>1
      DEF FluxInv, UpdateSoFar, Spoken, Corrected, CompleteFluxes
  <2>6. \A x \in Blocks : \A f \in Finer[x] : SendsMatch(f, x)'
    <3>1. \A u \in Spoken, x \in Blocks : TimesDone(u, x)' = TimesDone(u, x)
      BY <1>1, <2>4 DEF TimesDone, Complete5
    <3> QED BY <3>1, MeshAssumption DEF FluxInv, SendsMatch, Spoken
  <2>7. CorrectedFluxes'
    BY DEF FluxInv, CorrectedFluxes
  <2> QED BY <2>2, <2>3, <2>5, <2>6, <2>7 DEF FluxInv
<1> QED BY <1>1, <1>2, <1>4, <1>5

LEMMA FluxTasks ==
  ASSUME TypeOK, FluxInv, NEW r \in Ranks, NEW b \in Blocks
  PROVE  /\ CalculateFluxes(r, b) => FluxInv'
         /\ FluxCT(r, b) => FluxInv'
         /\ MomentCalculateFluxes(r, b) => FluxInv'
         /\ FixFluxes(r, b) => FluxInv'
<1>f. flux[b].by \subseteq FluxOps /\ FluxesSoFar(b)
  BY DEF FluxInv, FluxesSoFar
<1>1. ASSUME CalculateFluxes(r, b) PROVE FluxInv'
  <2>1. /\ Begin(r, 2, "CalculateFluxes", {b})
        /\ Complete(r, "CalculateFluxes", {b})
        /\ \A x \in Blocks : x # b => flux'[x] = flux[x]
        /\ flux'[b] = Rewrite(flux[b], clk[r], "riemann",
                              {prim[b][z] : z \in ZonesOf(b)})
        /\ fluxMsg' = fluxMsg /\ used' = used /\ dudt' = dudt
    BY <1>1 DEF CalculateFluxes, TypeOK, mail, notes
  <2>2. /\ RankOf[b] = r /\ at[r] = 2 /\ clk' = clk /\ at' = at
        /\ \A u : BlockDone(u, b)' <=> BlockDone(u, b) \/ u = "CalculateFluxes"
        /\ FluxesSoFar(b)' => FluxInv'
    BY <2>1, FluxTask
  <2>3. ~BlockDone("CalculateFluxes", b)
    BY <2>1, <2>2 DEF Begin, BlockDone
  <2>4. FluxesSoFar(b)'
    BY <1>f, <2>1, <2>2, <2>3 DEF FluxesSoFar, Rewrite, FluxOps
  <2> QED BY <2>2, <2>4
<1>2. ASSUME FluxCT(r, b) PROVE FluxInv'
  <2>1. /\ Begin(r, 2, "FluxCT", {b}) /\ Complete(r, "FluxCT", {b})
        /\ \A x \in Blocks : x # b => flux'[x] = flux[x]
        /\ flux'[b] = Rewrite(flux[b], clk[r], "ct", {})
        /\ fluxMsg' = fluxMsg /\ used' = used /\ dudt' = dudt
    BY <1>2 DEF FluxCT, TypeOK, mail, notes
  <2>2. /\ RankOf[b] = r /\ at[r] = 2 /\ clk' = clk /\ at' = at
        /\ \A u : BlockDone(u, b)' <=> BlockDone(u, b) \/ u = "FluxCT"
        /\ FluxesSoFar(b)' => FluxInv'
    BY <2>1, FluxTask
  <2>3. ~BlockDone("FluxCT", b) /\ BlockDone("CalculateFluxes", b)
    BY <2>1, <2>2 DEF Begin, BlockDone, Deps, FluxDeps, TasksOf
  <2>4. FluxesSoFar(b)'
    BY <1>f, <2>1, <2>2, <2>3 DEF FluxesSoFar, Rewrite, FluxOps
  <2> QED BY <2>2, <2>4
<1>3. ASSUME MomentCalculateFluxes(r, b) PROVE FluxInv'
  <2>1. /\ Begin(r, 2, "MomentCalculateFluxes", {b})
        /\ Complete(r, "MomentCalculateFluxes", {b})
        /\ \A x \in Blocks : x # b => flux'[x] = flux[x]
        /\ \E read : flux'[b] = Rewrite(flux[b], clk[r], "moment", read)
        /\ fluxMsg' = fluxMsg /\ used' = used /\ dudt' = dudt
    BY <1>3 DEF MomentCalculateFluxes, TypeOK, mail, notes
  <2>2. /\ RankOf[b] = r /\ at[r] = 2 /\ clk' = clk /\ at' = at
        /\ \A u : BlockDone(u, b)' <=>
             BlockDone(u, b) \/ u = "MomentCalculateFluxes"
        /\ FluxesSoFar(b)' => FluxInv'
    BY <2>1, FluxTask
  <2>3. ~BlockDone("MomentCalculateFluxes", b) /\ MomentsActive
    BY <2>1, <2>2 DEF Begin, BlockDone, TasksOf
  <2>4. FluxesSoFar(b)'
    BY <1>f, <2>1, <2>2, <2>3 DEF FluxesSoFar, Rewrite, FluxOps
  <2> QED BY <2>2, <2>4
<1>4. ASSUME FixFluxes(r, b) PROVE FluxInv'
  <2>1. /\ Begin(r, 2, "FixFluxes", {b}) /\ Complete(r, "FixFluxes", {b})
        /\ \A x \in Blocks : x # b => flux'[x] = flux[x]
        /\ flux'[b] = [flux[b] EXCEPT !.by = @ \union {"fix"}]
        /\ fluxMsg' = fluxMsg /\ used' = used /\ dudt' = dudt
    BY <1>4 DEF FixFluxes, TypeOK, mail, notes
  <2>2. /\ RankOf[b] = r /\ at[r] = 2 /\ clk' = clk /\ at' = at
        /\ \A u : BlockDone(u, b)' <=> BlockDone(u, b) \/ u = "FixFluxes"
        /\ FluxesSoFar(b)' => FluxInv'
    BY <2>1, FluxTask
  <2>3. /\ BlockDone("FluxCT", b)
        /\ MomentsActive => BlockDone("MomentCalculateFluxes", b)
    BY <2>1, <2>2 DEF Begin, BlockDone, Deps, FluxDeps, TasksOf
  <2>4. /\ flux'[b].lvl = flux[b].lvl
        /\ flux'[b].by = flux[b].by \union {"fix"}
    BY <2>1 DEF TypeOK, FluxType
  <2>5. FluxesSoFar(b)'
    BY <1>f, <2>2, <2>3, <2>4 DEF FluxesSoFar, FluxOps
  <2> QED BY <2>2, <2>5
<1> QED BY <1>1, <1>2, <1>3, <1>4

(* A task of sync_region_3 concerns the blocks of its own list only, and   *)
(* is done once for each.                                                  *)
LEMMA UpdateTask ==
  ASSUME TypeOK, FluxInv, NEW r \in Ranks, NEW L, NEW t,
         t \notin {"CalculateFluxes", "FluxCT", "MomentCalculateFluxes",
                   "FixFluxes"},
         Begin(r, 5, t, L), Complete(r, t, L),
         \A x \in Blocks : /\ flux'[x].lvl = flux[x].lvl
                           /\ flux'[x].by = flux[x].by
  PROVE  /\ L \in SUBSET Blocks /\ L \in Partitions
         /\ at[r] = 5 /\ clk' = clk /\ at' = at
         /\ \A x \in L : RankOf[x] = r /\ ~ListDone(t, x)
         /\ \A u : \A x \in Blocks :
              ListDone(u, x)' <=> ListDone(u, x) \/ (u = t /\ x \in L)
         /\ \A u : \A x \in Blocks : TimesDone(u, x)' =
              IF u = t /\ x \in L THEN TimesDone(u, x) + 1 ELSE TimesDone(u, x)
         /\ \A x \in Blocks : FluxesSoFar(x)' /\ FluxesReady(x)'
<1>1. /\ clk' = clk /\ at' = at
      /\ \A q \in Ranks : \A p : p \in done'[q] <=>
           p \in done[q] \/ (q = r /\ p = <<t, L>>)
  BY CompleteDone
<1>2. L \in SUBSET Blocks /\ L \in Partitions /\ at[r] = 5
  BY PartitionAssumption DEF Begin, Lists, PerBlock
<1>3. \A x \in L : RankOf[x] = r
  BY DEF Begin, Lists
<1>4. \A x \in L : ~ListDone(t, x)
  BY <1>2, <1>3, PartitionAssumption DEF Begin, ListDone
<1>5. \A u : \A x \in Blocks :
        ListDone(u, x)' <=> ListDone(u, x) \/ (u = t /\ x \in L)
  <2>1. \A u, M : \A x \in Blocks : x \in M =>
          (<<u, M>> \in done'[RankOf[x]] <=>
             <<u, M>> \in done[RankOf[x]] \/ (u = t /\ M = L))
    BY <1>1, <1>3, RankOfType
  <2> QED BY <1>2, <2>1 DEF ListDone
<1>6. \A u : \A x \in Blocks : TimesDone(u, x)' =
        IF u = t /\ x \in L THEN TimesDone(u, x) + 1 ELSE TimesDone(u, x)
  BY <1>1, <1>2, <1>3, <1>4, <1>5, RankOfType DEF TimesDone, Complete5, TypeOK
<1>7. \A x \in Blocks : FluxesSoFar(x)'
  <2>1. \A x \in Blocks, u \in {"CalculateFluxes", "FluxCT",
                               "MomentCalculateFluxes", "FixFluxes"} :
          BlockDone(u, x)' <=> BlockDone(u, x)
    BY <1>1, RankOfType DEF BlockDone
  <2> QED BY <1>1, <2>1 DEF FluxInv, FluxesSoFar
<1>8. \A x \in Blocks : FluxesReady(x)'
  BY <1>1 DEF FluxInv, FluxesReady, CompleteFluxes
<1> QED BY <1>1, <1>2, <1>3, <1>4, <1>5, <1>6, <1>7, <1>8

LEMMA SendTask ==
  ASSUME TypeOK, FluxInv, NEW r \in Ranks, NEW L,
         LoadAndSendFluxCorrections(r, L)
  PROVE  FluxInv'
<1> DEFINE t == "LoadAndSendFluxCorrections"
<1>1. /\ Begin(r, 5, t, L) /\ Complete(r, t, L)
      /\ flux' = flux /\ used' = used /\ dudt' = dudt
      /\ \A f, b \in Blocks : f \in L /\ f \in Finer[b] => fluxMsg[f][b] = {}
      /\ \A f, b \in Blocks : fluxMsg'[f][b] =
           IF f \in L /\ f \in Finer[b]
           THEN {[lvl |-> flux[f].lvl, by |-> flux[f].by]} ELSE fluxMsg[f][b]
  BY DEF LoadAndSendFluxCorrections, rates, notes
<1>2. /\ L \in SUBSET Blocks
      /\ at[r] = 5 /\ clk' = clk /\ at' = at
      /\ \A x \in L : RankOf[x] = r /\ ~ListDone(t, x)
      /\ \A u : \A x \in Blocks :
           ListDone(u, x)' <=> ListDone(u, x) \/ (u = t /\ x \in L)
      /\ \A u : \A x \in Blocks : TimesDone(u, x)' =
           IF u = t /\ x \in L THEN TimesDone(u, x) + 1 ELSE TimesDone(u, x)
      /\ \A x \in Blocks : FluxesSoFar(x)' /\ FluxesReady(x)'
  BY <1>1, UpdateTask
<1>3. \A b \in Blocks : \A f \in Finer[b] : SendsMatch(f, b)'
  <2> SUFFICES ASSUME NEW b \in Blocks, NEW f \in Finer[b]
               PROVE  SendsMatch(f, b)'
    OBVIOUS
  <2>1. f \in Blocks /\ SendsMatch(f, b)
    BY MeshAssumption DEF FluxInv
  <2>2. CASE f \in L
    <3>1. CompleteFluxes(flux[f], clk[r])
      BY <1>2, <2>1, <2>2 DEF FluxInv, FluxesReady
    <3>2. TimesDone(t, f)' = clk[r]
      BY <1>2, <2>1, <2>2 DEF TimesDone, Complete5, TypeOK
    <3>3. TimesDone(t, f) = TimesDone("SetFluxCorrections", b)
      BY <1>1, <2>1, <2>2 DEF SendsMatch
    <3>4. fluxMsg'[f][b] = {[lvl |-> clk[r], by |-> FluxOps]}
      BY <1>1, <2>1, <2>2, <3>1 DEF CompleteFluxes
    <3>5. /\ TimesDone(t, f)' = TimesDone(t, f) + 1
          /\ TimesDone("SetFluxCorrections", b)' =
               TimesDone("SetFluxCorrections", b)
      BY <1>2, <2>1, <2>2
    <3> QED BY <3>2, <3>3, <3>4, <3>5 DEF SendsMatch
  <2>3. CASE f \notin L
    <3>1. /\ TimesDone(t, f)' = TimesDone(t, f)
          /\ TimesDone("SetFluxCorrections", b)' =
               TimesDone("SetFluxCorrections", b)
      BY <1>2, <2>1, <2>3
    <3>2. fluxMsg'[f][b] = fluxMsg[f][b]
      BY <1>1, <2>1, <2>3
    <3> QED BY <2>1, <3>1, <3>2 DEF SendsMatch
  <2> QED BY <2>2, <2>3
<1>4. \A b \in Blocks : UpdateSoFar(b)'
  <2>1. \A b \in Blocks : \A f \in Finer[b] :
          fluxMsg[f][b] # {} => fluxMsg'[f][b] # {}
    BY <1>1, MeshAssumption
  <2> QED BY <1>1, <1>2, <2>1 DEF FluxInv, UpdateSoFar, Corrected, CompleteFluxes
<1>5. CorrectedFluxes'
  BY <1>1 DEF FluxInv, CorrectedFluxes
<1> QED BY <1>2, <1>3, <1>4, <1>5 DEF FluxInv

LEMMA ReceiveTask ==
  ASSUME TypeOK, FluxInv, NEW r \in Ranks, NEW L, ReceiveFluxCorrections(r, L)
  PROVE  FluxInv'
<1> DEFINE t == "ReceiveFluxCorrections"
<1>1. /\ Begin(r, 5, t, L) /\ Complete(r, t, L)
      /\ flux' = flux /\ used' = used /\ dudt' = dudt /\ fluxMsg' = fluxMsg
      /\ \A b \in L : \A f \in Finer[b] : fluxMsg[f][b] # {}
  BY DEF ReceiveFluxCorrections, rates, notes, mail
<1>2. /\ clk' = clk /\ at' = at
      /\ \A u : \A x \in Blocks :
           ListDone(u, x)' <=> ListDone(u, x) \/ (u = t /\ x \in L)
      /\ \A u : \A x \in Blocks : u # t => TimesDone(u, x)' = TimesDone(u, x)
      /\ \A x \in Blocks : FluxesSoFar(x)' /\ FluxesReady(x)'
  BY <1>1, UpdateTask
<1>3. \A b \in Blocks : \A f \in Finer[b] : SendsMatch(f, b)'
  BY <1>1, <1>2, MeshAssumption DEF FluxInv, SendsMatch
<1>4. \A b \in Blocks : UpdateSoFar(b)'
  BY <1>1, <1>2 DEF FluxInv, UpdateSoFar, Corrected, CompleteFluxes
<1>5. CorrectedFluxes'
  BY <1>1 DEF FluxInv, CorrectedFluxes
<1> QED BY <1>2, <1>3, <1>4, <1>5 DEF FluxInv

LEMMA SetTask ==
  ASSUME TypeOK, FluxInv, NEW r \in Ranks, NEW L, SetFluxCorrections(r, L)
  PROVE  FluxInv'
<1> DEFINE t == "SetFluxCorrections"
           got(b) == UNION {{<<f, m>> : m \in fluxMsg[f][b]} : f \in Finer[b]}
<1>1. /\ Begin(r, 5, t, L) /\ Complete(r, t, L)
      /\ used' = used /\ dudt' = dudt
      /\ \A b \in Blocks :
           flux'[b] = IF b \in L THEN [flux[b] EXCEPT !.corr = got(b)]
                      ELSE flux[b]
      /\ \A f, b \in Blocks : fluxMsg'[f][b] =
           IF b \in L /\ f \in Finer[b] THEN {} ELSE fluxMsg[f][b]
  BY DEF SetFluxCorrections, notes
<1> HIDE DEF got
<1>2. \A b \in Blocks :
        /\ flux'[b].lvl = flux[b].lvl
        /\ flux'[b].by = flux[b].by
        /\ b \in L => flux'[b].corr = got(b)
        /\ b \notin L => flux'[b] = flux[b]
  <2> SUFFICES ASSUME NEW b \in Blocks
               PROVE  /\ flux'[b].lvl = flux[b].lvl
                      /\ flux'[b].by = flux[b].by
                      /\ b \in L => flux'[b].corr = got(b)
                      /\ b \notin L => flux'[b] = flux[b]
    OBVIOUS
  <2>1. flux'[b] = IF b \in L THEN [flux[b] EXCEPT !.corr = got(b)] ELSE flux[b]
    BY <1>1
  <2>2. flux[b] \in FluxType
    BY DEF TypeOK
  <2> DEFINE old == flux[b]
             new == [old EXCEPT !.corr = got(b)]
  <2>3. new.lvl = old.lvl /\ new.by = old.by /\ new.corr = got(b)
    BY <2>2 DEF FluxType
  <2> HIDE DEF new
  <2> QED BY <2>1, <2>3, Zenon DEF new
<1>3. /\ L \in SUBSET Blocks /\ L \in Partitions
      /\ at[r] = 5 /\ clk' = clk /\ at' = at
      /\ \A x \in L : RankOf[x] = r /\ ~ListDone(t, x)
      /\ \A u : \A x \in Blocks :
           ListDone(u, x)' <=> ListDone(u, x) \/ (u = t /\ x \in L)
      /\ \A u : \A x \in Blocks : TimesDone(u, x)' =
           IF u = t /\ x \in L THEN TimesDone(u, x) + 1 ELSE TimesDone(u, x)
      /\ \A x \in Blocks : FluxesSoFar(x)' /\ FluxesReady(x)'
  BY <1>1, <1>2, UpdateTask
(* What a block of the list has in its buffers is of the stage under way.  *)
<1>4. ASSUME NEW b \in L, NEW f \in Finer[b]
      PROVE  /\ fluxMsg[f][b] = {[lvl |-> clk[r], by |-> FluxOps]}
             /\ TimesDone("LoadAndSendFluxCorrections", f) = clk[r]
             /\ TimesDone(t, b) = clk[r] - 1
  <2>1. b \in Blocks /\ f \in Blocks /\ SendsMatch(f, b) /\ UpdateSoFar(b)
    BY <1>3, MeshAssumption DEF FluxInv
  <2>2. ListDone("ReceiveFluxCorrections", b)
    BY <1>1, <1>3 DEF Begin, ListDone, Deps, UpdateDeps, TasksOf
  <2>3. fluxMsg[f][b] # {}
    BY <1>3, <2>1, <2>2 DEF UpdateSoFar
  <2>4. TimesDone(t, b) = clk[r] - 1 /\ clk[r] \in Int
    BY <1>3 DEF TimesDone, Complete5, TypeOK
  <2> QED BY <2>1, <2>3, <2>4 DEF SendsMatch
<1>5. \A b \in Blocks : \A f \in Finer[b] : SendsMatch(f, b)'
  <2> SUFFICES ASSUME NEW b \in Blocks, NEW f \in Finer[b]
               PROVE  SendsMatch(f, b)'
    OBVIOUS
  <2>1. /\ f \in Blocks /\ SendsMatch(f, b)
        /\ TimesDone("LoadAndSendFluxCorrections", f)' =
             TimesDone("LoadAndSendFluxCorrections", f)
    BY <1>3, MeshAssumption DEF FluxInv
  <2>2. CASE b \in L
    <3>1. fluxMsg'[f][b] = {}
      BY <1>1, <2>1, <2>2
    <3>2. TimesDone(t, b)' = clk[r]
      BY <1>3, <1>4, <2>2 DEF TypeOK
    <3> QED BY <1>4, <2>1, <2>2, <3>1, <3>2 DEF SendsMatch
  <2>3. CASE b \notin L
    <3>1. TimesDone(t, b)' = TimesDone(t, b)
      BY <1>3, <2>3
    <3>2. fluxMsg'[f][b] = fluxMsg[f][b]
      BY <1>1, <2>1, <2>3
    <3> QED BY <2>1, <3>1, <3>2 DEF SendsMatch
  <2> QED BY <2>2, <2>3
<1>6. \A b \in Blocks : UpdateSoFar(b)'
  <2> SUFFICES ASSUME NEW b \in Blocks PROVE UpdateSoFar(b)'
    OBVIOUS
  <2>0. UpdateSoFar(b)
    BY DEF FluxInv
  <2>1. CASE b \in L
    <3>1. got(b) = {<<n, [lvl |-> clk[r], by |-> FluxOps]>> : n \in Finer[b]}
      BY <1>4, <2>1 DEF got
    <3>2. CompleteFluxes(flux[b], clk[r])
      BY <1>3, <2>1 DEF FluxInv, FluxesReady
    <3>3. Corrected(flux[b], b, clk[r])'
      BY <1>2, <1>3, <2>1, <3>1, <3>2 DEF Corrected, CompleteFluxes
    <3> QED
      BY <1>1, <1>3, <2>0, <2>1, <3>3
      DEF UpdateSoFar, Corrected, CompleteFluxes
  <2>2. CASE b \notin L
    <3>1. \A f \in Finer[b] : fluxMsg'[f][b] = fluxMsg[f][b]
      BY <1>1, <2>2, MeshAssumption
    <3>2. flux'[b] = flux[b]
      BY <1>2, <2>2
    <3>3. \A u : ListDone(u, b)' <=> ListDone(u, b)
      BY <1>3, <2>2
    <3> QED
      BY <1>1, <1>3, <2>0, <3>1, <3>2, <3>3
      DEF UpdateSoFar, Corrected, CompleteFluxes
  <2> QED BY <2>1, <2>2
<1>7. CorrectedFluxes'
  BY <1>1 DEF FluxInv, CorrectedFluxes
<1> QED BY <1>3, <1>5, <1>6, <1>7 DEF FluxInv

LEMMA DivergenceTasks ==
  ASSUME TypeOK, FluxInv, NEW r \in Ranks, NEW L,
         FluxDivergence(r, L) \/ AverageIndependentData(r, L)
  PROVE  FluxInv'
<1>1. PICK t \in {"FluxDivergence", "AverageIndependentData"} :
        /\ Begin(r, 5, t, L) /\ Complete(r, t, L)
        /\ flux' = flux /\ used' = used /\ fluxMsg' = fluxMsg
        /\ \A b \in Blocks : dudt'[b].flux =
             IF t = "FluxDivergence" /\ b \in L THEN flux[b] ELSE dudt[b].flux
  <2>1. CASE FluxDivergence(r, L)
    <3>1. \A b \in Blocks : dudt'[b].flux =
            IF b \in L THEN flux[b] ELSE dudt[b].flux
      BY <2>1 DEF FluxDivergence
    <3> QED BY <2>1, <3>1 DEF FluxDivergence, notes, mail
  <2>2. CASE AverageIndependentData(r, L)
    BY <2>2 DEF AverageIndependentData, rates, mail
  <2> QED BY <2>1, <2>2
<1>2. /\ L \in SUBSET Blocks /\ L \in Partitions
      /\ at[r] = 5 /\ clk' = clk /\ at' = at
      /\ \A x \in L : RankOf[x] = r
      /\ \A u : \A x \in Blocks :
           ListDone(u, x)' <=> ListDone(u, x) \/ (u = t /\ x \in L)
      /\ \A u : \A x \in Blocks : u # t => TimesDone(u, x)' = TimesDone(u, x)
      /\ \A x \in Blocks : FluxesSoFar(x)' /\ FluxesReady(x)'
  BY <1>1, UpdateTask
<1>3. \A b \in Blocks : \A f \in Finer[b] : SendsMatch(f, b)'
  BY <1>1, <1>2, MeshAssumption DEF FluxInv, SendsMatch
<1>4. \A b \in L : Corrected(dudt[b].flux, b, clk[r])'
  <2> SUFFICES ASSUME NEW b \in L PROVE Corrected(dudt[b].flux, b, clk[r])'
    OBVIOUS
  <2>1. b \in Blocks /\ RankOf[b] = r /\ UpdateSoFar(b)
    BY <1>2 DEF FluxInv
  <2>2. CASE t = "FluxDivergence"
    <3>1. ListDone("SetFluxCorrections", b)
      BY <1>1, <1>2, <2>1, <2>2 DEF Begin, ListDone, Deps, UpdateDeps, TasksOf
    <3>2. Corrected(flux[b], b, clk[r])
      BY <1>2, <2>1, <3>1 DEF UpdateSoFar
    <3> QED BY <1>1, <1>2, <2>1, <2>2, <3>2 DEF Corrected, CompleteFluxes
  <2>3. CASE t = "AverageIndependentData"
    <3>1. ListDone("FluxDivergence", b)
      BY <1>1, <1>2, <2>1, <2>3 DEF Begin, ListDone, Deps, UpdateDeps, TasksOf
    <3>2. Corrected(dudt[b].flux, b, clk[r])
      BY <1>2, <2>1, <3>1 DEF UpdateSoFar
    <3> QED BY <1>1, <1>2, <2>1, <2>3, <3>2 DEF Corrected, CompleteFluxes
  <2> QED BY <2>2, <2>3
<1>5. \A b \in Blocks : UpdateSoFar(b)'
  <2> SUFFICES ASSUME NEW b \in Blocks PROVE UpdateSoFar(b)'
    OBVIOUS
  <2>0. UpdateSoFar(b)
    BY DEF FluxInv
  <2>1. CASE b \in L
    <3>1. RankOf[b] = r /\ Corrected(dudt[b].flux, b, clk[r])'
      BY <1>2, <1>4, <2>1
    <3> QED
      BY <1>1, <1>2, <2>0, <3>1 DEF UpdateSoFar, Corrected, CompleteFluxes
  <2>2. CASE b \notin L
    BY <1>1, <1>2, <2>0, <2>2 DEF UpdateSoFar, Corrected, CompleteFluxes
  <2> QED BY <2>1, <2>2
<1>6. CorrectedFluxes'
  BY <1>1 DEF FluxInv, CorrectedFluxes
<1> QED BY <1>2, <1>3, <1>5, <1>6 DEF FluxInv

LEMMA UpdateDataTask ==
  ASSUME TypeOK, FluxInv, NEW r \in Ranks, NEW L, UpdateIndependentData(r, L)
  PROVE  FluxInv'
<1> DEFINE t == "UpdateIndependentData"
<1>1. /\ Begin(r, 5, t, L) /\ Complete(r, t, L)
      /\ flux' = flux /\ dudt' = dudt /\ fluxMsg' = fluxMsg
      /\ \A b \in Blocks : b \notin L => used'[b] = used[b]
      /\ \A b \in Blocks : b \in L =>
           used'[b].lvl = clk[r] /\ used'[b].rhs = dudt[b]
  BY DEF UpdateIndependentData, rates, mail
<1>2. /\ L \in SUBSET Blocks /\ L \in Partitions
      /\ at[r] = 5 /\ clk' = clk /\ at' = at
      /\ \A x \in L : RankOf[x] = r
      /\ \A u : \A x \in Blocks :
           ListDone(u, x)' <=> ListDone(u, x) \/ (u = t /\ x \in L)
      /\ \A u : \A x \in Blocks : u # t => TimesDone(u, x)' = TimesDone(u, x)
      /\ \A x \in Blocks : FluxesSoFar(x)' /\ FluxesReady(x)'
  BY <1>1, UpdateTask
<1>3. \A b \in Blocks : \A f \in Finer[b] : SendsMatch(f, b)'
  BY <1>1, <1>2, MeshAssumption DEF FluxInv, SendsMatch
<1>4. \A b \in Blocks : UpdateSoFar(b)'
  BY <1>1, <1>2 DEF FluxInv, UpdateSoFar, Corrected, CompleteFluxes
<1>5. \A b \in L : Corrected(dudt[b].flux, b, clk[r])
  <2> SUFFICES ASSUME NEW b \in L PROVE Corrected(dudt[b].flux, b, clk[r])
    OBVIOUS
  <2>1. b \in Blocks /\ RankOf[b] = r /\ UpdateSoFar(b)
    BY <1>2 DEF FluxInv
  <2>2. ListDone("AverageIndependentData", b)
    BY <1>1, <1>2, <2>1 DEF Begin, ListDone, Deps, UpdateDeps, TasksOf
  <2> QED BY <1>2, <2>1, <2>2 DEF UpdateSoFar
<1>6. CorrectedFluxes'
  BY <1>1, <1>5 DEF FluxInv, CorrectedFluxes, Corrected, CompleteFluxes
<1> QED BY <1>2, <1>3, <1>4, <1>6 DEF FluxInv

(* Going on to another region or step changes no block's place in the      *)
(* sequence of sends and receives.                                         *)
LEMMA RegionDone ==
  ASSUME TypeOK, NEW r \in Ranks, RegionComplete(r), NEW b \in Blocks,
         RankOf[b] = r
  PROVE  /\ at[r] = 5 => /\ ListDone("LoadAndSendFluxCorrections", b)
                         /\ ListDone("SetFluxCorrections", b)
         /\ at[r] = 2 => /\ BlockDone("CalculateFluxes", b)
                         /\ BlockDone("FluxCT", b)
                         /\ BlockDone("FixFluxes", b)
                         /\ MomentsActive => BlockDone("MomentCalculateFluxes", b)
<1>1. CASE at[r] = 5
  <2>1. PICK L \in Partitions : b \in L
    BY PartitionAssumption
  <2>2. L \in Lists(r, 5)
    BY <2>1, PartitionAssumption DEF Lists, PerBlock
  <2>3. {"LoadAndSendFluxCorrections", "SetFluxCorrections"} \subseteq
          TasksOf(5, clk[r])
    BY DEF TasksOf
  <2> QED BY <1>1, <2>1, <2>2, <2>3 DEF RegionComplete, ListDone
<1>2. CASE at[r] = 2
  <2>1. {b} \in Lists(r, 2)
    BY DEF Lists, PerBlock
  <2>2. /\ {"CalculateFluxes", "FluxCT", "FixFluxes"} \subseteq TasksOf(2, clk[r])
        /\ MomentsActive => "MomentCalculateFluxes" \in TasksOf(2, clk[r])
    BY DEF TasksOf
  <2>3. \A t \in TasksOf(2, clk[r]) : <<t, {b}>> \in done[r]
    BY <1>2, <2>1 DEF RegionComplete
  <2>4. b \in {b}
    OBVIOUS
  <2> QED BY <1>2, <2>2, <2>3, <2>4 DEF BlockDone
<1> QED BY <1>1, <1>2

LEMMA NextRegionStep ==
  ASSUME TypeOK, FluxInv, NEW r \in Ranks, NextRegion(r)
  PROVE  FluxInv'
<1> DEFINE newStage == at[r] = 9 /\ StageOf(clk[r]) < NStages
<1>1. /\ at[r] \in 1 .. 9 /\ RegionComplete(r)
      /\ at'[r] = IF newStage THEN 1 ELSE at[r] + 1
      /\ clk'[r] = IF newStage THEN clk[r] + 1 ELSE clk[r]
      /\ done'[r] = {}
      /\ \A q \in Ranks : q # r =>
           at'[q] = at[q] /\ clk'[q] = clk[q] /\ done'[q] = done[q]
      /\ flux' = flux /\ fluxMsg' = fluxMsg /\ dudt' = dudt /\ used' = used
  BY DEF NextRegion, TypeOK, StepEnd, rates, mail, notes
<1>2. \A b \in Blocks : RankOf[b] = r =>
        \A u : ~BlockDone(u, b)' /\ ~ListDone(u, b)'
  BY <1>1 DEF BlockDone, ListDone
<1>3. \A b \in Blocks : RankOf[b] # r =>
        \A u : /\ BlockDone(u, b)' <=> BlockDone(u, b)
               /\ ListDone(u, b)' <=> ListDone(u, b)
  BY <1>1, RankOfType DEF BlockDone, ListDone
<1>4. ASSUME NEW b \in Blocks,
             NEW u \in {"LoadAndSendFluxCorrections", "SetFluxCorrections"}
      PROVE  TimesDone(u, b)' = TimesDone(u, b)
  <2>1. CASE RankOf[b] = r
    <3>1. at[r] = 5 => ListDone(u, b)
      BY <1>1, <2>1, RegionDone
    <3> QED
      BY <1>1, <1>2, <2>1, <3>1 DEF TimesDone, Complete5, TypeOK
  <2>2. CASE RankOf[b] # r
    BY <1>1, <1>3, <2>2, RankOfType DEF TimesDone, Complete5
  <2> QED BY <2>1, <2>2
<1>5. \A b \in Blocks : \A f \in Finer[b] : SendsMatch(f, b)'
  BY <1>1, <1>4, MeshAssumption DEF FluxInv, SendsMatch
<1>6. ASSUME NEW b \in Blocks
      PROVE  FluxesSoFar(b)' /\ FluxesReady(b)' /\ UpdateSoFar(b)'
  <2>0. FluxesSoFar(b) /\ FluxesReady(b) /\ UpdateSoFar(b)
    BY DEF FluxInv
  <2>1. CASE RankOf[b] = r
    <3>1. FluxesSoFar(b)' /\ UpdateSoFar(b)'
      BY <1>1, <1>2, <2>0, <2>1 DEF FluxesSoFar, UpdateSoFar
    <3>2. CASE at[r] = 2
      <4>1. /\ BlockDone("CalculateFluxes", b) /\ BlockDone("FluxCT", b)
            /\ BlockDone("FixFluxes", b)
            /\ MomentsActive => BlockDone("MomentCalculateFluxes", b)
        BY <1>1, <2>1, <3>2, RegionDone
      <4>2. CompleteFluxes(flux[b], clk[r])
        BY <2>0, <2>1, <3>2, <4>1 DEF FluxesSoFar, FluxOps, CompleteFluxes
      <4> QED BY <1>1, <2>1, <3>1, <3>2, <4>2 DEF FluxesReady, CompleteFluxes
    <3>3. CASE at[r] # 2
      BY <1>1, <2>0, <2>1, <3>1, <3>3 DEF FluxesReady, CompleteFluxes
    <3> QED BY <3>2, <3>3
  <2>2. CASE RankOf[b] # r
    <3>1. /\ at'[RankOf[b]] = at[RankOf[b]]
          /\ clk'[RankOf[b]] = clk[RankOf[b]]
      BY <1>1, <2>2, RankOfType
    <3>2. FluxesSoFar(b)'
      BY <1>1, <1>3, <2>0, <2>2, <3>1 DEF FluxesSoFar
    <3>3. FluxesReady(b)'
      BY <1>1, <2>0, <3>1 DEF FluxesReady, CompleteFluxes
    <3>4. UpdateSoFar(b)'
      BY <1>1, <1>3, <2>0, <2>2, <3>1
      DEF UpdateSoFar, Corrected, CompleteFluxes
    <3> QED BY <3>2, <3>3, <3>4
  <2> QED BY <2>1, <2>2
<1>7. CorrectedFluxes'
  BY <1>1 DEF FluxInv, CorrectedFluxes
<1> QED BY <1>5, <1>6, <1>7 DEF FluxInv

LEMMA GlobalStep ==
  ASSUME TypeOK, FluxInv, SetGlobalTimeStep
  PROVE  FluxInv'
<1>1. /\ \A r \in Ranks : /\ at[r] = 10 /\ at'[r] = 1
                          /\ clk'[r] = clk[r] + 1 /\ clk[r] \in Int
                          /\ done'[r] = {}
      /\ flux' = flux /\ fluxMsg' = fluxMsg /\ dudt' = dudt /\ used' = used
  BY DEF SetGlobalTimeStep, StepEnd, TypeOK, rates, mail, notes
<1>2. \A b \in Blocks : \A u : TimesDone(u, b)' = TimesDone(u, b)
  BY <1>1, RankOfType DEF TimesDone, Complete5
<1>3. \A b \in Blocks : \A f \in Finer[b] : SendsMatch(f, b)'
  BY <1>1, <1>2, MeshAssumption DEF FluxInv, SendsMatch
<1>4. \A b \in Blocks : FluxesSoFar(b)' /\ FluxesReady(b)' /\ UpdateSoFar(b)'
  BY <1>1, RankOfType DEF FluxInv, FluxesSoFar, FluxesReady, UpdateSoFar
<1>5. CorrectedFluxes'
  BY <1>1 DEF FluxInv, CorrectedFluxes
<1> QED BY <1>3, <1>4, <1>5 DEF FluxInv

LEMMA FluxInvInit == Init => FluxInv
<1> SUFFICES ASSUME Init PROVE FluxInv
  OBVIOUS
<1>1. \A r \in Ranks : at[r] = 1 /\ clk[r] = 1 /\ done[r] = {}
  BY DEF Init
<1>2. \A b \in Blocks : flux[b] = NoFlux /\ used[b] = NoUpdate
  BY DEF Init
<1>3. \A b \in Blocks : FluxesSoFar(b) /\ FluxesReady(b) /\ UpdateSoFar(b)
  BY <1>1, <1>2, RankOfType DEF FluxesSoFar, FluxesReady, UpdateSoFar, NoFlux
<1>4. \A b \in Blocks : \A u : TimesDone(u, b) = 0
  BY <1>1, RankOfType DEF TimesDone, Complete5
<1>5. \A b \in Blocks : \A f \in Finer[b] : fluxMsg[f][b] = {}
  BY MeshAssumption DEF Init
<1>6. \A b \in Blocks : \A f \in Finer[b] : SendsMatch(f, b)
  BY <1>4, <1>5, MeshAssumption DEF SendsMatch
<1>7. CorrectedFluxes
  BY <1>2 DEF CorrectedFluxes, NoUpdate
<1> QED BY <1>3, <1>6, <1>7 DEF FluxInv

(* All other tasks, by partition and by block.                             *)
LEMMA OtherPartitionTasks ==
  ASSUME TypeOK, FluxInv, NEW r \in Ranks, NEW L \in Partitions
  PROVE  /\ StartReceiveBoundBufs(r, L) => FluxInv'
         /\ StartReceiveFluxCorrections(r, L) => FluxInv'
         /\ CalculateFluidSourceTerms(r, L) => FluxInv'
         /\ SumMdotPhi(r, L) => FluxInv'
         /\ ModifyNetField(r, L) => FluxInv'
         /\ SumData(r, L) => FluxInv'
         /\ FillDerivedMesh(r, L) => FluxInv'
         /\ C2PFixupMesh(r, L) => FluxInv'
         /\ RadC2PFixupMesh(r, L) => FluxInv'
         /\ ApplyFloorsMesh(r, L) => FluxInv'
         /\ MomentFluidSource(r, L) => FluxInv'
         /\ ApplyFloorsAgain(r, L) => FluxInv'
         /\ SendBoundBufs(r, L) => FluxInv'
         /\ ReceiveBoundBufs(r, L) => FluxInv'
         /\ SetBounds(r, L) => FluxInv'
         /\ CalculateFourForce(r, L) => FluxInv'
         /\ ApplyRadiationFourForce(r, L) => FluxInv'
<1>1. StartReceiveBoundBufs(r, L) => FluxInv'
  BY OtherTask DEF StartReceiveBoundBufs, Spoken, rates, mail, notes
<1>2. StartReceiveFluxCorrections(r, L) => FluxInv'
  BY OtherTask DEF StartReceiveFluxCorrections, Spoken, rates, mail, notes
<1>3. CalculateFluidSourceTerms(r, L) => FluxInv'
  BY OtherTask DEF CalculateFluidSourceTerms, Spoken, rates, mail, notes
<1>4. SumMdotPhi(r, L) => FluxInv'
  BY OtherTask DEF SumMdotPhi, Spoken, rates, mail, notes
<1>5. ModifyNetField(r, L) => FluxInv'
  BY OtherTask DEF ModifyNetField, Spoken, rates, mail, notes
<1>6. SumData(r, L) => FluxInv'
  <2> SUFFICES ASSUME SumData(r, L) PROVE FluxInv'
    OBVIOUS
  <2>1. \A b \in Blocks : dudt'[b].flux = dudt[b].flux
    BY DEF SumData, TypeOK, RhsType
  <2> QED BY <2>1, OtherTask DEF SumData, Spoken, mail, notes
<1>7. FillDerivedMesh(r, L) => FluxInv'
  BY OtherTask DEF FillDerivedMesh, Handle, Spoken, rates, mail, notes
<1>8. C2PFixupMesh(r, L) => FluxInv'
  BY OtherTask DEF C2PFixupMesh, Handle, Spoken, rates, mail, notes
<1>9. RadC2PFixupMesh(r, L) => FluxInv'
  BY OtherTask DEF RadC2PFixupMesh, Handle, Spoken, rates, mail, notes
<1>10. ApplyFloorsMesh(r, L) => FluxInv'
  BY OtherTask DEF ApplyFloorsMesh, Handle, Spoken, rates, mail, notes
<1>11. MomentFluidSource(r, L) => FluxInv'
  BY OtherTask DEF MomentFluidSource, Handle, Spoken, rates, mail, notes
<1>12. ApplyFloorsAgain(r, L) => FluxInv'
  BY OtherTask DEF ApplyFloorsAgain, Handle, Spoken, rates, mail, notes
<1>13. SendBoundBufs(r, L) => FluxInv'
  BY OtherTask DEF SendBoundBufs, Spoken, rates, mail, notes
<1>14. ReceiveBoundBufs(r, L) => FluxInv'
  BY OtherTask DEF ReceiveBoundBufs, Spoken, rates, mail, notes
<1>15. SetBounds(r, L) => FluxInv'
  BY OtherTask DEF SetBounds, Spoken, rates, mail, notes
<1>16. CalculateFourForce(r, L) => FluxInv'
  BY OtherTask DEF CalculateFourForce, Spoken, rates, mail, notes
<1>17. ApplyRadiationFourForce(r, L) => FluxInv'
  BY OtherTask DEF ApplyRadiationFourForce, Handle, Spoken, rates, mail, notes
<1> QED
  BY <1>1, <1>2, <1>3, <1>4, <1>5, <1>6, <1>7, <1>8, <1>9, <1>10, <1>11, <1>12, <1>13, <1>14, <1>15, <1>16, <1>17

LEMMA OtherBlockTasks ==
  ASSUME TypeOK, FluxInv, NEW r \in Ranks, NEW b \in Blocks
  PROVE  /\ ReconstructEdgeStates(r, b) => FluxInv'
         /\ MomentCalculateOpacities(r, b) => FluxInv'
         /\ CalculateGeometricSource(r, b) => FluxInv'
         /\ PrimitiveToConserved(r, b) => FluxInv'
         /\ EstimateTimestep(r, b) => FluxInv'
         /\ ApplyBC(r, b) => FluxInv'
         /\ ConvertBC(r, b) => FluxInv'
         /\ FillDerived(r, b) => FluxInv'
         /\ C2PFixup(r, b) => FluxInv'
         /\ RadC2PFixup(r, b) => FluxInv'
         /\ ApplyFloors(r, b) => FluxInv'
<1>1. ReconstructEdgeStates(r, b) => FluxInv'
  BY OtherTask DEF ReconstructEdgeStates, Spoken, rates, mail, notes
<1>2. MomentCalculateOpacities(r, b) => FluxInv'
  BY OtherTask DEF MomentCalculateOpacities, Spoken, rates, mail, notes
<1>3. CalculateGeometricSource(r, b) => FluxInv'
  BY OtherTask DEF CalculateGeometricSource, Spoken, rates, mail, notes
<1>4. PrimitiveToConserved(r, b) => FluxInv'
  BY OtherTask DEF PrimitiveToConserved, Spoken, rates, mail, notes
<1>5. EstimateTimestep(r, b) => FluxInv'
  BY OtherTask DEF EstimateTimestep, Spoken, rates, mail, notes
<1>6. ApplyBC(r, b) => FluxInv'
  BY OtherTask DEF ApplyBC, Handle, Spoken, rates, mail, notes
<1>7. ConvertBC(r, b) => FluxInv'
  BY OtherTask DEF ConvertBC, Handle, Spoken, rates, mail, notes
<1>8. FillDerived(r, b) => FluxInv'
  BY OtherTask DEF FillDerived, Handle, Spoken, rates, mail, notes
<1>9. C2PFixup(r, b) => FluxInv'
  BY OtherTask DEF C2PFixup, Handle, Spoken, rates, mail, notes
<1>10. RadC2PFixup(r, b) => FluxInv'
  BY OtherTask DEF RadC2PFixup, Handle, Spoken, rates, mail, notes
<1>11. ApplyFloors(r, b) => FluxInv'
  BY OtherTask DEF ApplyFloors, Handle, Spoken, rates, mail, notes
<1> QED
  BY <1>1, <1>2, <1>3, <1>4, <1>5, <1>6, <1>7, <1>8, <1>9, <1>10, <1>11

LEMMA FluxInvNext == TypeOK /\ FluxInv /\ [Next]_vars => FluxInv'
<1> SUFFICES ASSUME TypeOK, FluxInv, [Next]_vars PROVE FluxInv'
  OBVIOUS
<1>1. ASSUME NEW r \in Ranks, NEW L \in Partitions, PartitionTask(r, L)
      PROVE  FluxInv'
  BY <1>1, SendTask, ReceiveTask, SetTask, DivergenceTasks, UpdateDataTask,
     OtherPartitionTasks DEF PartitionTask
<1>2. ASSUME NEW r \in Ranks, NEW b \in Blocks, BlockTask(r, b)
      PROVE  FluxInv'
  BY <1>2, FluxTasks, OtherBlockTasks DEF BlockTask
<1>3. ASSUME UNCHANGED vars PROVE FluxInv'
  <2>1. /\ clk' = clk /\ at' = at /\ done' = done /\ flux' = flux
        /\ dudt' = dudt /\ fluxMsg' = fluxMsg /\ used' = used
    BY <1>3 DEF vars, control, rates, mail, notes
  <2>2. \A u : \A b \in Blocks :
          /\ BlockDone(u, b)' <=> BlockDone(u, b)
          /\ ListDone(u, b)' <=> ListDone(u, b)
    BY <2>1 DEF BlockDone, ListDone
  <2>3. \A u : \A b \in Blocks : TimesDone(u, b)' = TimesDone(u, b)
    BY <2>1, <2>2 DEF TimesDone, Complete5
  <2>4. \A b \in Blocks : FluxesSoFar(b)' /\ FluxesReady(b)'
    BY <2>1, <2>2 DEF FluxInv, FluxesSoFar, FluxesReady, CompleteFluxes
  <2>5. \A b \in Blocks : UpdateSoFar(b)'
    BY <2>1, <2>2 DEF FluxInv, UpdateSoFar, Corrected, CompleteFluxes
  <2>6. \A b \in Blocks : \A f \in Finer[b] : SendsMatch(f, b)'
    BY <2>1, <2>3, MeshAssumption DEF FluxInv, SendsMatch
  <2>7. CorrectedFluxes'
    BY <2>1 DEF FluxInv, CorrectedFluxes
  <2> QED BY <2>4, <2>5, <2>6, <2>7 DEF FluxInv
<1>4. CASE Next
  BY <1>1, <1>2, <1>3, <1>4, NextRegionStep, GlobalStep DEF Next, RankStep, Finish
<1>5. CASE UNCHANGED vars
  BY <1>3, <1>5
<1> QED BY <1>4, <1>5

(* The exchange of flux corrections stays matched with the update on every *)
(* mesh, however far ranks run apart.                                      *)
THEOREM FluxesMatched == Spec => []FluxInv
<1>1. Init => TypeOK /\ FluxInv
  BY InitType, FluxInvInit
<1>2. TypeOK /\ FluxInv /\ [Next]_vars => (TypeOK /\ FluxInv)'
  BY NextType, FluxInvNext
<1> QED BY <1>1, <1>2, PTL DEF Spec

(* Conservation at refinement boundaries (sync_region_3): no stage updates *)
(* a block with fluxes that lack a solver's part or FixFluxes, or without  *)
(* the correction of a finer neighbour, or with one of another stage.      *)
THEOREM FluxesCorrected == Spec => []CorrectedFluxes
<1>1. FluxInv => CorrectedFluxes
  BY DEF FluxInv
<1> QED BY <1>1, FluxesMatched, PTL

=============================================================================
