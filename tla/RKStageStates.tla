---------------------------- MODULE RKStageStates ----------------------------
(* What the fields of RKStage hold, for every mesh and any number of ranks *)
(* and stages.  The invariant says of one block, region by region, of which *)
(* level its primitives, containers and rates are and which handlers have  *)
(* worked on them.  All of it is the block's own but one part: that the    *)
(* ghost zones in flight to it are of the stage it waits for.              *)
EXTENDS RKStageFluxes

(* Time for the provers on a machine with other work to do *)
USE SMTT(20), ZenonT(40)

(* Task t is done for block b in the region its rank is at *)
Did(t, b) == \E L \in SUBSET Blocks : b \in L /\ <<t, L>> \in done[RankOf[b]]

(* Tasks are done for the region's own lists, after what they wait for *)
InOrder(r) ==
  \A t, L : <<t, L>> \in done[r] =>
    /\ t \in TasksOf(at[r], clk[r]) /\ L \in Lists(r, at[r])
    /\ \A d \in Deps(t) \intersect TasksOf(at[r], clk[r]) : <<d, L>> \in done[r]

----------------------------------------------------------------------------
(* Stamps                                                                  *)

(* With one stage the net field of every step stays in all stamps; with    *)
(* more, the last stage's base is lost to it (RKStageBaseLost)             *)
Traced == PhiEnforced /\ NStages = 1
BaseSafe == PhiEnforced => NStages = 1

NetIs(s, k) == Traced => s.net = 1 .. k
Made(s, k, h) == s.lvl = k /\ s.mag = k /\ s.by = h /\ NetIs(s, k)
Good(s, k) == Made(s, k, Handlers)
Whole(s, k) == s.lvl = k /\ s.mag = k /\ Handlers \subseteq s.by

(* Base states contain the cooling of their step, unless the net field's   *)
(* PrimitiveToConserved has overwritten it                                 *)
Split == CoolingFunction /\ ~PhiEnforced
IsBase(s, k) ==
  /\ Whole(s, StepStart(k))
  /\ Split /\ StepStart(k) > 0 => "cooling" \in s.by

----------------------------------------------------------------------------
(* The parts of the invariant, for block b; r is its rank, k its level and *)
(* g the region                                                            *)

(* The net field is added in the middle of the regions before the update   *)
NetLevel(b) ==
  LET r == RankOf[b] IN
  IF at[r] > 3 \/ (at[r] = 3 /\ Did("ModifyNetField", b)) THEN clk[r] ELSE clk[r] - 1

Started(b) ==
  LET r == RankOf[b]  k == clk[r] IN
  at[r] <= 5 =>
    /\ \A z \in ZonesOf(b) : Finished(prim[b][z], k - 1)
    /\ NetIs(prim[b][b], NetLevel(b))

BeforeUpdate(b) ==
  LET r == RankOf[b] IN
  at[r] < 5 \/ (at[r] = 5 /\ ~Did("UpdateIndependentData", b))

Old(b) ==
  LET r == RankOf[b]  k == clk[r]  s == cons[Sc0(k)][b][b] IN
  BeforeUpdate(b) =>
    /\ Whole(s, k - 1) /\ NetIs(s, NetLevel(b))
    /\ at[r] = 5 /\ Did("AverageIndependentData", b) /\ StageOf(k) > 1
         => "averaged" \in s.by

BaseKept(b) ==
  LET r == RankOf[b]  k == clk[r] IN
  BaseSafe =>
    /\ StageOf(k) < NStages \/ BeforeUpdate(b) => IsBase(cons[Base][b][b], k)
    /\ at[r] = 5 /\ Did("AverageIndependentData", b) => IsBase(avgd[b], k)

Read(b) ==
  LET r == RankOf[b]  k == clk[r] IN
  /\ \A s \in flux[b].from : Finished(s, flux[b].lvl - 1)
  /\ at[r] = 2 /\ Did("ReconstructEdgeStates", b) =>
       \A s \in edge[b] : Finished(s, k - 1)
  /\ at[r] = 2 /\ Did("MomentCalculateOpacities", b) =>
       \A s \in opac[b] : Finished(s, k - 1)

Sourced(b) ==
  LET r == RankOf[b]  k == clk[r] IN
  /\ at[r] \in 2 .. 5 \/ (at[r] = 1 /\ Did("CalculateFluidSourceTerms", b)) =>
       Finished(gsrc[b].fluid, k - 1)
  /\ MomentsActive /\ (at[r] \in 3 .. 5 \/ (at[r] = 2 /\ Did("CalculateGeometricSource", b))) =>
       Finished(gsrc[b].moment, k - 1)
  /\ at[r] = 5 /\ Did("FluxDivergence", b) =>
       dudt[b].src = NoSource \/ dudt[b].src = gsrc[b]

UsedWell(b) ==
  LET u == used[b] IN u.lvl > 0 =>
    /\ u.old.lvl = u.lvl - 1 /\ Handlers \subseteq u.old.by
    /\ StageOf(u.lvl) > 1 => "averaged" \in u.old.by
    /\ BaseSafe => IsBase(u.base, u.lvl)
    /\ u.rhs.src # NoSource =>
         /\ Finished(u.rhs.src.fluid, u.lvl - 1)
         /\ MomentsActive => Finished(u.rhs.src.moment, u.lvl - 1)

Updated(b) ==
  LET r == RankOf[b]  k == clk[r] IN
  \/ at[r] = 5 /\ Did("UpdateIndependentData", b)
  \/ at[r] = 6 /\ ~Did("FillDerivedMesh", b)
  => Made(cons[Sc1(k)][b][b], k, {})

(* How far the handlers of sync_region_fixup are *)
By6(b) ==
  IF Did("ApplyFloorsAgain", b) THEN Handlers
  ELSE IF Did("MomentFluidSource", b) THEN {"c2p", "fixup", "radfixup", "source"}
  ELSE IF Did("ApplyFloorsMesh", b) THEN {"c2p", "fixup", "radfixup", "floors"}
  ELSE IF Did("RadC2PFixupMesh", b) THEN {"c2p", "fixup", "radfixup"}
  ELSE IF Did("C2PFixupMesh", b) THEN {"c2p", "fixup"}
  ELSE {"c2p"}

LastFloors == IF MomentsActive THEN "ApplyFloorsAgain" ELSE "ApplyFloorsMesh"

FixedUp(b) ==
  LET r == RankOf[b]  k == clk[r] IN
  at[r] = 6 /\ Did("FillDerivedMesh", b) =>
    /\ Made(prim[b][b], k, By6(b))
    /\ Did(LastFloors, b) => cons[Sc1(k)][b][b] = prim[b][b]

Exchanged(b) ==
  LET r == RankOf[b]  k == clk[r]  c == Sc1(k) IN
  at[r] = 7 \/ (at[r] = 8 /\ ~Did("FillDerived", b)) =>
    /\ Good(cons[c][b][b], k) /\ Good(prim[b][b], k)
    /\ at[r] = 8 \/ Did("SetBounds", b) =>
         \A z \in Neighbors[b] : Good(cons[c][b][z], k)
    /\ at[r] = 8 /\ BcPrimitive /\ Did("ApplyBC", b) => Good(prim[b][Phys], k)
    /\ at[r] = 8 /\ (IF BcPrimitive THEN Did("ConvertBC", b) ELSE Did("ApplyBC", b)) =>
         Good(cons[c][b][Phys], k)
    /\ at[r] = 7 /\ Did("ReceiveBoundBufs", b) =>
         \/ Did("SetBounds", b)
         \/ \A n \in Blocks : b \in Neighbors[n] => bndMsg[n][b] # {}

Filled(b) ==
  LET r == RankOf[b]  k == clk[r] IN
  at[r] = 8 /\ Did("FillDerived", b) =>
    /\ \A z \in ZonesOf(b) :
         Made(prim[b][z], k, IF Did("ApplyFloors", b) THEN Handlers
                                                    ELSE Handlers \ {"floors"})
    /\ Did("ApplyFloors", b) => cons[Sc1(k)][b][b] = prim[b][b]
    /\ Did("EstimateTimestep", b) => Finished(newDt[b], k)

StageOver(b) ==
  LET r == RankOf[b]  k == clk[r] IN
  at[r] \in {9, 10} =>
    /\ \A z \in ZonesOf(b) : Good(prim[b][z], k)
    /\ Whole(cons[Sc1(k)][b][b], k) /\ NetIs(cons[Sc1(k)][b][b], k)
    /\ StageOf(k) = NStages => Finished(newDt[b], k)
    /\ Split /\ StageOf(k) = NStages /\ (at[r] = 10 \/ Did("ApplyRadiationFourForce", b))
         => "cooling" \in cons[Base][b][b].by

BlockInv(b) ==
  /\ Started(b) /\ Old(b) /\ BaseKept(b) /\ Read(b) /\ Sourced(b) /\ UsedWell(b)
  /\ Updated(b) /\ FixedUp(b) /\ Exchanged(b) /\ Filled(b) /\ StageOver(b)

----------------------------------------------------------------------------
(* Messages, sums and the whole                                            *)

(* How many stages have done task t of sync_region_4 for block b *)
Times(t, b) ==
  LET r == RankOf[b] IN
  IF at[r] > 7 \/ (at[r] = 7 /\ Did(t, b)) THEN clk[r] ELSE clk[r] - 1

(* Sends to a neighbour and what it sets alternate *)
BoundsMatch(b, n) ==
  LET sent == Times("SendBoundBufs", b)  set == Times("SetBounds", n) IN
  \/ sent = set /\ bndMsg[b][n] = {}
  \/ /\ sent = set + 1 /\ bndMsg[b][n] # {}
     /\ \A m \in bndMsg[b][n] : Good(m.cons, sent) /\ Good(m.prim, sent)

MailInv ==
  \A b, n \in Blocks : IF n \in Neighbors[b] THEN BoundsMatch(b, n)
                       ELSE bndMsg[b][n] = {}

SumsInv ==
  \A r \in Ranks : \A s \in sums[r] :
    PhiEnforced /\ (Traced => s.lvl = clk[r] - 1 /\ s.mag = s.lvl /\ s.net = 1 .. clk[r] - 1)

StepEnds(r) == at[r] = StepEnd => StageOf(clk[r]) = NStages

StateInv ==
  /\ \A r \in Ranks : InOrder(r) /\ StepEnds(r)
  /\ \A b \in Blocks : BlockInv(b)
  /\ MailInv
  /\ SumsInv

----------------------------------------------------------------------------
(* Levels and stamps                                                       *)

(* From one stage to the next, and from one step to the next.              *)
LEMMA LevelSteps ==
  ASSUME NEW k \in 1 .. LastLevel
  PROVE  /\ k \in Nat /\ StageOf(k) \in 1 .. NStages
         /\ Sc0(k) = Base <=> StageOf(k) = 1
         /\ Sc1(k) = Base <=> StageOf(k) = NStages
         /\ StepStart(k) \in Int /\ StepStart(k) <= k - 1
         /\ StageOf(k) < NStages =>
              /\ StageOf(k + 1) = StageOf(k) + 1 /\ Sc0(k + 1) = Sc1(k)
              /\ StepStart(k + 1) = StepStart(k)
         /\ StageOf(k) = NStages =>
              StageOf(k + 1) = 1 /\ Sc0(k + 1) = Sc1(k) /\ StepStart(k + 1) = k
         /\ NStages = 1 => StageOf(k) = 1
         /\ NStages # 1 => Sc0(k) # Sc1(k)
         /\ StageOf(k) = 1 => StepStart(k) = k - 1
<1> DEFINE m == (k - 1) % NStages
<1>1. k \in Nat /\ k >= 1 /\ NStages \in Nat \ {0}
  BY LevelType, StagesAssumption
<1>2. m \in 0 .. NStages - 1 /\ StageOf(k) = m + 1
  BY <1>1 DEF StageOf
<1> DEFINE d == (k - 1) \div NStages
<1>3. \E q \in Int : k - 1 = q * NStages + m
  <2>1. d \in Int /\ m \in Int /\ k - 1 = d * NStages + m
    BY <1>1
  <2> HIDE DEF d, m
  <2> QED BY <2>1
<1>4. PICK q \in Int : k - 1 = q * NStages + m
  BY <1>3
<1>n. q * NStages \in Int
  BY <1>1
<1> HIDE DEF m
<1>5. Sc0(k) = m /\ Sc1(k) = (m + 1) % NStages
  BY <1>2 DEF Sc0, Sc1
<1>6. StepStart(k) = k - 1 - m
  BY <1>1, <1>2 DEF StepStart
<1>7. StageOf(k + 1) = (k % NStages) + 1
  BY <1>1 DEF StageOf
<1>8. CASE m + 1 < NStages
  <2>1. k = q * NStages + (m + 1) /\ m + 1 \in 0 .. NStages - 1
    BY <1>1, <1>2, <1>4, <1>8, <1>n
  <2>2. k % NStages = m + 1
    BY <1>1, <2>1, ModUnique
  <2>3. (m + 1) % NStages = m + 1
    BY <1>1, <2>1
  <2>4. StageOf(k + 1) = m + 2 /\ StepStart(k + 1) = k - 1 - m
    BY <1>1, <1>2, <1>7, <2>2 DEF StepStart
  <2>5. Sc0(k + 1) = m + 1
    BY <1>2, <2>4 DEF Sc0
  <2> QED
    BY <1>1, <1>2, <1>5, <1>6, <1>8, <2>3, <2>4, <2>5 DEF Base
<1>9. CASE m + 1 = NStages
  <2>1. k = (q + 1) * NStages + 0 /\ 0 \in 0 .. NStages - 1
    BY <1>1, <1>2, <1>4, <1>9, <1>n
  <2>2. k % NStages = 0
    BY <1>1, <2>1, ModUnique
  <2>3. (m + 1) % NStages = 0
    BY <1>1, <1>9
  <2>4. StageOf(k + 1) = 1 /\ StepStart(k + 1) = k
    BY <1>1, <1>2, <1>7, <2>2 DEF StepStart
  <2>5. Sc0(k + 1) = 0
    BY <2>4 DEF Sc0
  <2> QED
    BY <1>1, <1>2, <1>5, <1>6, <1>9, <2>3, <2>4, <2>5 DEF Base
<1> QED BY <1>1, <1>2, <1>8, <1>9

(* What the handlers make of a stamp.                                      *)
LEMMA WorkedStamp ==
  ASSUME NEW s \in Stamp, NEW h \in AnyHandler, NEW k, NEW by, Made(s, k, by)
  PROVE  Made(Worked(s, h), k, (IF h = "floors" THEN by ELSE by \ {"floors"})
                               \union {h})
BY DEF Made, NetIs, Worked, Stamp

LEMMA CooledStamp ==
  ASSUME NEW s \in Stamp
  PROVE  /\ Cooled(s).lvl = s.lvl /\ Cooled(s).mag = s.mag
         /\ Cooled(s).by = s.by \union {"cooling"} /\ Cooled(s).net = s.net
BY DEF Cooled, Stamp

LEMMA AveragedStamp ==
  ASSUME NEW s \in Stamp, NEW x \in Stamp
  PROVE  /\ Averaged(s, x).lvl = s.lvl /\ Averaged(s, x).mag = s.mag
         /\ Averaged(s, x).by = s.by \union {"averaged"}
BY DEF Averaged, Stamp

LEMMA NetFieldStamp ==
  ASSUME NEW s \in Stamp, NEW x \in Stamp, NEW k
  PROVE  /\ NetFieldAdded(s, x, k).lvl = s.lvl
         /\ NetFieldAdded(s, x, k).mag = x.mag
         /\ NetFieldAdded(s, x, k).by = s.by
         /\ NetFieldAdded(s, x, k).net = x.net \union {k}
BY DEF NetFieldAdded, Stamp

(* The zones of a block, and the stamps in them.                           *)
LEMMA ZoneStamps ==
  ASSUME TypeOK, NEW b \in Blocks
  PROVE  /\ ZonesOf(b) \subseteq Zone /\ b \in ZonesOf(b) /\ Phys \in ZonesOf(b)
         /\ RankOf[b] \in Ranks /\ clk[RankOf[b]] \in 1 .. LastLevel
         /\ at[RankOf[b]] \in 1 .. 10
         /\ \A z \in Zone : prim[b][z] \in Stamp
         /\ \A c \in Containers, z \in Zone : cons[c][b][z] \in Stamp
BY MeshAssumption DEF ZonesOf, Zone, TypeOK, PrimType, ConsType, StepEnd

----------------------------------------------------------------------------
(* Completing a task                                                       *)

LEMMA OneTask ==
  ASSUME TypeOK, \A q \in Ranks : InOrder(q), NEW r \in Ranks, NEW g \in 1 .. 9,
         NEW t, NEW L, Begin(r, g, t, L), Complete(r, t, L)
  PROVE  /\ L \in SUBSET Blocks /\ at[r] = g /\ clk' = clk /\ at' = at
         /\ t \in TasksOf(g, clk[r])
         /\ \A x \in L : RankOf[x] = r /\ ~Did(t, x)
         /\ \A x \in L : \A d \in Deps(t) \intersect TasksOf(g, clk[r]) : Did(d, x)
         /\ \A u : \A x \in Blocks : Did(u, x)' <=> Did(u, x) \/ (u = t /\ x \in L)
         /\ \A q \in Ranks : InOrder(q)'
<1>1. /\ clk' = clk /\ at' = at
      /\ \A q \in Ranks : \A p : p \in done'[q] <=>
           p \in done[q] \/ (q = r /\ p = <<t, L>>)
  BY CompleteDone
<1>2. L \in SUBSET Blocks /\ at[r] = g /\ t \in TasksOf(g, clk[r]) /\ L \in Lists(r, g)
  BY PartitionAssumption DEF Begin, Lists
<1>3. \A x \in L : RankOf[x] = r
  BY DEF Begin, Lists
<1>4. \A x \in L : ~Did(t, x)
  <2> SUFFICES ASSUME NEW x \in L, Did(t, x) PROVE FALSE
    OBVIOUS
  <2>1. PICK M \in SUBSET Blocks : x \in M /\ <<t, M>> \in done[r]
    BY <1>3 DEF Did
  <2>2. M \in Lists(r, g)
    BY <1>2, <2>1 DEF InOrder
  <2>3. M = L
    <3>1. CASE PerBlock(g)
      BY <1>2, <2>1, <2>2, <3>1 DEF Lists
    <3>2. CASE ~PerBlock(g)
      <4>1. L \in Partitions /\ M \in Partitions
        BY <1>2, <2>2, <3>2 DEF Lists
      <4> QED BY <2>1, <4>1, PartitionAssumption
    <3> QED BY <3>1, <3>2
  <2> QED BY <2>1, <2>3 DEF Begin
<1>5. \A x \in L : \A d \in Deps(t) \intersect TasksOf(g, clk[r]) : Did(d, x)
  BY <1>2, <1>3 DEF Begin, Did
<1>6. \A u : \A x \in Blocks : Did(u, x)' <=> Did(u, x) \/ (u = t /\ x \in L)
  <2>1. \A u, M : \A x \in Blocks : x \in M =>
          (<<u, M>> \in done'[RankOf[x]] <=>
             <<u, M>> \in done[RankOf[x]] \/ (u = t /\ M = L))
    BY <1>1, <1>3, RankOfType
  <2> QED BY <1>2, <2>1 DEF Did
<1>7. ASSUME NEW q \in Ranks PROVE InOrder(q)'
  <2>1. InOrder(q)
    OBVIOUS
  <2>2. CASE q # r
    BY <1>1, <2>1, <2>2 DEF InOrder
  <2>3. CASE q = r
    <3> SUFFICES ASSUME NEW u, NEW M, <<u, M>> \in done'[r]
                 PROVE  /\ u \in TasksOf(at[r], clk[r]) /\ M \in Lists(r, at[r])
                        /\ \A d \in Deps(u) \intersect TasksOf(at[r], clk[r]) :
                             <<d, M>> \in done'[r]
      BY <1>1, <2>3 DEF InOrder, Lists
    <3>1. CASE <<u, M>> \in done[r]
      BY <1>1, <2>1, <2>3, <3>1 DEF InOrder
    <3>2. CASE u = t /\ M = L
      BY <1>1, <1>2, <3>2 DEF Begin
    <3> QED BY <1>1, <3>1, <3>2
  <2> QED BY <2>2, <2>3
<1> QED BY <1>1, <1>2, <1>3, <1>4, <1>5, <1>6, <1>7

(* What the tasks done for a block say of the other tasks.                 *)
LEMMA Before ==
  ASSUME NEW b \in Blocks, InOrder(RankOf[b]), NEW u, Did(u, b)
  PROVE  /\ u \in TasksOf(at[RankOf[b]], clk[RankOf[b]])
         /\ \A d \in Deps(u) \intersect TasksOf(at[RankOf[b]], clk[RankOf[b]]) :
              Did(d, b)
BY DEF InOrder, Did

LEMMA TasksInOrder ==
  ASSUME NEW b \in Blocks, InOrder(RankOf[b])
  PROVE  /\ at[RankOf[b]] = 2 =>
              /\ Did("MomentCalculateFluxes", b) => Did("MomentCalculateOpacities", b)
              /\ Did("MomentCalculateOpacities", b) => Did("ReconstructEdgeStates", b)
         /\ at[RankOf[b]] = 3 => (Did("ModifyNetField", b) => Did("SumMdotPhi", b))
         /\ at[RankOf[b]] = 5 =>
              /\ Did("UpdateIndependentData", b) => Did("AverageIndependentData", b)
              /\ Did("AverageIndependentData", b) => Did("FluxDivergence", b)
         /\ at[RankOf[b]] = 6 =>
              /\ Did("ApplyFloorsAgain", b) => MomentsActive /\ Did("MomentFluidSource", b)
              /\ Did("MomentFluidSource", b) => MomentsActive /\ Did("ApplyFloorsMesh", b)
              /\ Did("ApplyFloorsMesh", b) => Did("RadC2PFixupMesh", b)
              /\ Did("RadC2PFixupMesh", b) => Did("C2PFixupMesh", b)
              /\ Did("C2PFixupMesh", b) => Did("FillDerivedMesh", b)
         /\ at[RankOf[b]] = 8 =>
              /\ Did("EstimateTimestep", b) => Did("ApplyFloors", b)
              /\ Did("ApplyFloors", b) => Did("RadC2PFixup", b)
              /\ Did("RadC2PFixup", b) => Did("C2PFixup", b)
              /\ Did("C2PFixup", b) => Did("FillDerived", b)
              /\ Did("FillDerived", b) => Did("ConvertBC", b)
              /\ Did("ConvertBC", b) => Did("ApplyBC", b)
<1> DEFINE ts == TasksOf(at[RankOf[b]], clk[RankOf[b]])
<1>0. \A u : Did(u, b) =>
        u \in ts /\ \A d \in Deps(u) : d \in ts => Did(d, b)
  BY Before
<1>1. at[RankOf[b]] = 2 =>
        /\ Did("MomentCalculateFluxes", b) => Did("MomentCalculateOpacities", b)
        /\ Did("MomentCalculateOpacities", b) => Did("ReconstructEdgeStates", b)
  BY <1>0 DEF TasksOf, Deps, FluxDeps
<1>2. at[RankOf[b]] = 3 => (Did("ModifyNetField", b) => Did("SumMdotPhi", b))
  BY <1>0 DEF TasksOf, Deps, NetFieldDeps
<1>3. at[RankOf[b]] = 5 =>
        /\ Did("UpdateIndependentData", b) => Did("AverageIndependentData", b)
        /\ Did("AverageIndependentData", b) => Did("FluxDivergence", b)
  BY <1>0 DEF TasksOf, Deps, UpdateDeps
<1>4. at[RankOf[b]] = 6 =>
        /\ Did("ApplyFloorsAgain", b) => MomentsActive /\ Did("MomentFluidSource", b)
        /\ Did("MomentFluidSource", b) => MomentsActive /\ Did("ApplyFloorsMesh", b)
        /\ Did("ApplyFloorsMesh", b) => Did("RadC2PFixupMesh", b)
        /\ Did("RadC2PFixupMesh", b) => Did("C2PFixupMesh", b)
        /\ Did("C2PFixupMesh", b) => Did("FillDerivedMesh", b)
  BY <1>0 DEF TasksOf, Deps, FixupDeps
<1>5. at[RankOf[b]] = 8 =>
        /\ Did("EstimateTimestep", b) => Did("ApplyFloors", b)
        /\ Did("ApplyFloors", b) => Did("RadC2PFixup", b)
        /\ Did("RadC2PFixup", b) => Did("C2PFixup", b)
        /\ Did("C2PFixup", b) => Did("FillDerived", b)
        /\ Did("FillDerived", b) => Did("ConvertBC", b)
        /\ Did("ConvertBC", b) => Did("ApplyBC", b)
  BY <1>0 DEF TasksOf, Deps, BoundaryDeps
<1> QED BY <1>1, <1>2, <1>3, <1>4, <1>5

----------------------------------------------------------------------------
(* What a step leaves alone                                                *)

SameRates(x) ==
  /\ flux'[x] = flux[x] /\ edge'[x] = edge[x] /\ opac'[x] = opac[x]
  /\ gsrc'[x] = gsrc[x] /\ dudt'[x] = dudt[x]
SameNotes(x) == newDt'[x] = newDt[x] /\ avgd'[x] = avgd[x] /\ used'[x] = used[x]
SameFields(x) ==
  prim'[x] = prim[x] /\ \A c \in Containers : cons'[c][x] = cons[c][x]
SameState(x) == SameRates(x) /\ SameNotes(x) /\ SameFields(x)

(* A block that a step does not touch, except that it may fill its buffers *)
LEMMA BlockFrame ==
  ASSUME TypeOK, NEW b \in Blocks, BlockInv(b), SameState(b),
         clk'[RankOf[b]] = clk[RankOf[b]], at'[RankOf[b]] = at[RankOf[b]],
         \A u : Did(u, b)' <=> Did(u, b),
         \A n \in Blocks : bndMsg[n][b] # {} => bndMsg'[n][b] # {}
  PROVE  BlockInv(b)'
<1> DEFINE r == RankOf[b]
<1>0. /\ Sc0(clk[r]) \in Containers /\ Sc1(clk[r]) \in Containers
      /\ Base \in Containers
  BY ZoneStamps, StageType, StagesAssumption DEF Base, Containers
<1>a. /\ prim'[b] = prim[b] /\ cons'[Sc0(clk[r])][b] = cons[Sc0(clk[r])][b]
      /\ cons'[Sc1(clk[r])][b] = cons[Sc1(clk[r])][b]
      /\ cons'[Base][b] = cons[Base][b]
      /\ clk'[r] = clk[r] /\ at'[r] = at[r] /\ \A u : Did(u, b)' <=> Did(u, b)
  BY <1>0 DEF SameState, SameFields
<1>b. SameRates(b) /\ SameNotes(b)
  BY DEF SameState
<1>c. /\ Started(b) /\ Old(b) /\ BaseKept(b) /\ Read(b) /\ Sourced(b) /\ UsedWell(b)
      /\ Updated(b) /\ FixedUp(b) /\ Exchanged(b) /\ Filled(b) /\ StageOver(b)
  BY Zenon DEF BlockInv
<1>d. NetLevel(b)' = NetLevel(b) /\ (BeforeUpdate(b)' <=> BeforeUpdate(b))
  BY <1>a DEF NetLevel, BeforeUpdate
<1>1. Started(b)'
  BY <1>a, <1>c, <1>d DEF Started
<1>2. Old(b)'
  BY <1>a, <1>c, <1>d DEF Old
<1>3. BaseKept(b)'
  BY <1>a, <1>b, <1>c, <1>d DEF SameNotes, BaseKept
<1>4. Read(b)'
  BY <1>a, <1>b, <1>c DEF SameRates, Read
<1>5. Sourced(b)'
  BY <1>a, <1>b, <1>c DEF SameRates, Sourced
<1>6. UsedWell(b)'
  BY <1>b, <1>c DEF SameNotes, UsedWell
<1>7. Updated(b)'
  BY <1>a, <1>c DEF Updated
<1>8. FixedUp(b)'
  <2>1. By6(b)' = By6(b)
    BY <1>a DEF By6
  <2> QED BY <1>a, <1>c, <2>1 DEF FixedUp
<1>9. Exchanged(b)'
  <2>1. /\ \A z : Good(cons[Sc1(clk[r])][b][z], clk[r])' <=>
                 Good(cons[Sc1(clk[r])][b][z], clk[r])
        /\ \A z : Good(prim[b][z], clk[r])' <=> Good(prim[b][z], clk[r])
    BY <1>a
  <2> QED BY <1>a, <1>c, <2>1 DEF Exchanged
<1>10. Filled(b)'
  BY <1>a, <1>b, <1>c DEF SameNotes, Filled
<1>11. StageOver(b)'
  BY <1>a, <1>b, <1>c DEF SameNotes, StageOver
<1> QED
  BY <1>1, <1>2, <1>3, <1>4, <1>5, <1>6, <1>7, <1>8, <1>9, <1>10, <1>11 DEF BlockInv

(* The parts of the invariant that say nothing in a region.                *)
LEMMA EarlyParts ==
  ASSUME NEW b \in Blocks, at'[RankOf[b]] \in 1 .. 5
  PROVE  /\ FixedUp(b)' /\ Exchanged(b)' /\ Filled(b)' /\ StageOver(b)'
         /\ at'[RankOf[b]] < 5 => Updated(b)'
BY DEF Updated, FixedUp, Exchanged, Filled, StageOver

LEMMA LateParts ==
  ASSUME NEW b \in Blocks, at'[RankOf[b]] \in 6 .. 10
  PROVE  /\ Started(b)' /\ Old(b)' /\ Sourced(b)'
         /\ at'[RankOf[b]] # 6 => Updated(b)' /\ FixedUp(b)'
         /\ at'[RankOf[b]] \notin {7, 8} => Exchanged(b)'
         /\ at'[RankOf[b]] # 8 => Filled(b)'
         /\ at'[RankOf[b]] \notin {9, 10} => StageOver(b)'
BY DEF Started, Old, BeforeUpdate, Sourced, Updated, FixedUp, Exchanged, Filled, StageOver

(* A task of the regions after the update works on the new container.      *)
LEMMA LateTask ==
  ASSUME TypeOK, NEW b \in Blocks, BlockInv(b), SameRates(b),
         used'[b] = used[b], at[RankOf[b]] \in 6 .. 10,
         clk'[RankOf[b]] = clk[RankOf[b]], at'[RankOf[b]] = at[RankOf[b]],
         \A c \in Containers : c # Sc1(clk[RankOf[b]]) => cons'[c][b] = cons[c][b]
  PROVE  BaseKept(b)' /\ Read(b)' /\ UsedWell(b)'
<1>1. /\ Base \in Containers /\ clk[RankOf[b]] \in 1 .. LastLevel
      /\ StageOf(clk[RankOf[b]]) < NStages => Sc1(clk[RankOf[b]]) # Base
  BY ZoneStamps, LevelSteps, StagesAssumption DEF Base, Containers
<1>2. BaseKept(b)'
  BY <1>1 DEF BlockInv, BaseKept, BeforeUpdate, IsBase, Whole
<1>3. Read(b)' /\ UsedWell(b)'
  BY DEF BlockInv, SameRates, Read, UsedWell, IsBase, Whole, Finished
<1> QED BY <1>2, <1>3

(* Most tasks send no ghost zones and measure no Phi: what is left to show *)
(* is the invariant of the list's own blocks.                              *)
LEMMA TaskKeeps ==
  ASSUME TypeOK, StateInv, NEW r \in Ranks, NEW g \in 1 .. 9, NEW t, NEW L,
         Begin(r, g, t, L), Complete(r, t, L),
         t \notin {"SendBoundBufs", "SetBounds"}, bndMsg' = bndMsg,
         sums' = sums \/ SumsInv',
         \A x \in Blocks \ L : SameState(x), \A x \in L : BlockInv(x)'
  PROVE  StateInv'
<1>1. /\ L \in SUBSET Blocks /\ at[r] = g /\ clk' = clk /\ at' = at
      /\ \A x \in L : RankOf[x] = r
      /\ \A u : \A x \in Blocks : Did(u, x)' <=> Did(u, x) \/ (u = t /\ x \in L)
      /\ \A q \in Ranks : InOrder(q)'
  BY OneTask DEF StateInv
<1>2. \A q \in Ranks : StepEnds(q)'
  BY <1>1 DEF StateInv, StepEnds
<1>3. \A x \in Blocks : BlockInv(x)'
  <2> SUFFICES ASSUME NEW x \in Blocks, x \notin L PROVE BlockInv(x)'
    OBVIOUS
  <2>1. BlockInv(x) /\ \A u : Did(u, x)' <=> Did(u, x)
    BY <1>1 DEF StateInv
  <2> QED BY <1>1, <2>1, BlockFrame
<1>4. \A x \in Blocks, u \in {"SendBoundBufs", "SetBounds"} : Times(u, x)' = Times(u, x)
  BY <1>1 DEF Times
<1>5. MailInv'
  BY <1>4 DEF StateInv, MailInv, BoundsMatch, Good, Made, NetIs
<1>6. SumsInv'
  BY <1>1 DEF StateInv, SumsInv
<1> QED BY <1>1, <1>2, <1>3, <1>5, <1>6 DEF StateInv

(* The parts that a task of the regions up to the update leaves alone.     *)
Quiet(S, b) == \A u \in S : Did(u, b)' <=> Did(u, b)

LEMMA EarlyFrame ==
  ASSUME TypeOK, NEW b \in Blocks, BlockInv(b),
         clk'[RankOf[b]] = clk[RankOf[b]], at'[RankOf[b]] = at[RankOf[b]]
  PROVE  /\ prim'[b] = prim[b] /\ Quiet({"ModifyNetField"}, b) => Started(b)'
         /\ /\ cons'[Sc0(clk[RankOf[b]])][b] = cons[Sc0(clk[RankOf[b]])][b]
            /\ Quiet({"ModifyNetField", "AverageIndependentData",
                      "UpdateIndependentData"}, b)
            => Old(b)'
         /\ /\ cons'[Base][b] = cons[Base][b] /\ avgd'[b] = avgd[b]
            /\ Quiet({"AverageIndependentData", "UpdateIndependentData"}, b)
            => BaseKept(b)'
         /\ /\ flux'[b] = flux[b] /\ edge'[b] = edge[b] /\ opac'[b] = opac[b]
            /\ Quiet({"ReconstructEdgeStates", "MomentCalculateOpacities"}, b)
            => Read(b)'
         /\ /\ gsrc'[b] = gsrc[b] /\ dudt'[b] = dudt[b]
            /\ Quiet({"CalculateFluidSourceTerms", "CalculateGeometricSource",
                      "FluxDivergence"}, b)
            => Sourced(b)'
         /\ used'[b] = used[b] => UsedWell(b)'
         /\ /\ cons'[Sc1(clk[RankOf[b]])][b] = cons[Sc1(clk[RankOf[b]])][b]
            /\ Quiet({"UpdateIndependentData", "FillDerivedMesh"}, b)
            => Updated(b)'
<1>0. /\ Started(b) /\ Old(b) /\ BaseKept(b) /\ Read(b) /\ Sourced(b) /\ UsedWell(b)
      /\ Updated(b)
  BY Zenon DEF BlockInv
<1>1. prim'[b] = prim[b] /\ Quiet({"ModifyNetField"}, b) => Started(b)'
  <2>1. Quiet({"ModifyNetField"}, b) => NetLevel(b)' = NetLevel(b)
    BY DEF Quiet, NetLevel
  <2> QED BY <1>0, <2>1 DEF Quiet, Started
<1>2. /\ cons'[Sc0(clk[RankOf[b]])][b] = cons[Sc0(clk[RankOf[b]])][b]
      /\ Quiet({"ModifyNetField", "AverageIndependentData", "UpdateIndependentData"}, b)
      => Old(b)'
  <2>1. Quiet({"ModifyNetField", "AverageIndependentData", "UpdateIndependentData"}, b)
          => NetLevel(b)' = NetLevel(b) /\ (BeforeUpdate(b)' <=> BeforeUpdate(b))
    BY DEF Quiet, NetLevel, BeforeUpdate
  <2> QED BY <1>0, <2>1 DEF Quiet, Old
<1>3. /\ cons'[Base][b] = cons[Base][b] /\ avgd'[b] = avgd[b]
      /\ Quiet({"AverageIndependentData", "UpdateIndependentData"}, b)
      => BaseKept(b)'
  <2>1. Quiet({"AverageIndependentData", "UpdateIndependentData"}, b)
          => (BeforeUpdate(b)' <=> BeforeUpdate(b))
    BY DEF Quiet, BeforeUpdate
  <2> QED BY <1>0, <2>1 DEF Quiet, BaseKept
<1>4. /\ flux'[b] = flux[b] /\ edge'[b] = edge[b] /\ opac'[b] = opac[b]
      /\ Quiet({"ReconstructEdgeStates", "MomentCalculateOpacities"}, b)
      => Read(b)'
  BY <1>0 DEF Quiet, Read
<1>5. /\ gsrc'[b] = gsrc[b] /\ dudt'[b] = dudt[b]
      /\ Quiet({"CalculateFluidSourceTerms", "CalculateGeometricSource",
                "FluxDivergence"}, b)
      => Sourced(b)'
  BY <1>0 DEF Quiet, Sourced
<1>6. used'[b] = used[b] => UsedWell(b)'
  BY <1>0 DEF UsedWell
<1>7. /\ cons'[Sc1(clk[RankOf[b]])][b] = cons[Sc1(clk[RankOf[b]])][b]
      /\ Quiet({"UpdateIndependentData", "FillDerivedMesh"}, b)
      => Updated(b)'
  BY <1>0 DEF Quiet, Updated
<1> QED BY <1>1, <1>2, <1>3, <1>4, <1>5, <1>6, <1>7

(* Tasks of the first five regions that the invariant does not speak of.   *)
Spoken5 == {"CalculateFluidSourceTerms", "ReconstructEdgeStates",
            "MomentCalculateOpacities", "CalculateGeometricSource",
            "ModifyNetField", "FluxDivergence", "AverageIndependentData",
            "UpdateIndependentData", "FillDerivedMesh"}

(* What a task of these regions has to show of its list's blocks.          *)
LEMMA EarlyTask ==
  ASSUME TypeOK, StateInv, NEW r \in Ranks, NEW g \in 1 .. 5, NEW t, NEW L,
         Begin(r, g, t, L), Complete(r, t, L),
         t \notin {"SendBoundBufs", "SetBounds"}, bndMsg' = bndMsg,
         sums' = sums \/ SumsInv',
         \A x \in Blocks \ L : SameState(x),
         \A x \in L : /\ Started(x)' /\ Old(x)' /\ BaseKept(x)' /\ Read(x)'
                      /\ Sourced(x)' /\ UsedWell(x)' /\ (g = 5 => Updated(x)')
  PROVE  StateInv'
<1>1. L \in SUBSET Blocks /\ at[r] = g /\ at' = at /\ \A x \in L : RankOf[x] = r
  BY OneTask DEF StateInv
<1>2. \A x \in L : BlockInv(x)'
  BY <1>1, EarlyParts DEF BlockInv
<1> QED BY <1>2, TaskKeeps

LEMMA SilentTask ==
  ASSUME TypeOK, StateInv, NEW r \in Ranks, NEW g \in 1 .. 5, NEW t, NEW L,
         Begin(r, g, t, L), Complete(r, t, L),
         t \notin Spoken5 \union {"SendBoundBufs", "SetBounds"},
         bndMsg' = bndMsg, sums' = sums, \A x \in Blocks : SameState(x)
  PROVE  StateInv'
<1>1. /\ L \in SUBSET Blocks /\ clk' = clk /\ at' = at /\ at[r] = g
      /\ \A u : \A x \in Blocks : Did(u, x)' <=> Did(u, x) \/ (u = t /\ x \in L)
  BY OneTask DEF StateInv
<1>2. ASSUME NEW x \in L
      PROVE  /\ Started(x)' /\ Old(x)' /\ BaseKept(x)' /\ Read(x)'
             /\ Sourced(x)' /\ UsedWell(x)' /\ Updated(x)'
  <2>1. x \in Blocks /\ BlockInv(x) /\ SameState(x)
    BY <1>1 DEF StateInv
  <2>2. \A S \in SUBSET Spoken5 : Quiet(S, x)
    BY <1>1, <2>1 DEF Quiet
  <2>3. /\ Sc0(clk[RankOf[x]]) \in Containers /\ Sc1(clk[RankOf[x]]) \in Containers
        /\ Base \in Containers
    BY <2>1, ZoneStamps, StageType, StagesAssumption DEF Base, Containers
  <2> QED
    BY <1>1, <2>1, <2>2, <2>3, EarlyFrame
    DEF SameState, SameRates, SameNotes, SameFields, Spoken5
<1> QED BY <1>2, EarlyTask

----------------------------------------------------------------------------
(* The tasks of the first two regions: sources and fluxes                  *)

LEMMA SilentTasks ==
  ASSUME TypeOK, StateInv, NEW r \in Ranks, NEW L
  PROVE  /\ StartReceiveBoundBufs(r, L) => StateInv'
         /\ StartReceiveFluxCorrections(r, L) => StateInv'
         /\ LoadAndSendFluxCorrections(r, L) => StateInv'
         /\ ReceiveFluxCorrections(r, L) => StateInv'
<1>1. StartReceiveBoundBufs(r, L) => StateInv'
  BY SilentTask
  DEF StartReceiveBoundBufs, rates, notes, SameState, SameRates, SameNotes, SameFields, Spoken5
<1>2. StartReceiveFluxCorrections(r, L) => StateInv'
  BY SilentTask
  DEF StartReceiveFluxCorrections, rates, notes, SameState, SameRates, SameNotes, SameFields, Spoken5
<1>3. LoadAndSendFluxCorrections(r, L) => StateInv'
  BY SilentTask
  DEF LoadAndSendFluxCorrections, rates, notes, SameState, SameRates, SameNotes, SameFields, Spoken5
<1>4. ReceiveFluxCorrections(r, L) => StateInv'
  BY SilentTask
  DEF ReceiveFluxCorrections, rates, mail, notes, SameState, SameRates, SameNotes, SameFields, Spoken5
<1> QED BY <1>1, <1>2, <1>3, <1>4

(* Before the update every task of a list finds the complete result of the *)
(* stage before in all zones of its blocks.                                *)
LEMMA EarlyState ==
  ASSUME TypeOK, StateInv, NEW r \in Ranks, NEW g \in 1 .. 5, NEW t, NEW L,
         Begin(r, g, t, L), Complete(r, t, L), NEW b \in L
  PROVE  /\ b \in Blocks /\ RankOf[b] = r /\ at[r] = g /\ clk' = clk /\ at' = at
         /\ BlockInv(b) /\ ~Did(t, b) /\ InOrder(r)
         /\ \A d \in Deps(t) \intersect TasksOf(g, clk[r]) : Did(d, b)
         /\ \A u : Did(u, b)' <=> Did(u, b) \/ u = t
         /\ \A S : t \notin S => Quiet(S, b)
         /\ \A z \in ZonesOf(b) : Finished(prim[b][z], clk[r] - 1)
         /\ Finished(prim[b][b], clk[r] - 1)
         /\ Sc0(clk[r]) \in Containers /\ Sc1(clk[r]) \in Containers
         /\ Base \in Containers /\ clk[r] \in 1 .. LastLevel
<1>1. /\ b \in Blocks /\ RankOf[b] = r /\ at[r] = g /\ clk' = clk /\ at' = at
      /\ BlockInv(b) /\ ~Did(t, b) /\ InOrder(r)
      /\ \A d \in Deps(t) \intersect TasksOf(g, clk[r]) : Did(d, b)
      /\ \A u : Did(u, b)' <=> Did(u, b) \/ u = t
  BY OneTask DEF StateInv
<1>2. \A S : t \notin S => Quiet(S, b)
  BY <1>1 DEF Quiet
<1>3. \A z \in ZonesOf(b) : Finished(prim[b][z], clk[r] - 1)
  BY <1>1 DEF BlockInv, Started
<1>4. b \in ZonesOf(b) /\ clk[r] \in 1 .. LastLevel
  BY <1>1, ZoneStamps
<1>5. /\ Sc0(clk[r]) \in Containers /\ Sc1(clk[r]) \in Containers
      /\ Base \in Containers
  BY <1>4, StageType, StagesAssumption DEF Base, Containers
<1> QED BY <1>1, <1>2, <1>3, <1>4, <1>5

LEMMA CalculateFluidSourceTermsKeeps ==
  ASSUME TypeOK, StateInv, NEW r \in Ranks, NEW L, CalculateFluidSourceTerms(r, L)
  PROVE  StateInv'
<1> DEFINE t == "CalculateFluidSourceTerms"
<1>1. /\ Begin(r, 1, t, L) /\ Complete(r, t, L) /\ bndMsg' = bndMsg /\ sums' = sums
      /\ prim' = prim /\ cons' = cons /\ flux' = flux /\ edge' = edge /\ opac' = opac
      /\ dudt' = dudt /\ newDt' = newDt /\ avgd' = avgd /\ used' = used
      /\ \A b \in Blocks : b \notin L => gsrc'[b] = gsrc[b]
      /\ \A b \in Blocks : b \in L => gsrc'[b] = [gsrc[b] EXCEPT !.fluid = prim[b][b]]
  BY DEF CalculateFluidSourceTerms, mail, notes
<1>2. \A x \in Blocks \ L : SameState(x)
  BY <1>1 DEF SameState, SameRates, SameNotes, SameFields
<1>3. ASSUME NEW b \in L
      PROVE  /\ Started(b)' /\ Old(b)' /\ BaseKept(b)' /\ Read(b)'
             /\ Sourced(b)' /\ UsedWell(b)'
  <2>1. /\ b \in Blocks /\ RankOf[b] = r /\ at[r] = 1 /\ clk' = clk /\ at' = at
        /\ BlockInv(b) /\ \A S : t \notin S => Quiet(S, b)
        /\ Finished(prim[b][b], clk[r] - 1)
    BY <1>1, EarlyState
  <2>2. /\ Started(b)' /\ Old(b)' /\ BaseKept(b)' /\ Read(b)' /\ UsedWell(b)'
    BY <1>1, <2>1, EarlyFrame
  <2>3. gsrc'[b].fluid = prim[b][b]
    <3>1. gsrc'[b] = [gsrc[b] EXCEPT !.fluid = prim[b][b]]
      BY <1>1, <2>1
    <3>2. gsrc[b] \in SourceType
      BY <2>1, Zenon DEF TypeOK
    <3> QED BY <3>1, <3>2 DEF SourceType
  <2>4. Sourced(b)'
    BY <2>1, <2>3 DEF Sourced
  <2> QED BY <2>2, <2>4
<1> QED BY <1>1, <1>2, <1>3, EarlyTask

(* A task of the flux region changes its block's own rates only.           *)
LEMMA FluxRegionTask ==
  ASSUME TypeOK, StateInv, NEW r \in Ranks, NEW b \in Blocks, NEW t,
         Begin(r, 2, t, {b}), Complete(r, t, {b}),
         t \notin {"SendBoundBufs", "SetBounds", "ModifyNetField",
                   "AverageIndependentData", "UpdateIndependentData"},
         bndMsg' = bndMsg, sums' = sums, prim' = prim, cons' = cons,
         newDt' = newDt, avgd' = avgd, used' = used,
         \A x \in Blocks : x # b => SameRates(x),
         Read(b)', Sourced(b)'
  PROVE  StateInv'
<1>1. \A x \in Blocks \ {b} : SameState(x)
  BY DEF SameState, SameNotes, SameFields
<1>2. /\ RankOf[b] = r /\ clk' = clk /\ at' = at /\ BlockInv(b)
      /\ \A S : t \notin S => Quiet(S, b)
  BY EarlyState
<1>3. Started(b)' /\ Old(b)' /\ BaseKept(b)' /\ UsedWell(b)'
  BY <1>2, EarlyFrame
<1> QED BY <1>1, <1>3, EarlyTask

(* Fluxes are built from the result of the stage before: the solvers read  *)
(* primitives, edge states and opacities that all are of that state.       *)
LEMMA SolverKeeps ==
  ASSUME NEW f, NEW k, NEW op, NEW read, \A s \in read : Finished(s, k - 1),
         \A s \in f.from : Finished(s, f.lvl - 1)
  PROVE  LET w == Rewrite(f, k, op, read) IN \A s \in w.from : Finished(s, w.lvl - 1)
BY DEF Rewrite

LEMMA FluxRegionTasks ==
  ASSUME TypeOK, StateInv, NEW r \in Ranks, NEW b \in Blocks
  PROVE  /\ CalculateFluxes(r, b) => StateInv'
         /\ FluxCT(r, b) => StateInv'
         /\ ReconstructEdgeStates(r, b) => StateInv'
         /\ MomentCalculateOpacities(r, b) => StateInv'
         /\ MomentCalculateFluxes(r, b) => StateInv'
         /\ CalculateGeometricSource(r, b) => StateInv'
         /\ FixFluxes(r, b) => StateInv'
<1> DEFINE read == {prim[b][z] : z \in ZonesOf(b)}
<1>0. ASSUME NEW t, Begin(r, 2, t, {b}), Complete(r, t, {b})
      PROVE  /\ RankOf[b] = r /\ at[r] = 2 /\ clk' = clk /\ at' = at
             /\ BlockInv(b) /\ ~Did(t, b) /\ InOrder(r)
             /\ \A d \in Deps(t) \intersect TasksOf(2, clk[r]) : Did(d, b)
             /\ \A u : Did(u, b)' <=> Did(u, b) \/ u = t
             /\ \A S : t \notin S => Quiet(S, b)
             /\ \A s \in read : Finished(s, clk[r] - 1)
             /\ Finished(prim[b][b], clk[r] - 1)
  BY <1>0, EarlyState
<1>1. ASSUME CalculateFluxes(r, b) PROVE StateInv'
  <2> DEFINE t == "CalculateFluxes"
  <2>1. /\ Begin(r, 2, t, {b}) /\ Complete(r, t, {b})
        /\ bndMsg' = bndMsg /\ sums' = sums /\ prim' = prim /\ cons' = cons
        /\ newDt' = newDt /\ avgd' = avgd /\ used' = used
        /\ edge' = edge /\ opac' = opac /\ gsrc' = gsrc /\ dudt' = dudt
        /\ flux'[b] = Rewrite(flux[b], clk[r], "riemann", read)
        /\ \A x \in Blocks : x # b => SameRates(x)
    BY <1>1 DEF CalculateFluxes, mail, notes, SameRates, TypeOK
  <2>2. Sourced(b)'
    BY <1>0, <2>1, EarlyFrame
  <2>3. \A s \in flux'[b].from : Finished(s, flux'[b].lvl - 1)
    <3>1. \A s \in flux[b].from : Finished(s, flux[b].lvl - 1)
      BY <1>0, <2>1 DEF BlockInv, Read
    <3> QED BY <1>0, <2>1, <3>1, SolverKeeps
  <2>4. Read(b)'
    BY <1>0, <2>1, <2>3 DEF BlockInv, Read, Finished
  <2> QED BY <2>1, <2>2, <2>4, FluxRegionTask
<1>2. ASSUME FluxCT(r, b) PROVE StateInv'
  <2> DEFINE t == "FluxCT"
  <2>1. /\ Begin(r, 2, t, {b}) /\ Complete(r, t, {b})
        /\ bndMsg' = bndMsg /\ sums' = sums /\ prim' = prim /\ cons' = cons
        /\ newDt' = newDt /\ avgd' = avgd /\ used' = used
        /\ edge' = edge /\ opac' = opac /\ gsrc' = gsrc /\ dudt' = dudt
        /\ flux'[b] = Rewrite(flux[b], clk[r], "ct", {})
        /\ \A x \in Blocks : x # b => SameRates(x)
    BY <1>2 DEF FluxCT, mail, notes, SameRates, TypeOK
  <2>2. Sourced(b)'
    BY <1>0, <2>1, EarlyFrame
  <2>3. \A s \in flux'[b].from : Finished(s, flux'[b].lvl - 1)
    <3>1. \A s \in flux[b].from : Finished(s, flux[b].lvl - 1)
      BY <1>0, <2>1 DEF BlockInv, Read
    <3> QED BY <2>1, <3>1, SolverKeeps
  <2>4. Read(b)'
    BY <1>0, <2>1, <2>3 DEF BlockInv, Read, Finished
  <2> QED BY <2>1, <2>2, <2>4, FluxRegionTask
<1>3. ASSUME ReconstructEdgeStates(r, b) PROVE StateInv'
  <2> DEFINE t == "ReconstructEdgeStates"
  <2>1. /\ Begin(r, 2, t, {b}) /\ Complete(r, t, {b})
        /\ bndMsg' = bndMsg /\ sums' = sums /\ prim' = prim /\ cons' = cons
        /\ newDt' = newDt /\ avgd' = avgd /\ used' = used
        /\ flux' = flux /\ opac' = opac /\ gsrc' = gsrc /\ dudt' = dudt
        /\ edge'[b] = read
        /\ \A x \in Blocks : x # b => SameRates(x)
    BY <1>3 DEF ReconstructEdgeStates, mail, notes, SameRates, TypeOK
  <2>2. Sourced(b)'
    BY <1>0, <2>1, EarlyFrame
  <2>3. Read(b)'
    BY <1>0, <2>1 DEF BlockInv, Read, Finished
  <2> QED BY <2>1, <2>2, <2>3, FluxRegionTask
<1>4. ASSUME MomentCalculateOpacities(r, b) PROVE StateInv'
  <2> DEFINE t == "MomentCalculateOpacities"
  <2>1. /\ Begin(r, 2, t, {b}) /\ Complete(r, t, {b})
        /\ bndMsg' = bndMsg /\ sums' = sums /\ prim' = prim /\ cons' = cons
        /\ newDt' = newDt /\ avgd' = avgd /\ used' = used
        /\ flux' = flux /\ edge' = edge /\ gsrc' = gsrc /\ dudt' = dudt
        /\ opac'[b] = read
        /\ \A x \in Blocks : x # b => SameRates(x)
    BY <1>4 DEF MomentCalculateOpacities, mail, notes, SameRates, TypeOK
  <2>2. Sourced(b)'
    BY <1>0, <2>1, EarlyFrame
  <2>3. Read(b)'
    BY <1>0, <2>1 DEF BlockInv, Read, Finished
  <2> QED BY <2>1, <2>2, <2>3, FluxRegionTask
<1>5. ASSUME MomentCalculateFluxes(r, b) PROVE StateInv'
  <2> DEFINE t == "MomentCalculateFluxes"
  <2>1. /\ Begin(r, 2, t, {b}) /\ Complete(r, t, {b})
        /\ bndMsg' = bndMsg /\ sums' = sums /\ prim' = prim /\ cons' = cons
        /\ newDt' = newDt /\ avgd' = avgd /\ used' = used
        /\ edge' = edge /\ opac' = opac /\ gsrc' = gsrc /\ dudt' = dudt
        /\ flux'[b] = Rewrite(flux[b], clk[r], "moment", edge[b] \union opac[b])
        /\ \A x \in Blocks : x # b => SameRates(x)
    BY <1>5 DEF MomentCalculateFluxes, mail, notes, SameRates, TypeOK
  <2>2. Sourced(b)'
    BY <1>0, <2>1, EarlyFrame
  <2>3. Did("MomentCalculateOpacities", b) /\ Did("ReconstructEdgeStates", b)
    <3>1. t \in TasksOf(2, clk[r])
      BY <2>1 DEF Begin
    <3>2. "MomentCalculateOpacities" \in Deps(t) \intersect TasksOf(2, clk[r])
      BY <3>1 DEF Deps, FluxDeps, TasksOf
    <3>3. Did("MomentCalculateOpacities", b)
      BY <1>0, <2>1, <3>2
    <3> QED BY <1>0, <2>1, <3>3, TasksInOrder
  <2>4. \A s \in edge[b] \union opac[b] : Finished(s, clk[r] - 1)
    BY <1>0, <2>1, <2>3 DEF BlockInv, Read
  <2>5. \A s \in flux'[b].from : Finished(s, flux'[b].lvl - 1)
    <3>1. \A s \in flux[b].from : Finished(s, flux[b].lvl - 1)
      BY <1>0, <2>1 DEF BlockInv, Read
    <3> QED BY <2>1, <2>4, <3>1, SolverKeeps
  <2>6. Read(b)'
    <3>1. /\ RankOf[b] = r /\ clk' = clk /\ at' = at /\ Read(b)
          /\ \A u : Did(u, b)' <=> Did(u, b) \/ u = t
      BY <1>0, <2>1 DEF BlockInv
    <3> QED BY <2>1, <2>5, <3>1 DEF Read, Finished
  <2> QED BY <2>1, <2>2, <2>6, FluxRegionTask
<1>6. ASSUME CalculateGeometricSource(r, b) PROVE StateInv'
  <2> DEFINE t == "CalculateGeometricSource"
  <2>1. /\ Begin(r, 2, t, {b}) /\ Complete(r, t, {b})
        /\ bndMsg' = bndMsg /\ sums' = sums /\ prim' = prim /\ cons' = cons
        /\ newDt' = newDt /\ avgd' = avgd /\ used' = used
        /\ flux' = flux /\ edge' = edge /\ opac' = opac /\ dudt' = dudt
        /\ gsrc'[b] = [gsrc[b] EXCEPT !.moment = prim[b][b]]
        /\ \A x \in Blocks : x # b => SameRates(x)
    BY <1>6 DEF CalculateGeometricSource, mail, notes, SameRates, TypeOK
  <2>2. gsrc'[b].fluid = gsrc[b].fluid /\ gsrc'[b].moment = prim[b][b]
    BY <2>1 DEF TypeOK, SourceType
  <2>3. Sourced(b)'
    BY <1>0, <2>1, <2>2 DEF BlockInv, Sourced, Finished
  <2>4. Read(b)'
    BY <1>0, <2>1, EarlyFrame
  <2> QED BY <2>1, <2>3, <2>4, FluxRegionTask
<1>7. ASSUME FixFluxes(r, b) PROVE StateInv'
  <2> DEFINE t == "FixFluxes"
  <2>1. /\ Begin(r, 2, t, {b}) /\ Complete(r, t, {b})
        /\ bndMsg' = bndMsg /\ sums' = sums /\ prim' = prim /\ cons' = cons
        /\ newDt' = newDt /\ avgd' = avgd /\ used' = used
        /\ edge' = edge /\ opac' = opac /\ gsrc' = gsrc /\ dudt' = dudt
        /\ flux'[b] = [flux[b] EXCEPT !.by = @ \union {"fix"}]
        /\ \A x \in Blocks : x # b => SameRates(x)
    BY <1>7 DEF FixFluxes, mail, notes, SameRates, TypeOK
  <2>2. Sourced(b)'
    BY <1>0, <2>1, EarlyFrame
  <2>3. flux'[b].lvl = flux[b].lvl /\ flux'[b].from = flux[b].from
    BY <2>1 DEF TypeOK, FluxType
  <2>4. Read(b)'
    BY <1>0, <2>1, <2>3 DEF BlockInv, Read, Finished
  <2> QED BY <2>1, <2>2, <2>4, FluxRegionTask
<1> QED BY <1>1, <1>2, <1>3, <1>4, <1>5, <1>6, <1>7

----------------------------------------------------------------------------
(* The net magnetic field                                                  *)

LEMMA SumMdotPhiKeeps ==
  ASSUME TypeOK, StateInv, NEW r \in Ranks, NEW L, SumMdotPhi(r, L)
  PROVE  StateInv'
<1> DEFINE t == "SumMdotPhi"
<1>1. /\ Begin(r, 3, t, L) /\ Complete(r, t, L) /\ bndMsg' = bndMsg
      /\ prim' = prim /\ cons' = cons /\ flux' = flux /\ edge' = edge /\ opac' = opac
      /\ gsrc' = gsrc /\ dudt' = dudt /\ newDt' = newDt /\ avgd' = avgd /\ used' = used
      /\ sums' = IF PhiEnforced /\ StageOf(clk[r]) = 1
                 THEN [sums EXCEPT ![r] =
                         @ \union {cons[Sc1(clk[r])][b][b] : b \in L}]
                 ELSE sums
  BY DEF SumMdotPhi, rates, mail, notes
<1>2. \A x \in Blocks : SameState(x)
  BY <1>1 DEF SameState, SameRates, SameNotes, SameFields
<1>3. ASSUME NEW b \in L
      PROVE  /\ Started(b)' /\ Old(b)' /\ BaseKept(b)' /\ Read(b)'
             /\ Sourced(b)' /\ UsedWell(b)'
  <2>1. /\ b \in Blocks /\ RankOf[b] = r /\ clk' = clk /\ at' = at
        /\ BlockInv(b) /\ \A S : t \notin S => Quiet(S, b)
    BY <1>1, EarlyState
  <2> QED BY <1>1, <2>1, EarlyFrame
<1>4. ASSUME NEW b \in L, PhiEnforced
      PROVE  Traced => LET s == cons[Sc1(clk[r])][b][b] IN
                         s.lvl = clk[r] - 1 /\ s.mag = s.lvl /\ s.net = 1 .. clk[r] - 1
  <2>1. /\ b \in Blocks /\ RankOf[b] = r /\ at[r] = 3 /\ BlockInv(b)
        /\ ~Did(t, b) /\ InOrder(r) /\ clk[r] \in 1 .. LastLevel
    BY <1>1, EarlyState
  <2>2. ~Did("ModifyNetField", b)
    BY <2>1, TasksInOrder
  <2>3. NetLevel(b) = clk[r] - 1
    BY <2>1, <2>2 DEF NetLevel
  <2>4. Whole(cons[Sc0(clk[r])][b][b], clk[r] - 1)
        /\ NetIs(cons[Sc0(clk[r])][b][b], clk[r] - 1)
    BY <2>1, <2>3 DEF BlockInv, Old, BeforeUpdate
  <2>5. Traced => Sc0(clk[r]) = Sc1(clk[r])
    BY <2>1, LevelSteps DEF Traced
  <2> QED BY <2>4, <2>5 DEF Whole, NetIs
<1>5. SumsInv'
  <2> SUFFICES ASSUME NEW q \in Ranks, NEW s \in sums'[q]
               PROVE  /\ PhiEnforced
                      /\ Traced => s.lvl = clk[q] - 1 /\ s.mag = s.lvl /\ s.net = 1 .. clk[q] - 1
    BY <1>1, CompleteDone DEF SumsInv
  <2>1. CASE s \in sums[q]
    BY <2>1 DEF StateInv, SumsInv
  <2>2. CASE s \notin sums[q]
    <3>1. q = r /\ PhiEnforced /\ \E b \in L : s = cons[Sc1(clk[r])][b][b]
      BY <1>1, <2>2 DEF TypeOK
    <3> QED BY <1>4, <3>1
  <2> QED BY <2>1, <2>2
<1> QED BY <1>1, <1>2, <1>3, <1>5, EarlyTask

(* The net field's update of the last container is harmless where the      *)
(* stage reads another one; with one stage it is the state itself.         *)
LEMMA ModifyNetFieldKeeps ==
  ASSUME TypeOK, StateInv, NEW r \in Ranks, NEW L, ModifyNetField(r, L)
  PROVE  StateInv'
<1> DEFINE t == "ModifyNetField"
           k == clk[r]
           c == Sc1(k)
<1>1. /\ Begin(r, 3, t, L) /\ Complete(r, t, L) /\ bndMsg' = bndMsg /\ sums' = sums
      /\ flux' = flux /\ edge' = edge /\ opac' = opac
      /\ gsrc' = gsrc /\ dudt' = dudt /\ newDt' = newDt /\ avgd' = avgd /\ used' = used
  BY DEF ModifyNetField, rates, mail, notes
<1>c. c \in Containers /\ k \in 1 .. LastLevel
  BY StageType DEF TypeOK
<1>2. /\ \A x \in Blocks : x \notin L => SameFields(x)
      /\ \A x \in Blocks, d \in Containers : d # c => cons'[d][x] = cons[d][x]
      /\ \A x \in Blocks, z \in Zone : z # x =>
           prim'[x][z] = prim[x][z] /\ cons'[c][x][z] = cons[c][x][z]
      /\ \A x \in L : x \in Blocks => IF PhiEnforced
           THEN /\ prim'[x][x] = NetFieldAdded(prim[x][x], prim[x][x], k)
                /\ cons'[c][x][x] = NetFieldAdded(cons[c][x][x], prim[x][x], k)
           ELSE prim'[x] = prim[x] /\ cons'[c][x] = cons[c][x]
  <2>1. CASE PhiEnforced
    <3>1. /\ prim' = [b \in Blocks |-> IF b \in L
                        THEN [prim[b] EXCEPT ![b] = NetFieldAdded(@, @, k)]
                        ELSE prim[b]]
          /\ cons' = [cons EXCEPT ![c] = [b \in Blocks |-> IF b \in L
                        THEN [cons[c][b] EXCEPT ![b] =
                                NetFieldAdded(@, prim[b][b], k)]
                        ELSE cons[c][b]]]
      BY <2>1 DEF ModifyNetField
    <3>2. /\ \A d \in Containers : d # c => cons'[d] = cons[d]
          /\ cons'[c] = [b \in Blocks |-> IF b \in L
                        THEN [cons[c][b] EXCEPT ![b] =
                                NetFieldAdded(@, prim[b][b], k)]
                        ELSE cons[c][b]]
      BY <1>c, <3>1 DEF TypeOK, ConsType
    <3>3. /\ \A x \in Blocks : DOMAIN prim[x] = Zone /\ DOMAIN cons[c][x] = Zone
          /\ \A x \in Blocks : x \in Zone
      BY <1>c DEF TypeOK, PrimType, ConsType, Zone
    <3> HIDE DEF k, c
    <3>4. \A x \in Blocks : x \notin L => SameFields(x)
      BY <3>1, <3>2 DEF SameFields
    <3>5. \A x \in Blocks, z \in Zone : z # x =>
           prim'[x][z] = prim[x][z] /\ cons'[c][x][z] = cons[c][x][z]
      BY <3>1, <3>2, <3>3
    <3>6. \A x \in L : x \in Blocks =>
            /\ prim'[x][x] = NetFieldAdded(prim[x][x], prim[x][x], k)
            /\ cons'[c][x][x] = NetFieldAdded(cons[c][x][x], prim[x][x], k)
      BY <3>1, <3>2, <3>3
    <3> QED BY <2>1, <3>2, <3>4, <3>5, <3>6
  <2>2. CASE ~PhiEnforced
    <3>1. prim' = prim /\ cons' = cons
      BY <2>2 DEF ModifyNetField
    <3> QED BY <2>2, <3>1 DEF SameFields
  <2> QED BY <2>1, <2>2
<1>3. \A x \in Blocks \ L : SameState(x)
  BY <1>1, <1>2 DEF SameState, SameRates, SameNotes
<1>4. ASSUME NEW b \in L
      PROVE  /\ Started(b)' /\ Old(b)' /\ BaseKept(b)' /\ Read(b)'
             /\ Sourced(b)' /\ UsedWell(b)'
  <2>1. /\ b \in Blocks /\ RankOf[b] = r /\ at[r] = 3 /\ clk' = clk /\ at' = at
        /\ BlockInv(b) /\ ~Did(t, b) /\ Did(t, b)'
        /\ \A S : t \notin S => Quiet(S, b)
        /\ \A z \in ZonesOf(b) : Finished(prim[b][z], k - 1)
        /\ Finished(prim[b][b], k - 1)
        /\ Sc0(k) \in Containers /\ Base \in Containers
    BY <1>1, EarlyState
  <2>2. Read(b)' /\ Sourced(b)' /\ UsedWell(b)'
    BY <1>1, <2>1, EarlyFrame
  <2>n. NetLevel(b) = k - 1 /\ NetLevel(b)' = k
    BY <2>1 DEF NetLevel
  <2>z. /\ ZonesOf(b) \subseteq Zone
        /\ prim[b][b] \in Stamp /\ cons[c][b][b] \in Stamp
    BY <1>c, <2>1, ZoneStamps DEF ZonesOf
  <2>3. Finished(prim'[b][b], k - 1) /\ NetIs(prim'[b][b], k)
    <3>1. CASE PhiEnforced
      <4>1. prim'[b][b] = NetFieldAdded(prim[b][b], prim[b][b], k)
        BY <1>2, <2>1, <3>1
      <4>2. /\ prim'[b][b].lvl = prim[b][b].lvl /\ prim'[b][b].mag = prim[b][b].mag
            /\ prim'[b][b].by = prim[b][b].by
            /\ prim'[b][b].net = prim[b][b].net \union {k}
        BY <2>z, <4>1, NetFieldStamp
      <4>3. Traced => prim[b][b].net = 1 .. k - 1
        BY <2>1, <2>n DEF BlockInv, Started, NetIs
      <4>4. (1 .. k - 1) \union {k} = 1 .. k
        BY <1>c, LevelSteps
      <4> QED BY <2>1, <4>2, <4>3, <4>4 DEF Finished, NetIs
    <3>2. CASE ~PhiEnforced
      BY <1>2, <2>1, <3>2 DEF NetIs, Traced
    <3> QED BY <3>1, <3>2
  <2>4. Started(b)'
    BY <1>2, <2>1, <2>3, <2>n, <2>z DEF Started, Finished, NetIs
  <2>5. /\ Whole(cons[Sc0(k)][b][b], k - 1)
        /\ BaseSafe => IsBase(cons[Base][b][b], k)
    BY <2>1 DEF BlockInv, Old, BeforeUpdate, BaseKept
  <2>6. ASSUME PhiEnforced, NStages = 1
        PROVE  /\ c = Base /\ Sc0(k) = Base /\ StepStart(k) = k - 1
               /\ Whole(cons'[c][b][b], k - 1) /\ NetIs(cons'[c][b][b], k)
    <3>1. c = Base /\ Sc0(k) = Base /\ StepStart(k) = k - 1
      BY <1>c, <2>6, LevelSteps
    <3>2. cons'[c][b][b] = NetFieldAdded(cons[c][b][b], prim[b][b], k)
      BY <1>2, <2>1, <2>6
    <3>3. prim'[b][b] = NetFieldAdded(prim[b][b], prim[b][b], k)
      BY <1>2, <2>1, <2>6
    <3>4. /\ cons'[c][b][b].lvl = cons[c][b][b].lvl
          /\ cons'[c][b][b].mag = prim[b][b].mag
          /\ cons'[c][b][b].by = cons[c][b][b].by
          /\ cons'[c][b][b].net = prim[b][b].net \union {k}
      BY <2>z, <3>2, NetFieldStamp
    <3>5. prim'[b][b].net = prim[b][b].net \union {k}
      BY <2>z, <3>3, NetFieldStamp
    <3> QED
      BY <2>1, <2>3, <2>5, <3>1, <3>4, <3>5 DEF Whole, NetIs, Finished
  <2>7. Old(b)'
    <3>1. CASE PhiEnforced /\ NStages = 1
      BY <2>1, <2>6, <2>n, <3>1 DEF Old, Whole, NetIs
    <3>2. CASE PhiEnforced /\ NStages # 1
      <4>1. cons'[Sc0(k)][b] = cons[Sc0(k)][b]
        BY <1>2, <1>c, <2>1, <3>2, LevelSteps
      <4> QED BY <2>1, <2>5, <3>2, <4>1 DEF Old, Whole, NetIs, Traced
    <3>3. CASE ~PhiEnforced
      <4>1. cons'[Sc0(k)][b] = cons[Sc0(k)][b]
        BY <1>2, <2>1, <3>3
      <4> QED BY <2>1, <2>5, <3>3, <4>1 DEF Old, Whole, NetIs, Traced
    <3> QED BY <3>1, <3>2, <3>3
  <2>8. BaseKept(b)'
    <3>1. CASE PhiEnforced /\ NStages = 1
      BY <2>1, <2>6, <3>1 DEF BaseKept, IsBase, Whole, Split
    <3>2. CASE PhiEnforced /\ NStages # 1
      BY <3>2 DEF BaseKept, BaseSafe
    <3>3. CASE ~PhiEnforced
      <4>1. cons'[Base][b] = cons[Base][b]
        BY <1>2, <2>1, <3>3
      <4> QED BY <1>1, <2>1, <4>1, EarlyFrame
    <3> QED BY <3>1, <3>2, <3>3
  <2> QED BY <2>2, <2>4, <2>7, <2>8
<1> QED BY <1>1, <1>3, <1>4, EarlyTask

LEMMA PrimitiveToConservedKeeps ==
  ASSUME TypeOK, StateInv, NEW r \in Ranks, NEW b \in Blocks, PrimitiveToConserved(r, b)
  PROVE  StateInv'
<1> DEFINE t == "PrimitiveToConserved"
           k == clk[r]
           c == Sc1(k)
<1>1. /\ Begin(r, 4, t, {b}) /\ Complete(r, t, {b}) /\ bndMsg' = bndMsg /\ sums' = sums
      /\ prim' = prim /\ flux' = flux /\ edge' = edge /\ opac' = opac
      /\ gsrc' = gsrc /\ dudt' = dudt /\ newDt' = newDt /\ avgd' = avgd /\ used' = used
      /\ cons' = [cons EXCEPT ![c][b] = prim[b]]
  BY DEF PrimitiveToConserved, rates, mail, notes
<1>2. /\ RankOf[b] = r /\ at[r] = 4 /\ clk' = clk /\ at' = at
      /\ BlockInv(b) /\ \A S : t \notin S => Quiet(S, b)
      /\ Finished(prim[b][b], k - 1)
      /\ Sc0(k) \in Containers /\ c \in Containers /\ Base \in Containers
      /\ k \in 1 .. LastLevel
  BY <1>1, EarlyState
<1>3. /\ cons'[c][b] = prim[b]
      /\ \A x \in Blocks \ {b} : SameFields(x)
      /\ \A d \in Containers : d # c => cons'[d][b] = cons[d][b]
  BY <1>1, <1>2 DEF TypeOK, ConsType, SameFields
<1>4. \A x \in Blocks \ {b} : SameState(x)
  BY <1>1, <1>3 DEF SameState, SameRates, SameNotes
<1>5. PhiEnforced
  BY <1>1 DEF Begin, TasksOf
<1>6. Started(b)' /\ Read(b)' /\ Sourced(b)' /\ UsedWell(b)'
  BY <1>1, <1>2, EarlyFrame
<1>7. NetIs(prim[b][b], k) /\ NetLevel(b) = k
  BY <1>2 DEF BlockInv, Started, NetLevel
<1>8. Old(b)' /\ BaseKept(b)'
  <2>1. CASE NStages = 1
    <3>1. c = Base /\ Sc0(k) = Base /\ StepStart(k) = k - 1
      BY <1>2, <2>1, LevelSteps
    <3>2. Whole(cons'[Base][b][b], k - 1) /\ NetIs(cons'[Base][b][b], k)
      BY <1>2, <1>3, <1>7, <3>1 DEF Finished, Whole, NetIs
    <3>3. NetLevel(b)' = k
      BY <1>2 DEF NetLevel
    <3>4. Old(b)'
      BY <1>2, <3>1, <3>2, <3>3 DEF Old, Whole, NetIs
    <3>5. BaseKept(b)'
      BY <1>2, <1>5, <3>1, <3>2 DEF BaseKept, IsBase, Whole, Split
    <3> QED BY <3>4, <3>5
  <2>2. CASE NStages # 1
    <3>1. cons'[Sc0(k)][b] = cons[Sc0(k)][b]
      BY <1>2, <1>3, <2>2, LevelSteps
    <3>2. Old(b)'
      BY <1>2, <3>1, EarlyFrame
    <3>3. BaseKept(b)'
      BY <1>5, <2>2 DEF BaseKept, BaseSafe
    <3> QED BY <3>2, <3>3
  <2> QED BY <2>1, <2>2
<1> QED BY <1>1, <1>4, <1>6, <1>8, EarlyTask

----------------------------------------------------------------------------
(* The update                                                              *)

LEMMA CorrectionTasks ==
  ASSUME TypeOK, StateInv, NEW r \in Ranks, NEW L
  PROVE  /\ SetFluxCorrections(r, L) => StateInv'
         /\ FluxDivergence(r, L) => StateInv'
         /\ SumData(r, L) => StateInv'
<1>0. ASSUME NEW t, Begin(r, 5, t, L), Complete(r, t, L), NEW b \in L
      PROVE  /\ b \in Blocks /\ RankOf[b] = r /\ at[r] = 5 /\ clk' = clk /\ at' = at
             /\ BlockInv(b) /\ \A S : t \notin S => Quiet(S, b)
             /\ \A u : Did(u, b)' <=> Did(u, b) \/ u = t
  BY <1>0, EarlyState
<1>1. ASSUME SetFluxCorrections(r, L) PROVE StateInv'
  <2> DEFINE t == "SetFluxCorrections"
  <2>1. /\ Begin(r, 5, t, L) /\ Complete(r, t, L) /\ bndMsg' = bndMsg /\ sums' = sums
        /\ prim' = prim /\ cons' = cons /\ edge' = edge /\ opac' = opac
        /\ gsrc' = gsrc /\ dudt' = dudt /\ newDt' = newDt /\ avgd' = avgd /\ used' = used
        /\ \A x \in Blocks : x \notin L => flux'[x] = flux[x]
        /\ \A x \in Blocks : \E c : x \in L => flux'[x] = [flux[x] EXCEPT !.corr = c]
    BY <1>1 DEF SetFluxCorrections, notes
  <2>2. \A x \in Blocks \ L : SameState(x)
    BY <2>1 DEF SameState, SameRates, SameNotes, SameFields
  <2>3. ASSUME NEW b \in L
        PROVE  /\ Started(b)' /\ Old(b)' /\ BaseKept(b)' /\ Read(b)'
               /\ Sourced(b)' /\ UsedWell(b)' /\ Updated(b)'
    <3>1. /\ Started(b)' /\ Old(b)' /\ BaseKept(b)' /\ Sourced(b)' /\ UsedWell(b)'
          /\ Updated(b)'
      BY <1>0, <2>1, EarlyFrame
    <3>2. /\ b \in Blocks /\ RankOf[b] = r /\ at[r] = 5 /\ clk' = clk /\ at' = at
          /\ BlockInv(b)
      BY <1>0, <2>1
    <3>3. PICK c : flux'[b] = [flux[b] EXCEPT !.corr = c]
      BY <2>1, <3>2
    <3>t. flux[b] \in FluxType
      BY <3>2 DEF TypeOK
    <3>f. flux'[b].from = flux[b].from /\ flux'[b].lvl = flux[b].lvl
      BY <3>3, <3>t DEF FluxType
    <3>4. Read(b)'
      BY <3>2, <3>f DEF BlockInv, Read, Finished
    <3> QED BY <3>1, <3>4
  <2> QED BY <2>1, <2>2, <2>3, EarlyTask
<1>2. ASSUME FluxDivergence(r, L) PROVE StateInv'
  <2> DEFINE t == "FluxDivergence"
  <2>1. /\ Begin(r, 5, t, L) /\ Complete(r, t, L) /\ bndMsg' = bndMsg /\ sums' = sums
        /\ prim' = prim /\ cons' = cons /\ flux' = flux /\ edge' = edge /\ opac' = opac
        /\ gsrc' = gsrc /\ newDt' = newDt /\ avgd' = avgd /\ used' = used
        /\ \A x \in Blocks : x \notin L => dudt'[x] = dudt[x]
        /\ \A x \in Blocks : x \in L => dudt'[x].src = NoSource
    BY <1>2 DEF FluxDivergence, mail, notes
  <2>2. \A x \in Blocks \ L : SameState(x)
    BY <2>1 DEF SameState, SameRates, SameNotes, SameFields
  <2>3. ASSUME NEW b \in L
        PROVE  /\ Started(b)' /\ Old(b)' /\ BaseKept(b)' /\ Read(b)'
               /\ Sourced(b)' /\ UsedWell(b)' /\ Updated(b)'
    <3>1. /\ Started(b)' /\ Old(b)' /\ BaseKept(b)' /\ Read(b)' /\ UsedWell(b)'
          /\ Updated(b)'
      BY <1>0, <2>1, EarlyFrame
    <3>2. /\ b \in Blocks /\ RankOf[b] = r /\ at[r] = 5 /\ clk' = clk /\ at' = at
          /\ Sourced(b)
      BY <1>0, <2>1 DEF BlockInv
    <3>3. Sourced(b)'
      BY <2>1, <3>2 DEF Sourced, Finished
    <3> QED BY <3>1, <3>3
  <2> QED BY <2>1, <2>2, <2>3, EarlyTask
<1>3. ASSUME SumData(r, L) PROVE StateInv'
  <2> DEFINE t == "SumData"
  <2>1. /\ Begin(r, 5, t, L) /\ Complete(r, t, L) /\ bndMsg' = bndMsg /\ sums' = sums
        /\ prim' = prim /\ cons' = cons /\ flux' = flux /\ edge' = edge /\ opac' = opac
        /\ gsrc' = gsrc /\ newDt' = newDt /\ avgd' = avgd /\ used' = used
        /\ \A x \in Blocks : x \notin L => dudt'[x] = dudt[x]
        /\ \A x \in Blocks : x \in L => dudt'[x] = [dudt[x] EXCEPT !.src = gsrc[x]]
    BY <1>3 DEF SumData, mail, notes
  <2>2. \A x \in Blocks \ L : SameState(x)
    BY <2>1 DEF SameState, SameRates, SameNotes, SameFields
  <2>3. ASSUME NEW b \in L
        PROVE  /\ Started(b)' /\ Old(b)' /\ BaseKept(b)' /\ Read(b)'
               /\ Sourced(b)' /\ UsedWell(b)' /\ Updated(b)'
    <3>1. /\ Started(b)' /\ Old(b)' /\ BaseKept(b)' /\ Read(b)' /\ UsedWell(b)'
          /\ Updated(b)'
      BY <1>0, <2>1, EarlyFrame
    <3>2. /\ b \in Blocks /\ RankOf[b] = r /\ at[r] = 5 /\ clk' = clk /\ at' = at
          /\ Sourced(b)
      BY <1>0, <2>1 DEF BlockInv
    <3>t. dudt[b] \in RhsType /\ dudt'[b] = [dudt[b] EXCEPT !.src = gsrc[b]]
      BY <2>1, <3>2 DEF TypeOK
    <3>3. dudt'[b].src = gsrc[b]
      BY <3>t DEF RhsType
    <3>4. Sourced(b)'
      BY <2>1, <3>2, <3>3 DEF Sourced, Finished
    <3> QED BY <3>1, <3>4
  <2> QED BY <2>1, <2>2, <2>3, EarlyTask
<1> QED BY <1>1, <1>2, <1>3

LEMMA AverageKeeps ==
  ASSUME TypeOK, StateInv, NEW r \in Ranks, NEW L, AverageIndependentData(r, L)
  PROVE  StateInv'
<1> DEFINE t == "AverageIndependentData"
           k == clk[r]
           c == Sc0(k)
<1>1. /\ Begin(r, 5, t, L) /\ Complete(r, t, L) /\ bndMsg' = bndMsg /\ sums' = sums
      /\ prim' = prim /\ flux' = flux /\ edge' = edge /\ opac' = opac
      /\ gsrc' = gsrc /\ dudt' = dudt /\ newDt' = newDt /\ used' = used
      /\ \A x \in Blocks : avgd'[x] = IF x \in L THEN cons[Base][x][x] ELSE avgd[x]
      /\ cons' = IF c = Base THEN cons
                 ELSE [cons EXCEPT ![c] = [b \in Blocks |-> IF b \in L
                         THEN [cons[c][b] EXCEPT ![b] = Averaged(@, cons[Base][b][b])]
                         ELSE cons[c][b]]]
  BY DEF AverageIndependentData, rates, mail
<1>c. c \in Containers /\ Base \in Containers /\ k \in 1 .. LastLevel
  BY StageType, StagesAssumption DEF TypeOK, Base, Containers
<1>2. /\ \A x \in Blocks : x \notin L => SameFields(x)
      /\ \A x \in Blocks, d \in Containers : d # c \/ c = Base => cons'[d][x] = cons[d][x]
      /\ \A x \in Blocks : x \in L /\ c # Base =>
           cons'[c][x][x] = Averaged(cons[c][x][x], cons[Base][x][x])
  <2> HIDE DEF k, c
  <2>1. CASE c = Base
    BY <1>1, <2>1 DEF SameFields
  <2>2. CASE c # Base
    <3>1. /\ \A d \in Containers : d # c => cons'[d] = cons[d]
          /\ cons'[c] = [b \in Blocks |-> IF b \in L
                         THEN [cons[c][b] EXCEPT ![b] = Averaged(@, cons[Base][b][b])]
                         ELSE cons[c][b]]
      BY <1>1, <1>c, <2>2 DEF TypeOK, ConsType
    <3>2. \A x \in Blocks : DOMAIN cons[c][x] = Zone /\ x \in Zone
      BY <1>c DEF TypeOK, ConsType, Zone
    <3>3. \A x \in Blocks : x \notin L => SameFields(x)
      BY <1>1, <3>1 DEF SameFields
    <3>4. \A x \in Blocks : x \in L =>
            cons'[c][x][x] = Averaged(cons[c][x][x], cons[Base][x][x])
      BY <3>1, <3>2
    <3> QED BY <2>2, <3>1, <3>3, <3>4
  <2> QED BY <2>1, <2>2
<1>3. \A x \in Blocks \ L : SameState(x)
  BY <1>1, <1>2 DEF SameState, SameRates, SameNotes
<1>4. ASSUME NEW b \in L
      PROVE  /\ Started(b)' /\ Old(b)' /\ BaseKept(b)' /\ Read(b)'
             /\ Sourced(b)' /\ UsedWell(b)' /\ Updated(b)'
  <2>1. /\ b \in Blocks /\ RankOf[b] = r /\ at[r] = 5 /\ clk' = clk /\ at' = at
        /\ BlockInv(b) /\ ~Did(t, b) /\ InOrder(r)
        /\ \A S : t \notin S => Quiet(S, b)
        /\ \A u : Did(u, b)' <=> Did(u, b) \/ u = t
    BY <1>1, EarlyState
  <2>2. ~Did("UpdateIndependentData", b) /\ ~Did("UpdateIndependentData", b)'
    BY <2>1, TasksInOrder
  <2>3. Started(b)' /\ Read(b)' /\ Sourced(b)' /\ UsedWell(b)'
    BY <1>1, <2>1, EarlyFrame
  <2>4. Updated(b)'
    BY <2>1, <2>2 DEF Updated
  <2>5. /\ NetLevel(b) = k /\ NetLevel(b)' = k
        /\ Whole(cons[c][b][b], k - 1) /\ NetIs(cons[c][b][b], k)
        /\ BaseSafe => IsBase(cons[Base][b][b], k)
    BY <2>1, <2>2 DEF BlockInv, NetLevel, Old, BaseKept, BeforeUpdate
  <2>6. Old(b)'
    <3>1. CASE c = Base
      <4>1. StageOf(k) = 1 /\ cons'[c][b][b] = cons[c][b][b]
        BY <1>2, <1>c, <2>1, <3>1, LevelSteps
      <4>2. ~(StageOf(k) > 1)
        BY <4>1
      <4> QED BY <2>1, <2>5, <4>1, <4>2 DEF Old, Whole, NetIs
    <3>2. CASE c # Base
      <4>1. cons[c][b][b] \in Stamp /\ cons[Base][b][b] \in Stamp
        BY <1>c, <2>1, ZoneStamps DEF ZonesOf
      <4>2. /\ cons'[c][b][b].lvl = cons[c][b][b].lvl
            /\ cons'[c][b][b].mag = cons[c][b][b].mag
            /\ cons'[c][b][b].by = cons[c][b][b].by \union {"averaged"}
        BY <1>2, <2>1, <3>2, <4>1, AveragedStamp
      <4>3. ~Traced
        BY <1>c, <3>2, LevelSteps DEF Traced
      <4>4. /\ Whole(cons'[c][b][b], k - 1) /\ "averaged" \in cons'[c][b][b].by
            /\ NetIs(cons'[c][b][b], k)
        BY <2>5, <4>2, <4>3 DEF Whole, NetIs
      <4> QED BY <2>1, <2>5, <4>3, <4>4 DEF Old, Whole, NetIs
    <3> QED BY <3>1, <3>2
  <2>7. cons'[Base][b] = cons[Base][b] /\ avgd'[b] = cons[Base][b][b]
    BY <1>1, <1>2, <1>c, <2>1
  <2>8. BaseKept(b)'
    BY <2>1, <2>5, <2>7 DEF BaseKept, IsBase, Whole
  <2> QED BY <2>3, <2>4, <2>6, <2>8
<1> QED BY <1>1, <1>3, <1>4, EarlyTask

LEMMA UpdateKeeps ==
  ASSUME TypeOK, StateInv, NEW r \in Ranks, NEW L, UpdateIndependentData(r, L)
  PROVE  StateInv'
<1> DEFINE t == "UpdateIndependentData"
           k == clk[r]
           c == Sc1(k)
           old(b) == cons[Sc0(k)][b][b]
<1>1. /\ Begin(r, 5, t, L) /\ Complete(r, t, L) /\ bndMsg' = bndMsg /\ sums' = sums
      /\ prim' = prim /\ flux' = flux /\ edge' = edge /\ opac' = opac
      /\ gsrc' = gsrc /\ dudt' = dudt /\ newDt' = newDt /\ avgd' = avgd
      /\ \A x \in Blocks : used'[x] = IF x \in L
           THEN [lvl |-> k, old |-> old(x), base |-> avgd[x], rhs |-> dudt[x]]
           ELSE used[x]
      /\ cons' = [cons EXCEPT ![c] = [b \in Blocks |-> IF b \in L
                    THEN [z \in Zone |-> IF z = b
                            THEN [lvl |-> k, mag |-> k, by |-> {}, net |-> old(b).net]
                            ELSE Blank]
                    ELSE cons[c][b]]]
  BY DEF UpdateIndependentData, rates, mail
<1>c. c \in Containers /\ Base \in Containers /\ k \in 1 .. LastLevel
  BY StageType, StagesAssumption DEF TypeOK, Base, Containers
<1>2. /\ \A x \in Blocks : x \notin L => SameFields(x)
      /\ \A x \in Blocks, d \in Containers : d # c => cons'[d][x] = cons[d][x]
      /\ \A x \in Blocks : x \in L =>
           cons'[c][x][x] = [lvl |-> k, mag |-> k, by |-> {}, net |-> old(x).net]
  <2> HIDE DEF k, c, old
  <2>1. /\ \A d \in Containers : d # c => cons'[d] = cons[d]
        /\ cons'[c] = [b \in Blocks |-> IF b \in L
                    THEN [z \in Zone |-> IF z = b
                            THEN [lvl |-> k, mag |-> k, by |-> {}, net |-> old(b).net]
                            ELSE Blank]
                    ELSE cons[c][b]]
    BY <1>1, <1>c DEF TypeOK, ConsType
  <2>2. \A x \in Blocks : x \in Zone
    BY DEF Zone
  <2>3. \A x \in Blocks : x \notin L => SameFields(x)
    BY <1>1, <2>1 DEF SameFields
  <2> QED BY <2>1, <2>2, <2>3
<1>3. \A x \in Blocks \ L : SameState(x)
  BY <1>1, <1>2 DEF SameState, SameRates, SameNotes
<1>4. ASSUME NEW b \in L
      PROVE  /\ Started(b)' /\ Old(b)' /\ BaseKept(b)' /\ Read(b)'
             /\ Sourced(b)' /\ UsedWell(b)' /\ Updated(b)'
  <2>1. /\ b \in Blocks /\ RankOf[b] = r /\ at[r] = 5 /\ clk' = clk /\ at' = at
        /\ BlockInv(b) /\ ~Did(t, b) /\ InOrder(r)
        /\ \A d \in Deps(t) \intersect TasksOf(5, k) : Did(d, b)
        /\ \A S : t \notin S => Quiet(S, b)
        /\ \A u : Did(u, b)' <=> Did(u, b) \/ u = t
    BY <1>1, EarlyState
  <2>2. Started(b)' /\ Read(b)' /\ Sourced(b)'
    BY <1>1, <2>1, EarlyFrame
  <2>3. Did("AverageIndependentData", b) /\ Did("FluxDivergence", b)
    <3>1. "AverageIndependentData" \in Deps(t) \intersect TasksOf(5, k)
      BY DEF Deps, UpdateDeps, TasksOf
    <3> QED BY <2>1, <3>1, TasksInOrder
  <2>4. /\ Whole(old(b), k - 1) /\ NetIs(old(b), k)
        /\ StageOf(k) > 1 => "averaged" \in old(b).by
        /\ BaseSafe => IsBase(cons[Base][b][b], k) /\ IsBase(avgd[b], k)
    BY <2>1, <2>3 DEF BlockInv, NetLevel, Old, BaseKept, BeforeUpdate
  <2>5. Old(b)'
    BY <2>1 DEF Old, BeforeUpdate
  <2>6. BaseKept(b)'
    <3>a. BaseSafe => IsBase(avgd'[b], k)
      BY <1>1, <2>4
    <3>1. ~BeforeUpdate(b)'
      BY <2>1 DEF BeforeUpdate
    <3>2. ASSUME BaseSafe, StageOf(k) < NStages
          PROVE  IsBase(cons'[Base][b][b], k)
      <4>1. c # Base
        BY <1>c, <3>2, LevelSteps, StagesAssumption
      <4> QED BY <1>2, <1>c, <2>1, <2>4, <3>2, <4>1
    <3> QED BY <2>1, <3>a, <3>1, <3>2 DEF BaseKept, IsBase, Whole
  <2>7. Updated(b)'
    <3> HIDE DEF old
    <3>s. cons'[c][b][b] = [lvl |-> k, mag |-> k, by |-> {}, net |-> old(b).net]
      BY <1>2, <2>1
    <3>1. Made(cons'[c][b][b], k, {})
      BY <2>4, <3>s DEF Made, NetIs
    <3> QED BY <2>1, <3>1 DEF Updated, Made, NetIs
  <2>8. UsedWell(b)'
    <3>1. used'[b] = [lvl |-> k, old |-> old(b), base |-> avgd[b], rhs |-> dudt[b]]
      BY <1>1, <2>1
    <3>2. dudt[b].src # NoSource =>
            /\ Finished(dudt[b].src.fluid, k - 1)
            /\ MomentsActive => Finished(dudt[b].src.moment, k - 1)
      BY <2>1, <2>3 DEF BlockInv, Sourced
    <3> HIDE DEF old, k, c
    <3> QED BY <2>4, <3>1, <3>2 DEF UsedWell, Whole, IsBase, Finished
  <2> QED BY <2>2, <2>5, <2>6, <2>7, <2>8
<1> QED BY <1>1, <1>3, <1>4, EarlyTask

----------------------------------------------------------------------------
(* The handlers after the update                                           *)

LEMMA FillDerivedEffect ==
  ASSUME TypeOK, NEW c \in Containers, NEW L, DoFillDerived(L, c)
  PROVE  /\ cons' = cons /\ \A x \in Blocks : x \notin L => SameFields(x)
         /\ \A x \in Blocks, z \in Zone : x \in L =>
              prim'[x][z] = Worked(cons[c][x][z], "c2p")
BY DEF DoFillDerived, SameFields

LEMMA FixupEffect ==
  ASSUME TypeOK, NEW c \in Containers, NEW L, NEW h, DoFixup(L, c, h)
  PROVE  /\ \A x \in Blocks : x \notin L => SameFields(x)
         /\ \A d \in Containers : d # c => cons'[d] = cons[d]
         /\ \A x \in Blocks : x \in L =>
              /\ prim'[x][x] = Worked(prim[x][x], h)
              /\ cons'[c][x][x] = Worked(prim[x][x], h)
              /\ \A z \in Zone : z # x => prim'[x][z] = prim[x][z]
<1> DEFINE new(b) == Worked(prim[b][b], h)
<1>1. /\ prim' = [b \in Blocks |-> IF b \in L
                    THEN [prim[b] EXCEPT ![b] = new(b)] ELSE prim[b]]
      /\ cons' = [cons EXCEPT ![c] = [b \in Blocks |-> IF b \in L
                    THEN [cons[c][b] EXCEPT ![b] = new(b)] ELSE cons[c][b]]]
  BY DEF DoFixup
<1> HIDE DEF new
<1>2. /\ \A d \in Containers : d # c => cons'[d] = cons[d]
      /\ cons'[c] = [b \in Blocks |-> IF b \in L
                       THEN [cons[c][b] EXCEPT ![b] = new(b)] ELSE cons[c][b]]
  BY <1>1 DEF TypeOK, ConsType
<1>3. \A x \in Blocks : x \in Zone /\ DOMAIN prim[x] = Zone /\ DOMAIN cons[c][x] = Zone
  BY DEF TypeOK, PrimType, ConsType, Zone
<1>4. \A x \in Blocks : x \notin L => SameFields(x)
  BY <1>1, <1>2 DEF SameFields
<1>5. \A x \in Blocks : x \in L =>
        /\ prim'[x][x] = new(x) /\ cons'[c][x][x] = new(x)
        /\ \A z \in Zone : z # x => prim'[x][z] = prim[x][z]
  BY <1>1, <1>2, <1>3
<1> QED BY <1>2, <1>4, <1>5 DEF new

LEMMA FloorsEffect ==
  ASSUME TypeOK, NEW c \in Containers, NEW L, DoFloors(L, c)
  PROVE  /\ \A x \in Blocks : x \notin L => SameFields(x)
         /\ \A d \in Containers : d # c => cons'[d] = cons[d]
         /\ \A x \in Blocks : x \in L =>
              /\ cons'[c][x] = prim'[x]
              /\ \A z \in Zone : prim'[x][z] = Worked(prim[x][z], "floors")
<1> DEFINE new(b) == [z \in Zone |-> Worked(prim[b][z], "floors")]
<1>1. /\ prim' = [b \in Blocks |-> IF b \in L THEN new(b) ELSE prim[b]]
      /\ cons' = [cons EXCEPT ![c] =
                    [b \in Blocks |-> IF b \in L THEN new(b) ELSE cons[c][b]]]
  BY DEF DoFloors
<1> HIDE DEF new
<1>2. /\ \A d \in Containers : d # c => cons'[d] = cons[d]
      /\ cons'[c] = [b \in Blocks |-> IF b \in L THEN new(b) ELSE cons[c][b]]
  BY <1>1 DEF TypeOK, ConsType
<1>3. \A x \in Blocks : x \notin L => SameFields(x)
  BY <1>1, <1>2 DEF SameFields
<1>4. \A x \in Blocks : x \in L => prim'[x] = new(x) /\ cons'[c][x] = new(x)
  BY <1>1, <1>2
<1>5. \A x : \A z \in Zone : new(x)[z] = Worked(prim[x][z], "floors")
  BY Zenon DEF new
<1>6. \A x \in Blocks : x \in L =>
        /\ cons'[c][x] = prim'[x]
        /\ \A z \in Zone : prim'[x][z] = Worked(prim[x][z], "floors")
  BY <1>4, <1>5, Zenon
<1> QED BY <1>2, <1>3, <1>6

(* What is left to show of a task that works on the new container.         *)
LEMMA HandlerTask ==
  ASSUME TypeOK, StateInv, NEW r \in Ranks, NEW g \in 6 .. 9, NEW t, NEW L,
         Begin(r, g, t, L), Complete(r, t, L),
         UNCHANGED <<rates, force, mail, sums, newDt, notes>>,
         t \notin {"SendBoundBufs", "SetBounds"},
         \A x \in Blocks : x \notin L => SameFields(x),
         \A x \in Blocks, d \in Containers :
           d # Sc1(clk[r]) => cons'[d][x] = cons[d][x],
         \A x \in L : /\ g = 6 => Updated(x)' /\ FixedUp(x)'
                      /\ g \in {7, 8} => Exchanged(x)'
                      /\ g = 8 => Filled(x)'
                      /\ g = 9 => StageOver(x)'
  PROVE  StateInv'
<1>1. /\ L \in SUBSET Blocks /\ at[r] = g /\ clk' = clk /\ at' = at
      /\ \A x \in L : RankOf[x] = r
  BY OneTask DEF StateInv
<1>2. /\ \A x \in Blocks : SameRates(x) /\ SameNotes(x)
      /\ bndMsg' = bndMsg /\ sums' = sums /\ used' = used
  BY DEF rates, mail, notes, SameRates, SameNotes
<1>3. \A x \in Blocks \ L : SameState(x)
  BY <1>2 DEF SameState
<1>4. ASSUME NEW x \in L PROVE BlockInv(x)'
  <2>1. /\ x \in Blocks /\ BlockInv(x) /\ RankOf[x] = r
        /\ \A c \in Containers : c # Sc1(clk[RankOf[x]]) => cons'[c][x] = cons[c][x]
    BY <1>1 DEF StateInv
  <2>2. BaseKept(x)' /\ Read(x)' /\ UsedWell(x)'
    BY <1>1, <1>2, <2>1, LateTask
  <2>3. /\ Started(x)' /\ Old(x)' /\ Sourced(x)'
        /\ g # 6 => Updated(x)' /\ FixedUp(x)'
        /\ g \notin {7, 8} => Exchanged(x)'
        /\ g # 8 => Filled(x)'
        /\ g # 9 => StageOver(x)'
    BY <1>1, <2>1, LateParts
  <2> QED BY <2>2, <2>3 DEF BlockInv
<1> QED BY <1>2, <1>3, <1>4, TaskKeeps

LEMMA LateState ==
  ASSUME TypeOK, StateInv, NEW r \in Ranks, NEW g \in 6 .. 9, NEW t, NEW L,
         Begin(r, g, t, L), Complete(r, t, L), NEW b \in L
  PROVE  /\ b \in Blocks /\ RankOf[b] = r /\ at[r] = g /\ clk' = clk /\ at' = at
         /\ BlockInv(b) /\ ~Did(t, b) /\ InOrder(r) /\ t \in TasksOf(g, clk[r])
         /\ \A d \in Deps(t) \intersect TasksOf(g, clk[r]) : Did(d, b)
         /\ \A u : Did(u, b)' <=> Did(u, b) \/ u = t
         /\ ZonesOf(b) \subseteq Zone /\ b \in ZonesOf(b) /\ Phys \in ZonesOf(b)
         /\ \A z \in Zone : prim[b][z] \in Stamp /\ cons[Sc1(clk[r])][b][z] \in Stamp
<1>1. /\ b \in Blocks /\ RankOf[b] = r /\ at[r] = g /\ clk' = clk /\ at' = at
      /\ BlockInv(b) /\ ~Did(t, b) /\ InOrder(r) /\ t \in TasksOf(g, clk[r])
      /\ \A d \in Deps(t) \intersect TasksOf(g, clk[r]) : Did(d, b)
      /\ \A u : Did(u, b)' <=> Did(u, b) \/ u = t
  BY OneTask DEF StateInv
<1>2. Sc1(clk[r]) \in Containers
  BY StageType DEF TypeOK
<1> QED BY <1>1, <1>2, ZoneStamps

(* sync_region_fixup: one handler after the other, each once.              *)
LEMMA FixupRegion ==
  ASSUME TypeOK, StateInv, NEW r \in Ranks, NEW t, NEW L,
         Begin(r, 6, t, L), Complete(r, t, L),
         UNCHANGED <<rates, force, mail, sums, newDt, notes>>,
         t \in {"FillDerivedMesh", "C2PFixupMesh", "RadC2PFixupMesh",
                "ApplyFloorsMesh", "MomentFluidSource", "ApplyFloorsAgain"},
         \A x \in Blocks : x \notin L => SameFields(x),
         \A d \in Containers : d # Sc1(clk[r]) => cons'[d] = cons[d],
         \A x \in L : /\ Made(prim'[x][x], clk[r], By6(x)')
                      /\ t \in {"ApplyFloorsMesh", "ApplyFloorsAgain"} =>
                           cons'[Sc1(clk[r])][x][x] = prim'[x][x]
  PROVE  StateInv'
<1>1. ASSUME NEW x \in L PROVE Updated(x)' /\ FixedUp(x)'
  <2>1. /\ x \in Blocks /\ RankOf[x] = r /\ at[r] = 6 /\ clk' = clk /\ at' = at
        /\ ~Did(t, x) /\ InOrder(r) /\ t \in TasksOf(6, clk[r])
        /\ \A d \in Deps(t) \intersect TasksOf(6, clk[r]) : Did(d, x)
        /\ \A u : Did(u, x)' <=> Did(u, x) \/ u = t
    BY LateState
  <2>2. Did("FillDerivedMesh", x)'
    <3>1. \/ t = "FillDerivedMesh" \/ Did("FillDerivedMesh", x)
          \/ \E d \in Deps(t) \intersect TasksOf(6, clk[r]) :
               d \in {"FillDerivedMesh", "C2PFixupMesh", "RadC2PFixupMesh",
                      "ApplyFloorsMesh", "MomentFluidSource"}
      BY <2>1 DEF Deps, FixupDeps, TasksOf
    <3> QED BY <2>1, <3>1, TasksInOrder
  <2>3. Did(LastFloors, x)' => t = LastFloors
    BY <2>1, TasksInOrder DEF LastFloors, TasksOf, Deps, FixupDeps
  <2>4. Updated(x)'
    BY <2>1, <2>2 DEF Updated
  <2>5. Did(LastFloors, x)' => cons'[Sc1(clk[r])][x][x] = prim'[x][x]
    BY <2>3 DEF LastFloors
  <2>6. FixedUp(x)'
    <3>1. Made(prim'[x][x], clk[r], By6(x)')
      OBVIOUS
    <3> QED BY <2>1, <2>5, <3>1 DEF FixedUp, Made, NetIs, LastFloors
  <2> QED BY <2>4, <2>6
<1>2. \A x \in Blocks, d \in Containers : d # Sc1(clk[r]) => cons'[d][x] = cons[d][x]
  OBVIOUS
<1> QED BY <1>1, <1>2, HandlerTask

LEMMA FixupRegionTasks ==
  ASSUME TypeOK, StateInv, NEW r \in Ranks, NEW L
  PROVE  /\ FillDerivedMesh(r, L) => StateInv'
         /\ C2PFixupMesh(r, L) => StateInv'
         /\ RadC2PFixupMesh(r, L) => StateInv'
         /\ ApplyFloorsMesh(r, L) => StateInv'
         /\ MomentFluidSource(r, L) => StateInv'
         /\ ApplyFloorsAgain(r, L) => StateInv'
<1> DEFINE k == clk[r]
           c == Sc1(k)
<1>c. c \in Containers
  BY StageType DEF TypeOK
<1>0. ASSUME NEW t, Begin(r, 6, t, L), Complete(r, t, L), NEW b \in L
      PROVE  /\ b \in Blocks /\ b \in Zone /\ RankOf[b] = r /\ at[r] = 6
             /\ clk' = clk /\ at' = at
             /\ Updated(b) /\ FixedUp(b) /\ ~Did(t, b) /\ InOrder(r)
             /\ \A d \in Deps(t) \intersect TasksOf(6, k) : Did(d, b)
             /\ t \in TasksOf(6, k)
             /\ \A u : Did(u, b)' <=> Did(u, b) \/ u = t
             /\ prim[b][b] \in Stamp /\ cons[c][b][b] \in Stamp
  BY <1>0, LateState DEF BlockInv, Zone
<1>1. ASSUME FillDerivedMesh(r, L) PROVE StateInv'
  <2> DEFINE t == "FillDerivedMesh"
  <2>1. /\ Begin(r, 6, t, L) /\ Complete(r, t, L) /\ DoFillDerived(L, c)
        /\ UNCHANGED <<rates, force, mail, sums, newDt, notes>>
    BY <1>1 DEF FillDerivedMesh, Handle
  <2>2. /\ cons' = cons /\ \A x \in Blocks : x \notin L => SameFields(x)
        /\ \A x \in Blocks, z \in Zone : x \in L =>
             prim'[x][z] = Worked(cons[c][x][z], "c2p")
    BY <1>c, <2>1, FillDerivedEffect
  <2>3. ASSUME NEW b \in L PROVE Made(prim'[b][b], k, By6(b)')
    <3>1. /\ b \in Blocks /\ b \in Zone /\ RankOf[b] = r /\ at[r] = 6 /\ Updated(b)
          /\ ~Did(t, b) /\ InOrder(r) /\ \A u : Did(u, b)' <=> Did(u, b) \/ u = t
          /\ cons[c][b][b] \in Stamp
      BY <1>0, <2>1
    <3>2. By6(b)' = {"c2p"}
      BY <3>1, TasksInOrder DEF By6
    <3>3. Made(cons[c][b][b], k, {})
      BY <3>1 DEF Updated
    <3>4. "c2p" \in AnyHandler /\ prim'[b][b] = Worked(cons[c][b][b], "c2p")
      BY <2>2, <3>1 DEF AnyHandler
    <3>5. Made(prim'[b][b], k, ({} \ {"floors"}) \union {"c2p"})
      BY <3>1, <3>3, <3>4, WorkedStamp
    <3>6. ({} \ {"floors"}) \union {"c2p"} = {"c2p"}
      OBVIOUS
    <3> QED BY <3>2, <3>5, <3>6
  <2> QED BY <2>1, <2>2, <2>3, FixupRegion
<1>2. ASSUME C2PFixupMesh(r, L) PROVE StateInv'
  <2> DEFINE t == "C2PFixupMesh"
  <2>1. /\ Begin(r, 6, t, L) /\ Complete(r, t, L) /\ DoFixup(L, c, "fixup")
        /\ UNCHANGED <<rates, force, mail, sums, newDt, notes>>
    BY <1>2 DEF C2PFixupMesh, Handle
  <2>2. /\ \A x \in Blocks : x \notin L => SameFields(x)
        /\ \A d \in Containers : d # c => cons'[d] = cons[d]
        /\ \A x \in Blocks : x \in L =>
             prim'[x][x] = Worked(prim[x][x], "fixup")
    BY <1>c, <2>1, FixupEffect DEF Zone
  <2>3. ASSUME NEW b \in L PROVE Made(prim'[b][b], k, By6(b)')
    <3>1. /\ b \in Blocks /\ RankOf[b] = r /\ at[r] = 6 /\ FixedUp(b)
          /\ ~Did(t, b) /\ InOrder(r) /\ \A u : Did(u, b)' <=> Did(u, b) \/ u = t
          /\ \A d \in Deps(t) \intersect TasksOf(6, k) : Did(d, b)
          /\ t \in TasksOf(6, k) /\ prim[b][b] \in Stamp
      BY <1>0, <2>1
    <3>2. "FillDerivedMesh" \in Deps(t) \intersect TasksOf(6, k)
      BY <3>1 DEF Deps, FixupDeps, TasksOf
    <3>3. /\ By6(b) = {"c2p"} /\ Did("FillDerivedMesh", b)
          /\ By6(b)' = {"c2p", "fixup"}
      BY <3>1, <3>2, TasksInOrder DEF By6
    <3>4. Made(prim[b][b], k, {"c2p"})
      BY <3>1, <3>3 DEF FixedUp
    <3>5. "fixup" \in AnyHandler /\ prim'[b][b] = Worked(prim[b][b], "fixup")
      BY <2>2, <3>1 DEF AnyHandler
    <3>6. Made(prim'[b][b], k, ({"c2p"} \ {"floors"}) \union {"fixup"})
      BY <3>1, <3>4, <3>5, WorkedStamp
    <3>7. ({"c2p"} \ {"floors"}) \union {"fixup"} = {"c2p", "fixup"}
      OBVIOUS
    <3> QED BY <3>3, <3>6, <3>7
  <2> QED BY <2>1, <2>2, <2>3, FixupRegion
<1>3. ASSUME RadC2PFixupMesh(r, L) PROVE StateInv'
  <2> DEFINE t == "RadC2PFixupMesh"
  <2>1. /\ Begin(r, 6, t, L) /\ Complete(r, t, L) /\ DoFixup(L, c, "radfixup")
        /\ UNCHANGED <<rates, force, mail, sums, newDt, notes>>
    BY <1>3 DEF RadC2PFixupMesh, Handle
  <2>2. /\ \A x \in Blocks : x \notin L => SameFields(x)
        /\ \A d \in Containers : d # c => cons'[d] = cons[d]
        /\ \A x \in Blocks : x \in L =>
             prim'[x][x] = Worked(prim[x][x], "radfixup")
    BY <1>c, <2>1, FixupEffect DEF Zone
  <2>3. ASSUME NEW b \in L PROVE Made(prim'[b][b], k, By6(b)')
    <3>1. /\ b \in Blocks /\ RankOf[b] = r /\ at[r] = 6 /\ FixedUp(b)
          /\ ~Did(t, b) /\ InOrder(r) /\ \A u : Did(u, b)' <=> Did(u, b) \/ u = t
          /\ \A d \in Deps(t) \intersect TasksOf(6, k) : Did(d, b)
          /\ t \in TasksOf(6, k) /\ prim[b][b] \in Stamp
      BY <1>0, <2>1
    <3>2. "C2PFixupMesh" \in Deps(t) \intersect TasksOf(6, k)
      BY <3>1 DEF Deps, FixupDeps, TasksOf
    <3>3. /\ By6(b) = {"c2p", "fixup"} /\ Did("FillDerivedMesh", b)
          /\ By6(b)' = {"c2p", "fixup", "radfixup"}
      BY <3>1, <3>2, TasksInOrder DEF By6
    <3>4. Made(prim[b][b], k, {"c2p", "fixup"})
      BY <3>1, <3>3 DEF FixedUp
    <3>5. "radfixup" \in AnyHandler /\ prim'[b][b] = Worked(prim[b][b], "radfixup")
      BY <2>2, <3>1 DEF AnyHandler
    <3>6. Made(prim'[b][b], k, ({"c2p", "fixup"} \ {"floors"}) \union {"radfixup"})
      BY <3>1, <3>4, <3>5, WorkedStamp
    <3>7. ({"c2p", "fixup"} \ {"floors"}) \union {"radfixup"} = {"c2p", "fixup", "radfixup"}
      OBVIOUS
    <3> QED BY <3>3, <3>6, <3>7
  <2> QED BY <2>1, <2>2, <2>3, FixupRegion
<1>4. ASSUME ApplyFloorsMesh(r, L) PROVE StateInv'
  <2> DEFINE t == "ApplyFloorsMesh"
  <2>1. /\ Begin(r, 6, t, L) /\ Complete(r, t, L) /\ DoFloors(L, c)
        /\ UNCHANGED <<rates, force, mail, sums, newDt, notes>>
    BY <1>4 DEF ApplyFloorsMesh, Handle
  <2>2. /\ \A x \in Blocks : x \notin L => SameFields(x)
        /\ \A d \in Containers : d # c => cons'[d] = cons[d]
        /\ \A x \in Blocks : x \in L =>
             /\ prim'[x][x] = Worked(prim[x][x], "floors")
             /\ cons'[c][x][x] = prim'[x][x]
    BY <1>c, <2>1, FloorsEffect DEF Zone
  <2>3. ASSUME NEW b \in L PROVE Made(prim'[b][b], k, By6(b)')
    <3>1. /\ b \in Blocks /\ RankOf[b] = r /\ at[r] = 6 /\ FixedUp(b)
          /\ ~Did(t, b) /\ InOrder(r) /\ \A u : Did(u, b)' <=> Did(u, b) \/ u = t
          /\ \A d \in Deps(t) \intersect TasksOf(6, k) : Did(d, b)
          /\ t \in TasksOf(6, k) /\ prim[b][b] \in Stamp
      BY <1>0, <2>1
    <3>2. "RadC2PFixupMesh" \in Deps(t) \intersect TasksOf(6, k)
      BY <3>1 DEF Deps, FixupDeps, TasksOf
    <3>3. /\ By6(b) = {"c2p", "fixup", "radfixup"} /\ Did("FillDerivedMesh", b)
          /\ By6(b)' = {"c2p", "fixup", "radfixup", "floors"}
      BY <3>1, <3>2, TasksInOrder DEF By6
    <3>4. Made(prim[b][b], k, {"c2p", "fixup", "radfixup"})
      BY <3>1, <3>3 DEF FixedUp
    <3>5. "floors" \in AnyHandler /\ prim'[b][b] = Worked(prim[b][b], "floors")
      BY <2>2, <3>1 DEF AnyHandler
    <3>6. Made(prim'[b][b], k, {"c2p", "fixup", "radfixup"} \union {"floors"})
      BY <3>1, <3>4, <3>5, WorkedStamp
    <3>7. {"c2p", "fixup", "radfixup"} \union {"floors"} = {"c2p", "fixup", "radfixup", "floors"}
      OBVIOUS
    <3> QED BY <3>3, <3>6, <3>7
  <2>4. \A x \in L : cons'[c][x][x] = prim'[x][x]
    BY <1>0, <2>1, <2>2
  <2> QED BY <2>1, <2>2, <2>3, <2>4, FixupRegion
<1>5. ASSUME MomentFluidSource(r, L) PROVE StateInv'
  <2> DEFINE t == "MomentFluidSource"
  <2>1. /\ Begin(r, 6, t, L) /\ Complete(r, t, L) /\ DoFixup(L, c, "source")
        /\ UNCHANGED <<rates, force, mail, sums, newDt, notes>>
    BY <1>5 DEF MomentFluidSource, Handle
  <2>2. /\ \A x \in Blocks : x \notin L => SameFields(x)
        /\ \A d \in Containers : d # c => cons'[d] = cons[d]
        /\ \A x \in Blocks : x \in L =>
             prim'[x][x] = Worked(prim[x][x], "source")
    BY <1>c, <2>1, FixupEffect DEF Zone
  <2>3. ASSUME NEW b \in L PROVE Made(prim'[b][b], k, By6(b)')
    <3>1. /\ b \in Blocks /\ RankOf[b] = r /\ at[r] = 6 /\ FixedUp(b)
          /\ ~Did(t, b) /\ InOrder(r) /\ \A u : Did(u, b)' <=> Did(u, b) \/ u = t
          /\ \A d \in Deps(t) \intersect TasksOf(6, k) : Did(d, b)
          /\ t \in TasksOf(6, k) /\ prim[b][b] \in Stamp
      BY <1>0, <2>1
    <3>2. "ApplyFloorsMesh" \in Deps(t) \intersect TasksOf(6, k)
      BY <3>1 DEF Deps, FixupDeps, TasksOf
    <3>3. /\ By6(b) = {"c2p", "fixup", "radfixup", "floors"} /\ Did("FillDerivedMesh", b)
          /\ By6(b)' = {"c2p", "fixup", "radfixup", "source"}
      BY <3>1, <3>2, TasksInOrder DEF By6
    <3>4. Made(prim[b][b], k, {"c2p", "fixup", "radfixup", "floors"})
      BY <3>1, <3>3 DEF FixedUp
    <3>5. "source" \in AnyHandler /\ prim'[b][b] = Worked(prim[b][b], "source")
      BY <2>2, <3>1 DEF AnyHandler
    <3>6. Made(prim'[b][b], k, ({"c2p", "fixup", "radfixup", "floors"} \ {"floors"}) \union {"source"})
      BY <3>1, <3>4, <3>5, WorkedStamp
    <3>7. ({"c2p", "fixup", "radfixup", "floors"} \ {"floors"}) \union {"source"} = {"c2p", "fixup", "radfixup", "source"}
      OBVIOUS
    <3> QED BY <3>3, <3>6, <3>7
  <2> QED BY <2>1, <2>2, <2>3, FixupRegion
<1>6. ASSUME ApplyFloorsAgain(r, L) PROVE StateInv'
  <2> DEFINE t == "ApplyFloorsAgain"
  <2>1. /\ Begin(r, 6, t, L) /\ Complete(r, t, L) /\ DoFloors(L, c)
        /\ UNCHANGED <<rates, force, mail, sums, newDt, notes>>
    BY <1>6 DEF ApplyFloorsAgain, Handle
  <2>2. /\ \A x \in Blocks : x \notin L => SameFields(x)
        /\ \A d \in Containers : d # c => cons'[d] = cons[d]
        /\ \A x \in Blocks : x \in L =>
             /\ prim'[x][x] = Worked(prim[x][x], "floors")
             /\ cons'[c][x][x] = prim'[x][x]
    BY <1>c, <2>1, FloorsEffect DEF Zone
  <2>3. ASSUME NEW b \in L PROVE Made(prim'[b][b], k, By6(b)')
    <3>1. /\ b \in Blocks /\ RankOf[b] = r /\ at[r] = 6 /\ FixedUp(b)
          /\ ~Did(t, b) /\ InOrder(r) /\ \A u : Did(u, b)' <=> Did(u, b) \/ u = t
          /\ \A d \in Deps(t) \intersect TasksOf(6, k) : Did(d, b)
          /\ t \in TasksOf(6, k) /\ prim[b][b] \in Stamp
      BY <1>0, <2>1
    <3>2. "MomentFluidSource" \in Deps(t) \intersect TasksOf(6, k)
      BY <3>1 DEF Deps, FixupDeps, TasksOf
    <3>3. /\ By6(b) = {"c2p", "fixup", "radfixup", "source"} /\ Did("FillDerivedMesh", b)
          /\ By6(b)' = Handlers
      BY <3>1, <3>2, TasksInOrder DEF By6
    <3>4. Made(prim[b][b], k, {"c2p", "fixup", "radfixup", "source"})
      BY <3>1, <3>3 DEF FixedUp
    <3>5. "floors" \in AnyHandler /\ prim'[b][b] = Worked(prim[b][b], "floors")
      BY <2>2, <3>1 DEF AnyHandler
    <3>6. Made(prim'[b][b], k, {"c2p", "fixup", "radfixup", "source"} \union {"floors"})
      BY <3>1, <3>4, <3>5, WorkedStamp
    <3>7. {"c2p", "fixup", "radfixup", "source"} \union {"floors"} = Handlers
      BY <3>1 DEF Handlers, TasksOf
    <3> QED BY <3>3, <3>6, <3>7
  <2>4. \A x \in L : cons'[c][x][x] = prim'[x][x]
    BY <1>0, <2>1, <2>2
  <2> QED BY <2>1, <2>2, <2>3, <2>4, FixupRegion
<1> QED BY <1>1, <1>2, <1>3, <1>4, <1>5, <1>6

(* async_region_3: physical boundaries, then the handlers once more on all *)
(* zones, then the block's time step.                                      *)
LEMMA BoundaryState ==
  ASSUME TypeOK, StateInv, NEW r \in Ranks, NEW b \in Blocks, NEW t,
         Begin(r, 8, t, {b}), Complete(r, t, {b})
  PROVE  /\ RankOf[b] = r /\ at[r] = 8 /\ clk' = clk /\ at' = at
         /\ Exchanged(b) /\ Filled(b) /\ ~Did(t, b) /\ InOrder(r)
         /\ t \in TasksOf(8, clk[r])
         /\ \A d \in Deps(t) \intersect TasksOf(8, clk[r]) : Did(d, b)
         /\ \A u : Did(u, b)' <=> Did(u, b) \/ u = t
         /\ ZonesOf(b) \subseteq Zone /\ b \in ZonesOf(b) /\ Phys \in ZonesOf(b)
         /\ Phys # b /\ Neighbors[b] \subseteq Blocks /\ b \in Zone
         /\ \A z \in Zone : prim[b][z] \in Stamp /\ cons[Sc1(clk[r])][b][z] \in Stamp
         /\ Sc1(clk[r]) \in Containers
<1>1. Sc1(clk[r]) \in Containers
  BY StageType DEF TypeOK
<1>2. Phys # b /\ Neighbors[b] \subseteq Blocks /\ b \in Zone
  BY MeshAssumption DEF Zone
<1> QED BY <1>1, <1>2, LateState DEF BlockInv

LEMMA ApplyBCKeeps ==
  ASSUME TypeOK, StateInv, NEW r \in Ranks, NEW b \in Blocks, ApplyBC(r, b)
  PROVE  StateInv'
<1> DEFINE t == "ApplyBC"
           k == clk[r]
           c == Sc1(k)
<1>1. /\ Begin(r, 8, t, {b}) /\ Complete(r, t, {b})
      /\ UNCHANGED <<rates, force, mail, sums, newDt, notes>>
      /\ IF BcPrimitive
         THEN prim' = [prim EXCEPT ![b][Phys] = prim[b][b]] /\ cons' = cons
         ELSE cons' = [cons EXCEPT ![c][b][Phys] = cons[c][b][b]] /\ prim' = prim
  BY DEF ApplyBC, Handle
<1>2. /\ RankOf[b] = r /\ at[r] = 8 /\ clk' = clk /\ at' = at
      /\ Exchanged(b) /\ ~Did(t, b) /\ InOrder(r)
      /\ \A u : Did(u, b)' <=> Did(u, b) \/ u = t
      /\ Phys # b /\ Neighbors[b] \subseteq Blocks /\ b \in Zone
      /\ c \in Containers
  BY <1>1, BoundaryState
<1>3. ~Did("FillDerived", b) /\ ~Did("ConvertBC", b)
  BY <1>2, TasksInOrder
<1> HIDE DEF k, c
<1>4. /\ \A x \in Blocks : x # b => SameFields(x)
      /\ \A d \in Containers : d # c => cons'[d] = cons[d]
      /\ \A z \in Zone : z # Phys =>
           prim'[b][z] = prim[b][z] /\ cons'[c][b][z] = cons[c][b][z]
      /\ IF BcPrimitive THEN prim'[b][Phys] = prim[b][b]
                        ELSE cons'[c][b][Phys] = cons[c][b][b]
  <2>0. Phys \in Zone
    BY DEF Zone
  <2>1. CASE BcPrimitive
    BY <1>1, <1>2, <2>0, <2>1 DEF TypeOK, PrimType, SameFields
  <2>2. CASE ~BcPrimitive
    <3>1. cons' = [cons EXCEPT ![c] =
                    [cons[c] EXCEPT ![b] = [cons[c][b] EXCEPT ![Phys] = cons[c][b][b]]]]
      BY <1>1, <2>2 DEF c, k
    <3>2. /\ \A d \in Containers : d # c => cons'[d] = cons[d]
          /\ cons'[c] = [cons[c] EXCEPT ![b] = [cons[c][b] EXCEPT ![Phys] = cons[c][b][b]]]
      BY <1>2, <3>1 DEF TypeOK, ConsType
    <3>3. /\ \A x \in Blocks : x # b => cons'[c][x] = cons[c][x]
          /\ cons'[c][b] = [cons[c][b] EXCEPT ![Phys] = cons[c][b][b]]
      BY <1>2, <3>2 DEF TypeOK, ConsType
    <3>4. /\ \A z \in Zone : z # Phys => cons'[c][b][z] = cons[c][b][z]
          /\ cons'[c][b][Phys] = cons[c][b][b]
      BY <1>2, <2>0, <3>3 DEF TypeOK, ConsType
    <3>5. \A x \in Blocks : x # b => SameFields(x)
      BY <1>1, <2>2, <3>2, <3>3 DEF SameFields
    <3> QED BY <1>1, <2>2, <3>2, <3>4, <3>5
  <2> QED BY <2>1, <2>2
<1>5. /\ Good(cons[c][b][b], k) /\ Good(prim[b][b], k)
      /\ \A z \in Neighbors[b] : Good(cons[c][b][z], k)
  BY <1>2, <1>3 DEF Exchanged, c, k
<1>6. /\ Good(cons'[c][b][b], k) /\ Good(prim'[b][b], k)
      /\ \A z \in Neighbors[b] : Good(cons'[c][b][z], k)
      /\ BcPrimitive => Good(prim'[b][Phys], k)
      /\ ~BcPrimitive => Good(cons'[c][b][Phys], k)
  <2>1. Neighbors[b] \subseteq Zone /\ \A z \in Neighbors[b] : z # Phys
    BY <1>2, MeshAssumption DEF Zone
  <2> QED BY <1>2, <1>4, <1>5, <2>1
<1>7. Exchanged(b)'
  <2>1. /\ Good(cons[Sc1(clk[r])][b][b], clk[r])' /\ Good(prim[b][b], clk[r])'
        /\ \A z \in Neighbors[b] : Good(cons[Sc1(clk[r])][b][z], clk[r])'
    BY <1>2, <1>6 DEF Good, Made, NetIs, c, k
  <2>2. BcPrimitive => Good(prim[b][Phys], clk[r])'
    BY <1>2, <1>6 DEF Good, Made, NetIs, c, k
  <2>3. ~BcPrimitive => Good(cons[Sc1(clk[r])][b][Phys], clk[r])'
    BY <1>2, <1>6 DEF Good, Made, NetIs, c, k
  <2>4. at'[r] = 8 /\ ~Did("FillDerived", b)' /\ ~Did("ConvertBC", b)'
    BY <1>2, <1>3
  <2> QED BY <1>2, <2>1, <2>2, <2>3, <2>4 DEF Exchanged
<1>8. Filled(b)'
  BY <1>2, <1>3 DEF Filled
<1>9. \A x \in Blocks, d \in Containers : d # Sc1(clk[r]) => cons'[d][x] = cons[d][x]
  BY <1>4 DEF c, k
<1> QED BY <1>1, <1>4, <1>7, <1>8, <1>9, HandlerTask

LEMMA ConvertBCKeeps ==
  ASSUME TypeOK, StateInv, NEW r \in Ranks, NEW b \in Blocks, ConvertBC(r, b)
  PROVE  StateInv'
<1> DEFINE t == "ConvertBC"
           k == clk[r]
           c == Sc1(k)
<1>1. /\ Begin(r, 8, t, {b}) /\ Complete(r, t, {b}) /\ prim' = prim
      /\ UNCHANGED <<rates, force, mail, sums, newDt, notes>>
      /\ cons' = IF BcPrimitive THEN [cons EXCEPT ![c][b][Phys] = prim[b][Phys]]
                 ELSE cons
  BY DEF ConvertBC, Handle
<1>2. /\ RankOf[b] = r /\ at[r] = 8 /\ clk' = clk /\ at' = at
      /\ Exchanged(b) /\ ~Did(t, b) /\ InOrder(r)
      /\ \A d \in Deps(t) \intersect TasksOf(8, clk[r]) : Did(d, b)
      /\ \A u : Did(u, b)' <=> Did(u, b) \/ u = t
      /\ Phys # b /\ Neighbors[b] \subseteq Blocks /\ b \in Zone
      /\ c \in Containers
  BY <1>1, BoundaryState
<1>3. ~Did("FillDerived", b) /\ Did("ApplyBC", b)
  <2>1. "ApplyBC" \in Deps(t) \intersect TasksOf(8, clk[r])
    BY DEF Deps, BoundaryDeps, TasksOf
  <2> QED BY <1>2, <2>1, TasksInOrder
<1> HIDE DEF k, c
<1>4. /\ \A x \in Blocks : x # b => SameFields(x)
      /\ \A d \in Containers : d # c => cons'[d] = cons[d]
      /\ \A z \in Zone : z # Phys => cons'[c][b][z] = cons[c][b][z]
      /\ IF BcPrimitive THEN cons'[c][b][Phys] = prim[b][Phys]
                        ELSE cons'[c][b][Phys] = cons[c][b][Phys]
  <2>0. Phys \in Zone
    BY DEF Zone
  <2>1. CASE BcPrimitive
    <3>1. cons' = [cons EXCEPT ![c] =
                    [cons[c] EXCEPT ![b] = [cons[c][b] EXCEPT ![Phys] = prim[b][Phys]]]]
      BY <1>1, <2>1 DEF c, k
    <3>2. /\ \A d \in Containers : d # c => cons'[d] = cons[d]
          /\ cons'[c] = [cons[c] EXCEPT ![b] = [cons[c][b] EXCEPT ![Phys] = prim[b][Phys]]]
      BY <1>2, <3>1 DEF TypeOK, ConsType
    <3>t. cons[c] \in [Blocks -> [Zone -> Stamp]]
      BY <1>2 DEF TypeOK, ConsType
    <3>3. /\ \A x \in Blocks : x # b => cons'[c][x] = cons[c][x]
          /\ cons'[c][b] = [cons[c][b] EXCEPT ![Phys] = prim[b][Phys]]
      BY <3>2, <3>t
    <3>4. /\ \A z \in Zone : z # Phys => cons'[c][b][z] = cons[c][b][z]
          /\ cons'[c][b][Phys] = prim[b][Phys]
      BY <1>2, <2>0, <3>3 DEF TypeOK, ConsType
    <3>5. \A x \in Blocks : x # b => SameFields(x)
      BY <1>1, <3>2, <3>3 DEF SameFields
    <3> QED BY <2>1, <3>2, <3>4, <3>5
  <2>2. CASE ~BcPrimitive
    BY <1>1, <2>2 DEF SameFields
  <2> QED BY <2>1, <2>2
<1>5. /\ Good(cons[c][b][b], k) /\ Good(prim[b][b], k)
      /\ \A z \in Neighbors[b] : Good(cons[c][b][z], k)
      /\ BcPrimitive => Good(prim[b][Phys], k)
      /\ ~BcPrimitive => Good(cons[c][b][Phys], k)
  BY <1>2, <1>3 DEF Exchanged, c, k
<1>6. /\ Good(cons'[c][b][b], k) /\ Good(prim'[b][b], k)
      /\ \A z \in Neighbors[b] : Good(cons'[c][b][z], k)
      /\ BcPrimitive => Good(prim'[b][Phys], k)
      /\ Good(cons'[c][b][Phys], k)
  <2>1. Neighbors[b] \subseteq Zone /\ \A z \in Neighbors[b] : z # Phys
    BY <1>2, MeshAssumption DEF Zone
  <2> QED BY <1>1, <1>2, <1>4, <1>5, <2>1
<1>7. Exchanged(b)'
  <2>1. /\ at'[RankOf[b]] = 8 /\ clk'[RankOf[b]] = k /\ Sc1(k) = c
    BY <1>2 DEF c, k
  <2> QED BY <1>6, <2>1 DEF Exchanged, Good, Made, NetIs
<1>8. Filled(b)'
  BY <1>2, <1>3 DEF Filled
<1>9. \A x \in Blocks, d \in Containers : d # Sc1(clk[r]) => cons'[d][x] = cons[d][x]
  BY <1>4 DEF c, k
<1> QED BY <1>1, <1>4, <1>7, <1>8, <1>9, HandlerTask

(* Once the boundaries are set, only the floors are missing again.         *)
LEMMA RefillTask ==
  ASSUME TypeOK, StateInv, NEW r \in Ranks, NEW b \in Blocks, NEW t,
         t \in {"FillDerived", "C2PFixup", "RadC2PFixup", "ApplyFloors"},
         Begin(r, 8, t, {b}), Complete(r, t, {b}),
         UNCHANGED <<rates, force, mail, sums, newDt, notes>>,
         \A x \in Blocks : x # b => SameFields(x),
         \A d \in Containers : d # Sc1(clk[r]) => cons'[d] = cons[d],
         \A z \in ZonesOf(b) :
           Made(prim'[b][z], clk[r], IF t = "ApplyFloors" THEN Handlers
                                     ELSE Handlers \ {"floors"}),
         t = "ApplyFloors" => cons'[Sc1(clk[r])][b] = prim'[b]
  PROVE  StateInv'
<1>1. /\ RankOf[b] = r /\ at[r] = 8 /\ clk' = clk /\ at' = at
      /\ ~Did(t, b) /\ InOrder(r) /\ t \in TasksOf(8, clk[r])
      /\ \A d \in Deps(t) \intersect TasksOf(8, clk[r]) : Did(d, b)
      /\ \A u : Did(u, b)' <=> Did(u, b) \/ u = t
  BY BoundaryState
<1>2. Did("FillDerived", b)'
  <2>1. \/ t = "FillDerived"
        \/ \E d \in Deps(t) \intersect TasksOf(8, clk[r]) :
             d \in {"FillDerived", "C2PFixup", "RadC2PFixup"}
    BY <1>1 DEF Deps, BoundaryDeps, TasksOf
  <2> QED BY <1>1, <2>1, TasksInOrder
<1>3. Did("ApplyFloors", b)' <=> t = "ApplyFloors"
  BY <1>1, TasksInOrder
<1>4. ~Did("EstimateTimestep", b)'
  BY <1>1, TasksInOrder
<1>5. Exchanged(b)'
  BY <1>1, <1>2 DEF Exchanged
<1>6. Filled(b)'
  BY <1>1, <1>3, <1>4 DEF Filled, Made, NetIs
<1>7. \A x \in Blocks, d \in Containers : d # Sc1(clk[r]) => cons'[d][x] = cons[d][x]
  OBVIOUS
<1> QED BY <1>5, <1>6, <1>7, HandlerTask

LEMMA RefillTasks ==
  ASSUME TypeOK, StateInv, NEW r \in Ranks, NEW b \in Blocks
  PROVE  /\ FillDerived(r, b) => StateInv'
         /\ C2PFixup(r, b) => StateInv'
         /\ RadC2PFixup(r, b) => StateInv'
         /\ ApplyFloors(r, b) => StateInv'
<1> DEFINE k == clk[r]
           c == Sc1(k)
<1>0. ASSUME NEW t, Begin(r, 8, t, {b}), Complete(r, t, {b})
      PROVE  /\ RankOf[b] = r /\ at[r] = 8
             /\ Exchanged(b) /\ Filled(b) /\ ~Did(t, b) /\ InOrder(r)
             /\ \A d \in Deps(t) \intersect TasksOf(8, k) : Did(d, b)
             /\ ZonesOf(b) \subseteq Zone /\ b \in Zone
             /\ \A z \in Zone : prim[b][z] \in Stamp /\ cons[c][b][z] \in Stamp
             /\ c \in Containers
  BY <1>0, BoundaryState
<1>1. ASSUME FillDerived(r, b) PROVE StateInv'
  <2> DEFINE t == "FillDerived"
  <2>1. /\ Begin(r, 8, t, {b}) /\ Complete(r, t, {b}) /\ DoFillDerived({b}, c)
        /\ UNCHANGED <<rates, force, mail, sums, newDt, notes>>
    BY <1>1 DEF FillDerived, Handle
  <2>2. /\ RankOf[b] = r /\ at[r] = 8
        /\ Exchanged(b) /\ ~Did(t, b) /\ InOrder(r)
        /\ \A d \in Deps(t) \intersect TasksOf(8, k) : Did(d, b)
        /\ ZonesOf(b) \subseteq Zone
        /\ \A z \in Zone : cons[c][b][z] \in Stamp
        /\ c \in Containers
    BY <1>0, <2>1
  <2>3. /\ cons' = cons /\ \A x \in Blocks : x # b => SameFields(x)
        /\ \A z \in Zone : prim'[b][z] = Worked(cons[c][b][z], "c2p")
    BY <2>1, <2>2, FillDerivedEffect
  <2>4. Did("ConvertBC", b) /\ Did("ApplyBC", b)
    <3>1. "ConvertBC" \in Deps(t) \intersect TasksOf(8, k)
      BY DEF Deps, BoundaryDeps, TasksOf
    <3> QED BY <2>2, <3>1, TasksInOrder
  <2>5. \A z \in ZonesOf(b) : Good(cons[c][b][z], k)
    BY <2>2, <2>4 DEF Exchanged, ZonesOf
  <2>6. ASSUME NEW z \in ZonesOf(b)
        PROVE  Made(prim'[b][z], k, Handlers \ {"floors"})
    <3>1. /\ "c2p" \in AnyHandler /\ z \in Zone
          /\ prim'[b][z] = Worked(cons[c][b][z], "c2p")
      BY <2>2, <2>3 DEF AnyHandler
    <3>2. Made(prim'[b][z], k, (Handlers \ {"floors"}) \union {"c2p"})
      BY <2>2, <2>5, <3>1, WorkedStamp DEF Good
    <3>3. (Handlers \ {"floors"}) \union {"c2p"} = Handlers \ {"floors"}
      BY DEF Handlers
    <3> QED BY <3>2, <3>3
  <2> QED BY <2>1, <2>3, <2>6, RefillTask
<1>2. ASSUME C2PFixup(r, b) PROVE StateInv'
  <2> DEFINE t == "C2PFixup"
  <2>1. /\ Begin(r, 8, t, {b}) /\ Complete(r, t, {b}) /\ DoFixup({b}, c, "fixup")
        /\ UNCHANGED <<rates, force, mail, sums, newDt, notes>>
    BY <1>2 DEF C2PFixup, Handle
  <2>2. /\ RankOf[b] = r /\ at[r] = 8
        /\ Filled(b) /\ ~Did(t, b) /\ InOrder(r)
        /\ \A d \in Deps(t) \intersect TasksOf(8, k) : Did(d, b)
        /\ ZonesOf(b) \subseteq Zone
        /\ \A z \in Zone : prim[b][z] \in Stamp
        /\ c \in Containers
    BY <1>0, <2>1
  <2>3. /\ \A x \in Blocks : x # b => SameFields(x)
        /\ \A d \in Containers : d # c => cons'[d] = cons[d]
        /\ prim'[b][b] = Worked(prim[b][b], "fixup")
        /\ \A z \in Zone : z # b => prim'[b][z] = prim[b][z]
    BY <2>1, <2>2, FixupEffect
  <2>4. Did("FillDerived", b) /\ ~Did("ApplyFloors", b)
    <3>1. "FillDerived" \in Deps(t) \intersect TasksOf(8, k)
      BY DEF Deps, BoundaryDeps, TasksOf
    <3> QED BY <2>2, <3>1, TasksInOrder
  <2>5. \A z \in ZonesOf(b) : Made(prim[b][z], k, Handlers \ {"floors"})
    BY <2>2, <2>4 DEF Filled
  <2>6. ASSUME NEW z \in ZonesOf(b)
        PROVE  Made(prim'[b][z], k, Handlers \ {"floors"})
    <3>1. CASE z = b
      <4>1. "fixup" \in AnyHandler /\ z \in Zone
        BY <2>2 DEF AnyHandler
      <4>2. Made(prim'[b][z], k,
                 ((Handlers \ {"floors"}) \ {"floors"}) \union {"fixup"})
        BY <2>2, <2>3, <2>5, <3>1, <4>1, WorkedStamp
      <4>3. ((Handlers \ {"floors"}) \ {"floors"}) \union {"fixup"} =
              Handlers \ {"floors"}
        BY DEF Handlers
      <4> QED BY <4>2, <4>3
    <3>2. CASE z # b
      BY <2>2, <2>3, <2>5, <3>2
    <3> QED BY <3>1, <3>2
  <2> QED BY <2>1, <2>3, <2>6, RefillTask
<1>3. ASSUME RadC2PFixup(r, b) PROVE StateInv'
  <2> DEFINE t == "RadC2PFixup"
  <2>1. /\ Begin(r, 8, t, {b}) /\ Complete(r, t, {b}) /\ DoFixup({b}, c, "radfixup")
        /\ UNCHANGED <<rates, force, mail, sums, newDt, notes>>
    BY <1>3 DEF RadC2PFixup, Handle
  <2>2. /\ RankOf[b] = r /\ at[r] = 8
        /\ Filled(b) /\ ~Did(t, b) /\ InOrder(r)
        /\ \A d \in Deps(t) \intersect TasksOf(8, k) : Did(d, b)
        /\ ZonesOf(b) \subseteq Zone
        /\ \A z \in Zone : prim[b][z] \in Stamp
        /\ c \in Containers
    BY <1>0, <2>1
  <2>3. /\ \A x \in Blocks : x # b => SameFields(x)
        /\ \A d \in Containers : d # c => cons'[d] = cons[d]
        /\ prim'[b][b] = Worked(prim[b][b], "radfixup")
        /\ \A z \in Zone : z # b => prim'[b][z] = prim[b][z]
    BY <2>1, <2>2, FixupEffect
  <2>4. Did("FillDerived", b) /\ ~Did("ApplyFloors", b)
    <3>1. "C2PFixup" \in Deps(t) \intersect TasksOf(8, k)
      BY DEF Deps, BoundaryDeps, TasksOf
    <3> QED BY <2>2, <3>1, TasksInOrder
  <2>5. \A z \in ZonesOf(b) : Made(prim[b][z], k, Handlers \ {"floors"})
    BY <2>2, <2>4 DEF Filled
  <2>6. ASSUME NEW z \in ZonesOf(b)
        PROVE  Made(prim'[b][z], k, Handlers \ {"floors"})
    <3>1. CASE z = b
      <4>1. "radfixup" \in AnyHandler /\ z \in Zone
        BY <2>2 DEF AnyHandler
      <4>2. Made(prim'[b][z], k,
                 ((Handlers \ {"floors"}) \ {"floors"}) \union {"radfixup"})
        BY <2>2, <2>3, <2>5, <3>1, <4>1, WorkedStamp
      <4>3. ((Handlers \ {"floors"}) \ {"floors"}) \union {"radfixup"} =
              Handlers \ {"floors"}
        BY DEF Handlers
      <4> QED BY <4>2, <4>3
    <3>2. CASE z # b
      BY <2>2, <2>3, <2>5, <3>2
    <3> QED BY <3>1, <3>2
  <2> QED BY <2>1, <2>3, <2>6, RefillTask
<1>4. ASSUME ApplyFloors(r, b) PROVE StateInv'
  <2> DEFINE t == "ApplyFloors"
  <2>1. /\ Begin(r, 8, t, {b}) /\ Complete(r, t, {b}) /\ DoFloors({b}, c)
        /\ UNCHANGED <<rates, force, mail, sums, newDt, notes>>
    BY <1>4 DEF ApplyFloors, Handle
  <2>2. /\ RankOf[b] = r /\ at[r] = 8
        /\ Filled(b) /\ ~Did(t, b) /\ InOrder(r)
        /\ \A d \in Deps(t) \intersect TasksOf(8, k) : Did(d, b)
        /\ ZonesOf(b) \subseteq Zone
        /\ \A z \in Zone : prim[b][z] \in Stamp
        /\ c \in Containers
    BY <1>0, <2>1
  <2>3. /\ \A x \in Blocks : x # b => SameFields(x)
        /\ \A d \in Containers : d # c => cons'[d] = cons[d]
        /\ cons'[c][b] = prim'[b]
        /\ \A z \in Zone : prim'[b][z] = Worked(prim[b][z], "floors")
    BY <2>1, <2>2, FloorsEffect
  <2>4. Did("FillDerived", b)
    <3>1. "RadC2PFixup" \in Deps(t) \intersect TasksOf(8, k)
      BY DEF Deps, BoundaryDeps, TasksOf
    <3> QED BY <2>2, <3>1, TasksInOrder
  <2>5. \A z \in ZonesOf(b) : Made(prim[b][z], k, Handlers \ {"floors"})
    BY <2>2, <2>4 DEF Filled
  <2>6. ASSUME NEW z \in ZonesOf(b)
        PROVE  Made(prim'[b][z], k, Handlers)
    <3>1. /\ "floors" \in AnyHandler /\ z \in Zone
          /\ prim'[b][z] = Worked(prim[b][z], "floors")
      BY <2>2, <2>3 DEF AnyHandler
    <3>2. Made(prim'[b][z], k, (Handlers \ {"floors"}) \union {"floors"})
      BY <2>2, <2>5, <3>1, WorkedStamp
    <3>3. (Handlers \ {"floors"}) \union {"floors"} = Handlers
      BY DEF Handlers
    <3> QED BY <3>2, <3>3
  <2> QED BY <2>1, <2>3, <2>6, RefillTask
<1> QED BY <1>1, <1>2, <1>3, <1>4

LEMMA EstimateTimestepKeeps ==
  ASSUME TypeOK, StateInv, NEW r \in Ranks, NEW b \in Blocks, EstimateTimestep(r, b)
  PROVE  StateInv'
<1> DEFINE t == "EstimateTimestep"
<1>1. /\ Begin(r, 8, t, {b}) /\ Complete(r, t, {b})
      /\ prim' = prim /\ cons' = cons /\ bndMsg' = bndMsg /\ sums' = sums
      /\ newDt' = [newDt EXCEPT ![b] = prim[b][b]]
      /\ \A x \in Blocks : SameRates(x) /\ used'[x] = used[x] /\ avgd'[x] = avgd[x]
  BY DEF EstimateTimestep, rates, mail, notes, SameRates
<1>2. /\ RankOf[b] = r /\ at[r] = 8 /\ clk' = clk /\ at' = at
      /\ Filled(b) /\ InOrder(r) /\ b \in ZonesOf(b)
      /\ \A d \in Deps(t) \intersect TasksOf(8, clk[r]) : Did(d, b)
      /\ \A u : Did(u, b)' <=> Did(u, b) \/ u = t
  BY <1>1, BoundaryState
<1>3. Did("ApplyFloors", b) /\ Did("FillDerived", b)
  <2>1. "ApplyFloors" \in Deps(t) \intersect TasksOf(8, clk[r])
    BY DEF Deps, BoundaryDeps, TasksOf
  <2> QED BY <1>2, <2>1, TasksInOrder
<1>4. newDt'[b] = prim[b][b] /\ \A x \in Blocks \ {b} : newDt'[x] = newDt[x]
  BY <1>1 DEF TypeOK
<1>5. \A x \in Blocks \ {b} : SameState(x)
  BY <1>1, <1>4 DEF SameState, SameNotes, SameFields
<1>6. Filled(b)'
  <2>1. /\ \A z \in ZonesOf(b) : Made(prim[b][z], clk[r], Handlers)
        /\ cons[Sc1(clk[r])][b][b] = prim[b][b]
    BY <1>2, <1>3 DEF Filled
  <2>2. Finished(newDt'[b], clk[r])
    BY <1>2, <1>4, <2>1 DEF Made, Finished
  <2> QED BY <1>1, <1>2, <1>3, <2>1, <2>2 DEF Filled, Made, NetIs, Finished
<1>7. Exchanged(b)'
  BY <1>2, <1>3 DEF Exchanged
<1>8. BaseKept(b)' /\ Read(b)' /\ UsedWell(b)'
  <2>1. BlockInv(b)
    BY DEF StateInv
  <2> QED BY <1>1, <1>2, <2>1, LateTask
<1>9. BlockInv(b)'
  BY <1>2, <1>6, <1>7, <1>8, LateParts DEF BlockInv
<1> QED BY <1>1, <1>5, <1>9, TaskKeeps

(* The cooling of the last stage, on the base container.                   *)
LEMMA CalculateFourForceKeeps ==
  ASSUME TypeOK, StateInv, NEW r \in Ranks, NEW L, CalculateFourForce(r, L)
  PROVE  StateInv'
<1> DEFINE t == "CalculateFourForce"
<1>1. /\ Begin(r, 9, t, L) /\ Complete(r, t, L) /\ bndMsg' = bndMsg /\ sums' = sums
      /\ cons' = cons /\ prim' = prim /\ newDt' = newDt /\ used' = used
      /\ \A x \in Blocks : SameState(x) /\ SameRates(x)
  BY DEF CalculateFourForce, rates, mail, notes, SameState, SameRates, SameNotes, SameFields
<1>2. ASSUME NEW b \in L PROVE BlockInv(b)'
  <2>1. /\ b \in Blocks /\ RankOf[b] = r /\ at[r] = 9 /\ clk' = clk /\ at' = at
        /\ BlockInv(b) /\ \A u : Did(u, b)' <=> Did(u, b) \/ u = t
    BY <1>1, LateState
  <2>2. BaseKept(b)' /\ Read(b)' /\ UsedWell(b)'
    BY <1>1, <2>1, LateTask
  <2>3. StageOver(b)'
    BY <1>1, <2>1 DEF BlockInv, StageOver, Good, Made, NetIs, Whole, Finished
  <2> QED BY <2>1, <2>2, <2>3, LateParts DEF BlockInv
<1> QED BY <1>1, <1>2, TaskKeeps

LEMMA ApplyFourForceKeeps ==
  ASSUME TypeOK, StateInv, NEW r \in Ranks, NEW L, ApplyRadiationFourForce(r, L)
  PROVE  StateInv'
<1> DEFINE t == "ApplyRadiationFourForce"
           k == clk[r]
<1>1. /\ Begin(r, 9, t, L) /\ Complete(r, t, L) /\ prim' = prim
      /\ UNCHANGED <<rates, force, mail, sums, newDt, notes>>
      /\ newDt' = newDt
      /\ cons' = [cons EXCEPT ![Base] = [b \in Blocks |-> IF b \in L
                    THEN [cons[Base][b] EXCEPT ![b] = Cooled(@)] ELSE cons[Base][b]]]
  BY DEF ApplyRadiationFourForce, Handle
<1>2. Base \in Containers /\ k \in 1 .. LastLevel
  BY StagesAssumption DEF Base, Containers, TypeOK
<1>3. StageOf(k) = NStages /\ Sc1(k) = Base
  BY <1>1, <1>2, LevelSteps DEF Begin, TasksOf
<1>4. /\ \A d \in Containers : d # Base => cons'[d] = cons[d]
      /\ cons'[Base] = [b \in Blocks |-> IF b \in L
                    THEN [cons[Base][b] EXCEPT ![b] = Cooled(@)] ELSE cons[Base][b]]
  BY <1>1, <1>2 DEF TypeOK, ConsType
<1>5. /\ \A x \in Blocks : x \notin L => SameFields(x)
      /\ \A x \in Blocks : x \in L => cons'[Base][x][x] = Cooled(cons[Base][x][x])
  <2>1. \A x \in Blocks : x \in Zone /\ DOMAIN cons[Base][x] = Zone
    BY <1>2 DEF TypeOK, ConsType, Zone
  <2> QED BY <1>1, <1>4, <2>1 DEF SameFields
<1>6. ASSUME NEW b \in L PROVE StageOver(b)'
  <2>1. /\ b \in Blocks /\ RankOf[b] = r /\ at[r] = 9 /\ clk' = clk /\ at' = at
        /\ StageOver(b) /\ \A u : Did(u, b)' <=> Did(u, b) \/ u = t
        /\ b \in ZonesOf(b) /\ ZonesOf(b) \subseteq Zone
        /\ \A z \in Zone : cons[Sc1(k)][b][z] \in Stamp
    BY <1>1, LateState DEF BlockInv
  <2>2. cons[Base][b][b] \in Stamp
    BY <1>3, <2>1
  <2>3. /\ cons'[Base][b][b].lvl = cons[Base][b][b].lvl
        /\ cons'[Base][b][b].mag = cons[Base][b][b].mag
        /\ cons'[Base][b][b].by = cons[Base][b][b].by \union {"cooling"}
        /\ cons'[Base][b][b].net = cons[Base][b][b].net
    BY <1>5, <2>1, <2>2, CooledStamp
  <2>4. Whole(cons'[Base][b][b], k) /\ NetIs(cons'[Base][b][b], k)
    BY <1>3, <2>1, <2>3 DEF StageOver, Whole, NetIs
  <2>5. /\ \A z \in ZonesOf(b) : Good(prim'[b][z], k)
        /\ Finished(newDt'[b], k)
    BY <1>1, <1>3, <2>1 DEF StageOver
  <2> QED
    BY <1>3, <2>1, <2>3, <2>4, <2>5 DEF StageOver, Good, Made, NetIs, Whole, Finished
<1>7. \A x \in Blocks, d \in Containers : d # Sc1(clk[r]) => cons'[d][x] = cons[d][x]
  BY <1>3, <1>4
<1>8. /\ Begin(r, 9, t, L) /\ Complete(r, t, L)
      /\ UNCHANGED <<rates, force, mail, sums, newDt, notes>>
      /\ \A x \in Blocks : x \notin L => SameFields(x)
  BY <1>1, <1>5
<1> QED BY <1>6, <1>7, <1>8, HandlerTask

----------------------------------------------------------------------------
(* The exchange of ghost zones                                             *)

(* A send counts for the sender, a receive for the receiver; no other task *)
(* counts for either.                                                      *)
LEMMA TaskCounts ==
  ASSUME TypeOK, StateInv, NEW r \in Ranks, NEW t, NEW L,
         Begin(r, 7, t, L), Complete(r, t, L)
  PROVE  \A u : \A x \in Blocks : Times(u, x)' =
           IF u = t /\ x \in L THEN Times(u, x) + 1 ELSE Times(u, x)
<1>1. /\ L \in SUBSET Blocks /\ at[r] = 7 /\ clk' = clk /\ at' = at
      /\ \A x \in L : RankOf[x] = r /\ ~Did(t, x)
      /\ \A u : \A x \in Blocks : Did(u, x)' <=> Did(u, x) \/ (u = t /\ x \in L)
  BY OneTask DEF StateInv
<1>2. \A x \in Blocks : clk[RankOf[x]] \in Int
  BY MeshAssumption DEF TypeOK
<1> QED BY <1>1, <1>2 DEF Times

LEMMA ReceiveKeeps ==
  ASSUME TypeOK, StateInv, NEW r \in Ranks, NEW L, ReceiveBoundBufs(r, L)
  PROVE  StateInv'
<1> DEFINE t == "ReceiveBoundBufs"
<1>1. /\ Begin(r, 7, t, L) /\ Complete(r, t, L) /\ bndMsg' = bndMsg /\ sums' = sums
      /\ cons' = cons /\ prim' = prim /\ used' = used
      /\ \A x \in Blocks : SameState(x) /\ SameRates(x)
      /\ \A b \in L : \A n \in Blocks : b \in Neighbors[n] => bndMsg[n][b] # {}
  BY DEF ReceiveBoundBufs, rates, mail, notes, SameState, SameRates, SameNotes, SameFields
<1>2. ASSUME NEW b \in L PROVE BlockInv(b)'
  <2>1. /\ b \in Blocks /\ RankOf[b] = r /\ at[r] = 7 /\ clk' = clk /\ at' = at
        /\ BlockInv(b) /\ \A u : Did(u, b)' <=> Did(u, b) \/ u = t
    BY <1>1, LateState
  <2>2. BaseKept(b)' /\ Read(b)' /\ UsedWell(b)'
    BY <1>1, <2>1, LateTask
  <2>3. Exchanged(b)'
    <3>1. Exchanged(b)
      BY <2>1, Zenon DEF BlockInv
    <3> QED BY <1>1, <2>1, <3>1 DEF Exchanged
  <2> QED BY <2>1, <2>2, <2>3, LateParts DEF BlockInv
<1> QED BY <1>1, <1>2, TaskKeeps

LEMMA SendKeeps ==
  ASSUME TypeOK, StateInv, NEW r \in Ranks, NEW L, SendBoundBufs(r, L)
  PROVE  StateInv'
<1> DEFINE t == "SendBoundBufs"
           k == clk[r]
           c == Sc1(k)
<1>1. /\ Begin(r, 7, t, L) /\ Complete(r, t, L) /\ sums' = sums
      /\ cons' = cons /\ prim' = prim /\ used' = used
      /\ \A x \in Blocks : SameState(x) /\ SameRates(x)
      /\ \A b, n \in Blocks : b \in L /\ n \in Neighbors[b] => bndMsg[b][n] = {}
      /\ \A b, n \in Blocks : bndMsg'[b][n] =
           IF b \in L /\ n \in Neighbors[b]
           THEN {[cons |-> cons[c][b][b], prim |-> prim[b][b]]} ELSE bndMsg[b][n]
  BY DEF SendBoundBufs, rates, mail, notes, SameState, SameRates, SameNotes, SameFields
<1>2. /\ L \in SUBSET Blocks /\ at[r] = 7 /\ clk' = clk /\ at' = at
      /\ \A x \in L : RankOf[x] = r /\ ~Did(t, x)
      /\ \A u : \A x \in Blocks : Did(u, x)' <=> Did(u, x) \/ (u = t /\ x \in L)
      /\ \A q \in Ranks : InOrder(q)'
  BY <1>1, OneTask DEF StateInv
<1>3. \A q \in Ranks : StepEnds(q)'
  BY <1>2 DEF StateInv, StepEnds
<1>4. SumsInv'
  BY <1>1, <1>2 DEF StateInv, SumsInv
<1>5. \A n, b \in Blocks : bndMsg[n][b] # {} => bndMsg'[n][b] # {}
  BY <1>1
<1>6. ASSUME NEW b \in Blocks PROVE BlockInv(b)'
  <2>1. BlockInv(b)
    BY DEF StateInv
  <2>2. CASE b \notin L
    <3>1. \A u : Did(u, b)' <=> Did(u, b)
      BY <1>2, <2>2
    <3> QED BY <1>1, <1>2, <1>5, <2>1, <3>1, BlockFrame
  <2>3. CASE b \in L
    <3>1. /\ RankOf[b] = r /\ at[r] = 7 /\ clk' = clk /\ at' = at
          /\ \A u : Did(u, b)' <=> Did(u, b) \/ u = t
      BY <1>2, <2>3
    <3>2. BaseKept(b)' /\ Read(b)' /\ UsedWell(b)'
      BY <1>1, <2>1, <3>1, LateTask
    <3>3. Exchanged(b)
      BY <2>1, Zenon DEF BlockInv
    <3>4. Exchanged(b)'
      BY <1>1, <1>5, <3>1, <3>3 DEF Exchanged
    <3> QED BY <3>1, <3>2, <3>4, LateParts DEF BlockInv
  <2> QED BY <2>2, <2>3
<1>7. \A u : \A x \in Blocks : Times(u, x)' =
        IF u = t /\ x \in L THEN Times(u, x) + 1 ELSE Times(u, x)
  BY <1>1, TaskCounts
<1>8. ASSUME NEW b \in Blocks, NEW n \in Blocks, n \in Neighbors[b]
      PROVE  BoundsMatch(b, n)'
  <2>1. BoundsMatch(b, n) /\ Times("SetBounds", n)' = Times("SetBounds", n)
    BY <1>7, <1>8 DEF StateInv, MailInv
  <2>2. CASE b \in L
    <3>1. bndMsg[b][n] = {} /\ Times(t, b) = Times("SetBounds", n)
      BY <1>1, <1>8, <2>1, <2>2 DEF BoundsMatch
    <3>2. Times(t, b)' = Times("SetBounds", n)' + 1 /\ Times(t, b)' = k
      BY <1>2, <1>7, <2>1, <2>2, <3>1 DEF Times
    <3>3. Good(cons[c][b][b], k) /\ Good(prim[b][b], k)
      BY <1>2, <2>2 DEF StateInv, BlockInv, Exchanged
    <3>4. bndMsg'[b][n] = {[cons |-> cons[c][b][b], prim |-> prim[b][b]]}
      BY <1>1, <1>8, <2>2
    <3>5. bndMsg'[b][n] # {} /\ \A m \in bndMsg'[b][n] : Good(m.cons, k) /\ Good(m.prim, k)
      BY <3>3, <3>4
    <3> QED BY <3>2, <3>5 DEF BoundsMatch, Good, Made, NetIs
  <2>3. CASE b \notin L
    <3>1. bndMsg'[b][n] = bndMsg[b][n] /\ Times(t, b)' = Times(t, b)
      BY <1>1, <1>7, <2>3
    <3> QED BY <2>1, <3>1 DEF BoundsMatch, Good, Made, NetIs
  <2> QED BY <2>2, <2>3
<1>9. \A b, n \in Blocks : n \notin Neighbors[b] => bndMsg'[b][n] = {}
  BY <1>1 DEF StateInv, MailInv
<1>10. MailInv'
  BY <1>8, <1>9 DEF MailInv
<1> QED BY <1>2, <1>3, <1>4, <1>6, <1>10 DEF StateInv

LEMMA SetKeeps ==
  ASSUME TypeOK, StateInv, NEW r \in Ranks, NEW L, SetBounds(r, L)
  PROVE  StateInv'
<1> DEFINE t == "SetBounds"
           k == clk[r]
           c == Sc1(k)
           sent(b, n) == n \in Blocks /\ bndMsg[n][b] # {}
           got(b, n) == CHOOSE m \in bndMsg[n][b] : TRUE
<1>1. /\ Begin(r, 7, t, L) /\ Complete(r, t, L) /\ sums' = sums /\ used' = used
      /\ newDt' = newDt /\ avgd' = avgd /\ \A x \in Blocks : SameRates(x)
      /\ cons' = [cons EXCEPT ![c] = [b \in Blocks |-> IF b \in L
                    THEN [z \in Zone |-> IF sent(b, z) THEN got(b, z).cons
                                        ELSE cons[c][b][z]]
                    ELSE cons[c][b]]]
      /\ prim' = IF BcPrimitive
                 THEN [b \in Blocks |-> IF b \in L
                         THEN [z \in Zone |-> IF sent(b, z) THEN got(b, z).prim
                                             ELSE prim[b][z]]
                         ELSE prim[b]]
                 ELSE prim
      /\ \A n, b \in Blocks : bndMsg'[n][b] = IF b \in L THEN {} ELSE bndMsg[n][b]
  BY DEF SetBounds, rates, notes, SameRates
<1>c. c \in Containers /\ k \in Nat
  BY StageType, LevelType DEF TypeOK
<1>2. /\ L \in SUBSET Blocks /\ at[r] = 7 /\ clk' = clk /\ at' = at
      /\ \A x \in L : RankOf[x] = r /\ ~Did(t, x)
      /\ \A x \in L : \A d \in Deps(t) \intersect TasksOf(7, clk[r]) : Did(d, x)
      /\ \A u : \A x \in Blocks : Did(u, x)' <=> Did(u, x) \/ (u = t /\ x \in L)
      /\ \A q \in Ranks : InOrder(q)'
  BY <1>1, OneTask DEF StateInv
<1>3. \A q \in Ranks : StepEnds(q)'
  BY <1>2 DEF StateInv, StepEnds
<1>4. SumsInv'
  BY <1>1, <1>2 DEF StateInv, SumsInv
<1>5. \A u : \A x \in Blocks : Times(u, x)' =
        IF u = t /\ x \in L THEN Times(u, x) + 1 ELSE Times(u, x)
  BY <1>1, TaskCounts
<1> HIDE DEF k, c
(* The ghost zones a list takes from its buffers are all there and of the  *)
(* stage under way.                                                        *)
<1>6. ASSUME NEW b \in L, NEW n \in Blocks
      PROVE  /\ b \in Neighbors[n] => bndMsg[n][b] # {}
             /\ bndMsg[n][b] # {} =>
                  Good(got(b, n).cons, k) /\ Good(got(b, n).prim, k)
  <2>1. /\ b \in Blocks /\ RankOf[b] = r /\ Exchanged(b) /\ Times(t, b) = k - 1
    BY <1>2 DEF StateInv, BlockInv, Times, k
  <2>2. Did("ReceiveBoundBufs", b)
    <3>1. "ReceiveBoundBufs" \in Deps(t) \intersect TasksOf(7, clk[r])
      BY DEF Deps, BoundaryDeps, TasksOf
    <3> QED BY <1>2, <3>1
  <2>3. b \in Neighbors[n] => bndMsg[n][b] # {}
    BY <1>2, <2>1, <2>2 DEF Exchanged
  <2>4. ASSUME bndMsg[n][b] # {}
        PROVE  \A m \in bndMsg[n][b] : Good(m.cons, k) /\ Good(m.prim, k)
    <3>1. BoundsMatch(n, b)
      BY <2>1, <2>4 DEF StateInv, MailInv
    <3>2. /\ Times("SendBoundBufs", n) = Times(t, b) + 1
          /\ \A m \in bndMsg[n][b] : /\ Good(m.cons, Times("SendBoundBufs", n))
                                     /\ Good(m.prim, Times("SendBoundBufs", n))
      BY <2>4, <3>1 DEF BoundsMatch
    <3>3. Times("SendBoundBufs", n) = k
      BY <1>c, <2>1, <3>2
    <3> QED BY <3>2, <3>3
  <2>5. bndMsg[n][b] # {} => got(b, n) \in bndMsg[n][b]
    OBVIOUS
  <2> QED BY <2>3, <2>4, <2>5
<1> HIDE DEF got
<1>7. /\ \A d \in Containers : d # c => cons'[d] = cons[d]
      /\ \A x \in Blocks : x \notin L => SameFields(x)
      /\ \A x \in Blocks : x \in L => \A z \in Zone :
           /\ cons'[c][x][z] = IF sent(x, z) THEN got(x, z).cons ELSE cons[c][x][z]
           /\ prim'[x][z] = IF BcPrimitive /\ sent(x, z) THEN got(x, z).prim
                            ELSE prim[x][z]
  <2> DEFINE q == [b \in Blocks |-> IF b \in L
                     THEN [z \in Zone |-> IF sent(b, z) THEN got(b, z).cons
                                         ELSE cons[c][b][z]]
                     ELSE cons[c][b]]
  <2>1. cons' = [cons EXCEPT ![c] = q]
    BY <1>1
  <2> HIDE DEF q
  <2>2. /\ \A d \in Containers : d # c => cons'[d] = cons[d]
        /\ cons'[c] = q
    BY <1>c, <2>1 DEF TypeOK, ConsType
  <2>3. \A x \in Blocks : /\ x \notin L => q[x] = cons[c][x]
                          /\ x \in L => \A z \in Zone :
                               q[x][z] = IF sent(x, z) THEN got(x, z).cons
                                         ELSE cons[c][x][z]
    BY DEF q
  <2>4. \A x \in Blocks : /\ x \notin L => prim'[x] = prim[x]
                          /\ x \in L => \A z \in Zone :
                               prim'[x][z] = IF BcPrimitive /\ sent(x, z)
                                             THEN got(x, z).prim ELSE prim[x][z]
    BY <1>1
  <2>5. \A x \in Blocks : x \notin L => SameFields(x)
    BY <2>2, <2>3, <2>4 DEF SameFields
  <2> QED BY <2>2, <2>3, <2>4, <2>5
<1>8. ASSUME NEW b \in Blocks, b \in L PROVE BlockInv(b)'
  <2>1. /\ BlockInv(b) /\ RankOf[b] = r /\ at[r] = 7 /\ clk' = clk /\ at' = at
        /\ Did(t, b)'
    BY <1>2, <1>8 DEF StateInv
  <2>2. BaseKept(b)' /\ Read(b)' /\ UsedWell(b)'
    <3>1. \A d \in Containers : d # Sc1(clk[RankOf[b]]) => cons'[d][b] = cons[d][b]
      BY <1>7, <2>1 DEF c, k
    <3>2. SameRates(b) /\ used'[b] = used[b]
      BY <1>1
    <3>3. /\ at[RankOf[b]] \in 6 .. 10
          /\ clk'[RankOf[b]] = clk[RankOf[b]] /\ at'[RankOf[b]] = at[RankOf[b]]
      BY <2>1
    <3> QED BY <2>1, <3>1, <3>2, <3>3, LateTask
  <2>3. Good(cons[c][b][b], k) /\ Good(prim[b][b], k)
    BY <2>1 DEF BlockInv, Exchanged, c, k
  <2>4. Neighbors[b] \subseteq Blocks /\ Blocks \subseteq Zone
    BY MeshAssumption DEF Zone
  <2>5. Good(cons'[c][b][b], k) /\ Good(prim'[b][b], k)
    BY <1>6, <1>7, <1>8, <2>3, <2>4
  <2>6. ASSUME NEW z \in Neighbors[b] PROVE Good(cons'[c][b][z], k)
    <3>1. z \in Blocks /\ z \in Zone /\ b \in Neighbors[z]
      BY <2>4, NeighborAssumption
    <3>2. sent(b, z)
      BY <1>6, <1>8, <3>1
    <3>3. cons'[c][b][z] = got(b, z).cons
      BY <1>7, <1>8, <3>1, <3>2
    <3> QED BY <1>6, <1>8, <3>1, <3>2, <3>3
  <2>7. Exchanged(b)'
    <3>1. /\ at'[RankOf[b]] = 7 /\ clk'[RankOf[b]] = k /\ Sc1(k) = c
      BY <2>1 DEF c, k
    <3> QED BY <2>1, <2>5, <2>6, <3>1 DEF Exchanged, Good, Made, NetIs
  <2> QED BY <2>1, <2>2, <2>7, LateParts DEF BlockInv
<1>9. ASSUME NEW b \in Blocks, b \notin L PROVE BlockInv(b)'
  <2>1. BlockInv(b) /\ SameState(b) /\ \A u : Did(u, b)' <=> Did(u, b)
    BY <1>1, <1>2, <1>7, <1>9 DEF StateInv, SameState, SameNotes
  <2>2. \A n \in Blocks : bndMsg'[n][b] = bndMsg[n][b]
    BY <1>1, <1>9
  <2> QED BY <1>2, <2>1, <2>2, BlockFrame
<1>10. ASSUME NEW b \in Blocks, NEW n \in Blocks, n \in Neighbors[b]
       PROVE  BoundsMatch(b, n)'
  <2>1. /\ BoundsMatch(b, n)
        /\ Times("SendBoundBufs", b)' = Times("SendBoundBufs", b)
    BY <1>5, <1>10 DEF StateInv, MailInv
  <2>2. CASE n \in L
    <3>1. bndMsg[b][n] # {}
      BY <1>6, <1>10, <2>2
    <3>2. Times("SendBoundBufs", b) = Times(t, n) + 1
      BY <2>1, <3>1 DEF BoundsMatch
    <3>3. Times(t, n)' = Times(t, n) + 1 /\ bndMsg'[b][n] = {}
      BY <1>1, <1>5, <2>2
    <3> QED BY <2>1, <3>2, <3>3 DEF BoundsMatch
  <2>3. CASE n \notin L
    <3>1. bndMsg'[b][n] = bndMsg[b][n] /\ Times(t, n)' = Times(t, n)
      BY <1>1, <1>5, <2>3
    <3> QED BY <2>1, <3>1 DEF BoundsMatch, Good, Made, NetIs
  <2> QED BY <2>2, <2>3
<1>11. \A b, n \in Blocks : n \notin Neighbors[b] => bndMsg'[b][n] = {}
  BY <1>1 DEF StateInv, MailInv
<1>12. MailInv'
  BY <1>10, <1>11 DEF MailInv
<1> QED BY <1>2, <1>3, <1>4, <1>8, <1>9, <1>12 DEF StateInv

----------------------------------------------------------------------------
(* From region to region, stage to stage and step to step                  *)

(* A region is left when every task of it is done for every block.         *)
LEMMA RegionOver ==
  ASSUME NEW r \in Ranks, RegionComplete(r), NEW b \in Blocks, RankOf[b] = r,
         NEW t \in TasksOf(at[r], clk[r])
  PROVE  Did(t, b)
<1>1. \E L \in Lists(r, at[r]) : b \in L /\ L \in SUBSET Blocks
  <2>1. CASE PerBlock(at[r])
    <3>1. {b} \in Lists(r, at[r])
      BY <2>1 DEF Lists
    <3> QED BY <3>1
  <2>2. CASE ~PerBlock(at[r])
    <3>1. PICK L \in Partitions : b \in L
      BY PartitionAssumption
    <3>2. L \in Lists(r, at[r]) /\ L \in SUBSET Blocks
      BY <2>2, <3>1, PartitionAssumption DEF Lists
    <3> QED BY <3>1, <3>2
  <2> QED BY <2>1, <2>2
<1> QED BY <1>1 DEF RegionComplete, Did

(* What a region's tasks leave is what the next region starts from.        *)
LEMMA RegionPassed ==
  ASSUME TypeOK, NEW b \in Blocks, BlockInv(b), SameState(b), InOrder(RankOf[b]),
         at[RankOf[b]] \in 1 .. 9, at'[RankOf[b]] = at[RankOf[b]] + 1,
         clk'[RankOf[b]] = clk[RankOf[b]], \A u : ~Did(u, b)',
         \A t \in TasksOf(at[RankOf[b]], clk[RankOf[b]]) : Did(t, b)
  PROVE  BlockInv(b)'
<1> DEFINE r == RankOf[b]
           k == clk[r]
<1>0. /\ k \in 1 .. LastLevel /\ Sc0(k) \in Containers /\ Sc1(k) \in Containers
      /\ Base \in Containers /\ r \in Ranks /\ k \in Nat
  BY ZoneStamps, StageType, StagesAssumption, LevelSteps DEF Base, Containers
<1>1. /\ prim'[b] = prim[b] /\ \A c \in Containers : cons'[c][b] = cons[c][b]
      /\ flux'[b] = flux[b] /\ edge'[b] = edge[b] /\ opac'[b] = opac[b]
      /\ gsrc'[b] = gsrc[b] /\ dudt'[b] = dudt[b]
      /\ newDt'[b] = newDt[b] /\ avgd'[b] = avgd[b] /\ used'[b] = used[b]
  BY DEF SameState, SameFields, SameRates, SameNotes
<1>a. /\ Started(b) /\ Old(b) /\ BaseKept(b) /\ Read(b) /\ Sourced(b) /\ UsedWell(b)
      /\ Updated(b) /\ FixedUp(b) /\ Exchanged(b) /\ Filled(b) /\ StageOver(b)
  BY Zenon DEF BlockInv
<1>b. /\ \A c \in {Sc0(k), Sc1(k), Base} : cons'[c][b] = cons[c][b]
      /\ cons'[Sc1(k)][b] = cons[Sc1(k)][b] /\ cons'[Base][b] = cons[Base][b]
      /\ prim'[b] = prim[b] /\ newDt'[b] = newDt[b] /\ clk'[r] = k
  BY <1>0, <1>1, Zenon
<1>2. Read(b)' /\ UsedWell(b)'
  BY <1>1, <1>a DEF Read, UsedWell, IsBase, Whole, Finished
<1>3. BaseKept(b)'
  <2>1. BaseSafe /\ (StageOf(k) < NStages \/ at'[r] < 5 \/ at'[r] = 5)
          => IsBase(cons[Base][b][b], k)
    BY <1>a DEF BaseKept, BeforeUpdate
  <2> QED BY <1>0, <1>1, <2>1 DEF BaseKept, BeforeUpdate, IsBase, Whole
<1>4. CASE at[r] \in 1 .. 4
  <2>1. at[r] = 3 => Did("ModifyNetField", b)
    BY DEF TasksOf
  <2>2. Started(b)'
    <3>1. NetLevel(b)' = NetLevel(b)
      BY <1>4, <2>1 DEF NetLevel
    <3> QED BY <1>a, <1>b, <1>4, <3>1 DEF Started
  <2>3. Old(b)'
    <3>1. NetLevel(b)' = NetLevel(b)
      BY <1>4, <2>1 DEF NetLevel
    <3>2. BeforeUpdate(b)
      BY <1>4 DEF BeforeUpdate
    <3>3. Whole(cons[Sc0(k)][b][b], k - 1) /\ NetIs(cons[Sc0(k)][b][b], NetLevel(b))
      BY <1>a, <3>2 DEF Old
    <3>4. /\ Whole(cons[Sc0(k)][b][b], k - 1)'
          /\ NetIs(cons[Sc0(k)][b][b], NetLevel(b))'
      BY <1>b, <3>1, <3>3
    <3> QED BY <1>b, <1>4, <3>4 DEF Old
  <2>4. Sourced(b)'
    <3>1. /\ at[r] = 1 => Did("CalculateFluidSourceTerms", b)
          /\ at[r] = 2 /\ MomentsActive => Did("CalculateGeometricSource", b)
      BY DEF TasksOf
    <3> QED BY <1>1, <1>a, <1>4, <3>1 DEF Sourced, Finished
  <2>5. Updated(b)'
    BY <1>4 DEF Updated
  <2> QED BY <1>2, <1>3, <1>4, <2>2, <2>3, <2>4, <2>5, EarlyParts DEF BlockInv
<1>5. CASE at[r] = 5
  <2>1. Did("UpdateIndependentData", b)
    BY <1>5 DEF TasksOf
  <2>2. Updated(b)'
    <3>1. Made(cons[Sc1(k)][b][b], k, {})
      BY <1>a, <1>5, <2>1 DEF Updated
    <3>2. Made(cons[Sc1(k)][b][b], k, {})'
      BY <1>b, <3>1
    <3> QED BY <3>2 DEF Updated
  <2>3. FixedUp(b)'
    BY DEF FixedUp
  <2> QED BY <1>2, <1>3, <1>5, <2>2, <2>3, LateParts DEF BlockInv
<1>6. CASE at[r] = 6
  <2>1. Did("FillDerivedMesh", b) /\ Did(LastFloors, b) /\ Did("ApplyFloorsMesh", b)
    BY <1>6 DEF TasksOf, LastFloors
  <2>2. By6(b) = Handlers
    <3>1. CASE MomentsActive
      BY <2>1, <3>1 DEF By6, LastFloors, Handlers
    <3>2. CASE ~MomentsActive
      <4>1. ~Did("ApplyFloorsAgain", b) /\ ~Did("MomentFluidSource", b)
        BY <1>6, <3>2, TasksInOrder
      <4> QED BY <2>1, <3>2, <4>1 DEF By6, Handlers
    <3> QED BY <3>1, <3>2
  <2>3. Good(prim[b][b], k) /\ cons[Sc1(k)][b][b] = prim[b][b]
    BY <1>6, <1>a, <2>1, <2>2 DEF FixedUp, Good
  <2>4. Exchanged(b)'
    <3>1. Good(cons[Sc1(k)][b][b], k)' /\ Good(prim[b][b], k)'
      BY <1>b, <2>3
    <3>2. ~Did("SetBounds", b)' /\ ~Did("ReceiveBoundBufs", b)'
      BY Zenon
    <3> QED BY <1>6, <3>1, <3>2 DEF Exchanged
  <2> QED BY <1>2, <1>3, <1>6, <2>4, LateParts DEF BlockInv
<1>7. CASE at[r] = 7
  <2>1. Did("SetBounds", b)
    BY <1>7 DEF TasksOf
  <2>2. /\ Good(cons[Sc1(k)][b][b], k) /\ Good(prim[b][b], k)
        /\ \A z \in Neighbors[b] : Good(cons[Sc1(k)][b][z], k)
    BY <1>7, <1>a, <2>1 DEF Exchanged
  <2>3. /\ Good(cons[Sc1(k)][b][b], k)' /\ Good(prim[b][b], k)'
        /\ \A z \in Neighbors[b] : Good(cons[Sc1(k)][b][z], k)'
    BY <1>b, <2>2
  <2>4. ~Did("FillDerived", b)' /\ ~Did("ApplyBC", b)' /\ ~Did("ConvertBC", b)'
    BY Zenon
  <2>5. Exchanged(b)'
    BY <1>7, <2>3, <2>4 DEF Exchanged
  <2>6. Filled(b)'
    BY <2>4 DEF Filled
  <2> QED BY <1>2, <1>3, <1>7, <2>5, <2>6, LateParts DEF BlockInv
<1>8. CASE at[r] = 8
  <2>1. /\ Did("FillDerived", b) /\ Did("ApplyFloors", b)
        /\ StageOf(k) = NStages => Did("EstimateTimestep", b)
    BY <1>8 DEF TasksOf
  <2>2. /\ \A z \in ZonesOf(b) : Good(prim[b][z], k)
        /\ cons[Sc1(k)][b][b] = prim[b][b]
        /\ StageOf(k) = NStages => Finished(newDt[b], k)
    BY <1>8, <1>a, <2>1 DEF Filled, Good
  <2>3. Good(cons[Sc1(k)][b][b], k)
    BY <2>2, ZoneStamps
  <2>4. StageOver(b)'
    <3>1. /\ \A z \in ZonesOf(b) : Good(prim[b][z], k)'
          /\ Good(cons[Sc1(k)][b][b], k)'
          /\ (StageOf(k) = NStages => Finished(newDt[b], k))'
      BY <1>b, <2>2, <2>3
    <3> QED BY <1>8, <3>1 DEF StageOver, Good, Made, Whole
  <2> QED BY <1>2, <1>3, <1>8, <2>4, LateParts DEF BlockInv
<1>9. CASE at[r] = 9
  <2>1. CoolingFunction /\ StageOf(k) = NStages => Did("ApplyRadiationFourForce", b)
    BY <1>9 DEF TasksOf
  <2>2. StageOver(b)'
    BY <1>9, <1>a, <1>b, <2>1 DEF StageOver, Split
  <2> QED BY <1>2, <1>3, <1>9, <2>2, LateParts DEF BlockInv
<1> QED BY <1>4, <1>5, <1>6, <1>7, <1>8, <1>9

(* A stage starts from the complete result of the stage before it; the     *)
(* first stage of a step also makes that result the base state.            *)
LEMMA StagePassed ==
  ASSUME TypeOK, NEW b \in Blocks, BlockInv(b), SameState(b),
         at[RankOf[b]] \in {9, 10}, at'[RankOf[b]] = 1,
         clk'[RankOf[b]] = clk[RankOf[b]] + 1, \A u : ~Did(u, b)',
         at[RankOf[b]] = 9 => StageOf(clk[RankOf[b]]) < NStages,
         at[RankOf[b]] = 10 => StageOf(clk[RankOf[b]]) = NStages
  PROVE  BlockInv(b)'
<1> DEFINE r == RankOf[b]
           k == clk[r]
<1>0. /\ k \in 1 .. LastLevel /\ Sc0(k) \in Containers /\ Sc1(k) \in Containers
      /\ Base \in Containers /\ r \in Ranks /\ k \in Nat /\ b \in ZonesOf(b)
  BY ZoneStamps, StageType, StagesAssumption, LevelSteps DEF Base, Containers
<1>1. /\ prim'[b] = prim[b] /\ \A c \in Containers : cons'[c][b] = cons[c][b]
      /\ flux'[b] = flux[b] /\ edge'[b] = edge[b] /\ opac'[b] = opac[b]
      /\ gsrc'[b] = gsrc[b] /\ dudt'[b] = dudt[b]
      /\ newDt'[b] = newDt[b] /\ avgd'[b] = avgd[b] /\ used'[b] = used[b]
  BY DEF SameState, SameFields, SameRates, SameNotes
<1>2. /\ StageOf(k) < NStages => StepStart(k + 1) = StepStart(k)
      /\ StageOf(k) = NStages => StepStart(k + 1) = k /\ Sc1(k) = Base
      /\ Sc0(k + 1) = Sc1(k)
      /\ StageOf(k) \in 1 .. NStages
  <2>1. StageOf(k) < NStages \/ StageOf(k) = NStages
    OBVIOUS
  <2> QED BY <1>0, <2>1, LevelSteps
<1>a. StageOver(b) /\ BaseKept(b) /\ Read(b) /\ UsedWell(b)
  BY Zenon DEF BlockInv
<1>3. /\ \A z \in ZonesOf(b) : Good(prim[b][z], k)
      /\ Whole(cons[Sc1(k)][b][b], k) /\ NetIs(cons[Sc1(k)][b][b], k)
      /\ Split /\ at[r] = 10 => "cooling" \in cons[Base][b][b].by
  BY <1>a DEF StageOver
<1>4. Read(b)' /\ UsedWell(b)'
  BY <1>1, <1>a DEF Read, UsedWell, IsBase, Whole, Finished
<1>5. BaseKept(b)'
  <2>1. BaseSafe => IsBase(cons[Base][b][b], k + 1)
    <3>1. CASE at[r] = 9
      BY <1>2, <1>a, <3>1 DEF BaseKept, IsBase
    <3>2. CASE at[r] = 10
      BY <1>2, <1>3, <3>2 DEF IsBase
    <3> QED BY <3>1, <3>2
  <2> QED BY <1>0, <1>1, <2>1 DEF BaseKept, IsBase, Whole
<1>6. NetLevel(b)' = k
  BY <1>0 DEF NetLevel
<1>7. Started(b)'
  <2>1. \A z \in ZonesOf(b) : Finished(prim[b][z], k)
    BY <1>0, <1>3 DEF Good, Made, NetIs, Finished
  <2>2. NetIs(prim[b][b], k)
    BY <1>0, <1>3 DEF Good, Made
  <2> QED BY <1>0, <1>1, <1>6, <2>1, <2>2 DEF Started
<1>8. Old(b)'
  <2>1. at'[r] = 1 /\ clk'[r] = k + 1 /\ (k + 1) - 1 = k /\ Sc0(k + 1) = Sc1(k)
    BY <1>0, <1>2
  <2>2. cons'[Sc1(k)][b][b] = cons[Sc1(k)][b][b]
    BY <1>0, SameState(b), Zenon DEF SameState, SameFields
  <2>3. Whole(cons'[Sc1(k)][b][b], k) /\ NetIs(cons'[Sc1(k)][b][b], k)
    BY <1>3, <2>2 DEF Whole, NetIs
  <2>4. Sc0(clk[r])' = Sc1(k) /\ (clk[r] - 1)' = k
    BY <2>1 DEF Sc0, StageOf
  <2> QED BY <1>6, <2>1, <2>3, <2>4 DEF Old
<1>9. Sourced(b)'
  BY DEF Sourced
<1> QED BY <1>4, <1>5, <1>7, <1>8, <1>9, EarlyParts DEF BlockInv

LEMMA NextRegionKeeps ==
  ASSUME TypeOK, StateInv, NEW r \in Ranks, NextRegion(r)
  PROVE  StateInv'
<1> DEFINE newStage == at[r] = 9 /\ StageOf(clk[r]) < NStages
<1>1. /\ at[r] \in 1 .. 9 /\ RegionComplete(r) /\ clk[r] \in 1 .. LastLevel
      /\ at'[r] = IF newStage THEN 1 ELSE at[r] + 1
      /\ clk'[r] = IF newStage THEN clk[r] + 1 ELSE clk[r]
      /\ done'[r] = {}
      /\ sums'[r] = IF newStage THEN {} ELSE sums[r]
      /\ \A q \in Ranks : q # r => /\ at'[q] = at[q] /\ clk'[q] = clk[q]
                                   /\ done'[q] = done[q] /\ sums'[q] = sums[q]
      /\ bndMsg' = bndMsg
  BY DEF NextRegion, TypeOK, StepEnd, mail
<1>2. \A x \in Blocks : SameState(x)
  BY DEF NextRegion, rates, notes, SameState, SameRates, SameNotes, SameFields
<1>3. \A b \in Blocks : RankOf[b] = r => \A u : ~Did(u, b)'
  BY <1>1 DEF Did
<1>4. \A b \in Blocks : RankOf[b] # r => \A u : Did(u, b)' <=> Did(u, b)
  BY <1>1, RankOfType DEF Did
<1>5. clk[r] \in Nat /\ StageOf(clk[r]) \in 1 .. NStages
  BY <1>1, LevelSteps
<1>6. \A q \in Ranks : InOrder(q)' /\ StepEnds(q)'
  <2> SUFFICES ASSUME NEW q \in Ranks PROVE InOrder(q)' /\ StepEnds(q)'
    OBVIOUS
  <2>1. InOrder(q) /\ StepEnds(q)
    BY DEF StateInv
  <2>2. CASE q = r
    BY <1>1, <1>5, <2>2, StagesAssumption DEF InOrder, StepEnds, StepEnd
  <2>3. CASE q # r
    <3>1. at'[q] = at[q] /\ clk'[q] = clk[q] /\ done'[q] = done[q]
      BY <1>1, <2>3
    <3>2. StepEnds(q)'
      BY <2>1, <3>1 DEF StepEnds
    <3>3. InOrder(q)'
      BY <2>1, <3>1 DEF InOrder
    <3> QED BY <3>2, <3>3
  <2> QED BY <2>2, <2>3
<1>7. ASSUME NEW b \in Blocks PROVE BlockInv(b)'
  <2>1. BlockInv(b) /\ SameState(b) /\ InOrder(RankOf[b])
    BY <1>2, RankOfType DEF StateInv
  <2>2. CASE RankOf[b] # r
    <3>1. /\ at'[RankOf[b]] = at[RankOf[b]] /\ clk'[RankOf[b]] = clk[RankOf[b]]
          /\ \A u : Did(u, b)' <=> Did(u, b)
      BY <1>1, <1>4, <2>2, RankOfType
    <3> QED BY <1>1, <2>1, <3>1, BlockFrame
  <2>3. CASE RankOf[b] = r /\ newStage
    BY <1>1, <1>3, <2>1, <2>3, StagePassed
  <2>4. CASE RankOf[b] = r /\ ~newStage
    <3>1. \A t \in TasksOf(at[RankOf[b]], clk[RankOf[b]]) : Did(t, b)
      BY <1>1, <2>4, RegionOver
    <3> QED BY <1>1, <1>3, <2>1, <2>4, <3>1, RegionPassed
  <2> QED BY <2>2, <2>3, <2>4
<1>8. ASSUME NEW b \in Blocks, NEW u \in {"SendBoundBufs", "SetBounds"}
      PROVE  Times(u, b)' = Times(u, b)
  <2>1. CASE RankOf[b] = r
    <3>1. at[r] = 7 => Did(u, b)
      BY <1>1, <2>1, RegionOver DEF TasksOf
    <3> QED BY <1>1, <1>3, <1>5, <2>1, <3>1 DEF Times
  <2>2. CASE RankOf[b] # r
    BY <1>1, <1>4, <2>2, RankOfType DEF Times
  <2> QED BY <2>1, <2>2
<1>9. MailInv'
  BY <1>1, <1>8 DEF StateInv, MailInv, BoundsMatch, Good, Made, NetIs
<1>10. SumsInv'
  BY <1>1 DEF StateInv, SumsInv
<1> QED BY <1>6, <1>7, <1>9, <1>10 DEF StateInv

LEMMA SetGlobalKeeps ==
  ASSUME TypeOK, StateInv, SetGlobalTimeStep
  PROVE  StateInv'
<1>1. /\ \A r \in Ranks :
           /\ at[r] = 10 /\ at'[r] = 1 /\ clk'[r] = clk[r] + 1 /\ clk[r] \in Int
           /\ done'[r] = {} /\ sums'[r] = {}
      /\ bndMsg' = bndMsg
  BY DEF SetGlobalTimeStep, StepEnd, TypeOK, mail
<1>2. \A x \in Blocks : SameState(x)
  BY DEF SetGlobalTimeStep, rates, notes, SameState, SameRates, SameNotes, SameFields
<1>3. \A b \in Blocks : \A u : ~Did(u, b)'
  BY <1>1, RankOfType DEF Did
<1>4. \A r \in Ranks : StageOf(clk[r]) = NStages
  BY <1>1 DEF StateInv, StepEnds, StepEnd
<1>5. \A b \in Blocks : BlockInv(b)'
  <2> SUFFICES ASSUME NEW b \in Blocks PROVE BlockInv(b)'
    OBVIOUS
  <2>1. RankOf[b] \in Ranks /\ BlockInv(b) /\ SameState(b)
    BY <1>2, RankOfType DEF StateInv
  <2> QED BY <1>1, <1>3, <1>4, <2>1, StagePassed
<1>6. \A r \in Ranks : InOrder(r)' /\ StepEnds(r)'
  BY <1>1 DEF InOrder, StepEnds, StepEnd
<1>7. \A b \in Blocks : \A u : Times(u, b)' = Times(u, b)
  BY <1>1, RankOfType DEF Times
<1>8. MailInv'
  BY <1>1, <1>7 DEF StateInv, MailInv, BoundsMatch, Good, Made, NetIs
<1>9. SumsInv'
  BY <1>1 DEF SumsInv
<1> QED BY <1>5, <1>6, <1>8, <1>9 DEF StateInv

----------------------------------------------------------------------------
(* The theorem                                                             *)

LEMMA StateInvInit == Init => StateInv
<1> SUFFICES ASSUME Init PROVE StateInv
  OBVIOUS
<1>1. \A r \in Ranks : at[r] = 1 /\ clk[r] = 1 /\ done[r] = {} /\ sums[r] = {}
  BY DEF Init
<1>2. /\ StageOf(1) = 1 /\ Sc0(1) = Base /\ StepStart(1) = 0
  BY StagesAssumption DEF StageOf, Sc0, StepStart, Base
<1>3. ASSUME NEW b \in Blocks PROVE BlockInv(b)
  <2>1. RankOf[b] \in Ranks /\ \A u : ~Did(u, b)
    BY <1>1, RankOfType DEF Did
  <2>2. /\ \A z \in ZonesOf(b) : z \in Zone
        /\ b \in ZonesOf(b) /\ Base \in Containers
    BY MeshAssumption, StagesAssumption DEF ZonesOf, Zone, Base, Containers
  <2>3. /\ \A z \in ZonesOf(b) : prim[b][z] = Initial
        /\ cons[Base][b][b] = Initial
        /\ flux[b] = NoFlux /\ used[b] = NoUpdate
    BY <2>2 DEF Init
  <2>4. Initial.lvl = 0 /\ Initial.mag = 0 /\ Initial.by = Handlers /\ Initial.net = {}
    BY DEF Initial
  <2>n. NetIs(Initial, 0) /\ NetLevel(b) = 0 /\ clk[RankOf[b]] - 1 = 0
    <3>1. 1 .. 0 = {}
      OBVIOUS
    <3> QED BY <1>1, <2>1, <2>4, <3>1 DEF NetIs, NetLevel
  <2>5. Started(b)
    BY <2>2, <2>3, <2>4, <2>n DEF Started, Finished
  <2>6. Old(b)
    BY <1>1, <1>2, <2>1, <2>3, <2>4, <2>n DEF Old, Whole
  <2>7. BaseKept(b)
    BY <1>1, <1>2, <2>1, <2>3, <2>4 DEF BaseKept, IsBase, Whole
  <2>8. Read(b) /\ Sourced(b) /\ UsedWell(b)
    BY <1>1, <2>1, <2>3 DEF Read, Sourced, UsedWell, NoFlux, NoUpdate
  <2>9. Updated(b) /\ FixedUp(b) /\ Exchanged(b) /\ Filled(b) /\ StageOver(b)
    BY <1>1, <2>1 DEF Updated, FixedUp, Exchanged, Filled, StageOver
  <2> QED BY <2>5, <2>6, <2>7, <2>8, <2>9 DEF BlockInv
<1>4. \A r \in Ranks : InOrder(r) /\ StepEnds(r)
  BY <1>1 DEF InOrder, StepEnds, StepEnd
<1>5. \A b \in Blocks : \A u : Times(u, b) = 0
  BY <1>1, RankOfType DEF Times
<1>6. \A b, n \in Blocks : bndMsg[b][n] = {}
  BY DEF Init
<1>7. MailInv
  BY <1>5, <1>6 DEF MailInv, BoundsMatch
<1>8. SumsInv
  BY <1>1 DEF SumsInv
<1> QED BY <1>3, <1>4, <1>7, <1>8 DEF StateInv

LEMMA StateInvNext == TypeOK /\ StateInv /\ [Next]_vars => StateInv'
<1> SUFFICES ASSUME TypeOK, StateInv, [Next]_vars PROVE StateInv'
  OBVIOUS
<1>1. ASSUME NEW r \in Ranks, NEW L \in Partitions, PartitionTask(r, L)
      PROVE  StateInv'
  BY <1>1, SilentTasks, CalculateFluidSourceTermsKeeps, SumMdotPhiKeeps,
     ModifyNetFieldKeeps, CorrectionTasks, AverageKeeps, UpdateKeeps,
     FixupRegionTasks, SendKeeps, ReceiveKeeps, SetKeeps,
     CalculateFourForceKeeps, ApplyFourForceKeeps DEF PartitionTask
<1>2. ASSUME NEW r \in Ranks, NEW b \in Blocks, BlockTask(r, b)
      PROVE  StateInv'
  BY <1>2, FluxRegionTasks, PrimitiveToConservedKeeps, ApplyBCKeeps,
     ConvertBCKeeps, RefillTasks, EstimateTimestepKeeps DEF BlockTask
<1>3. ASSUME UNCHANGED vars PROVE StateInv'
  <2>1. /\ clk' = clk /\ at' = at /\ done' = done /\ bndMsg' = bndMsg
        /\ sums' = sums /\ \A x \in Blocks : SameState(x)
    BY <1>3 DEF vars, control, rates, mail, notes, SameState, SameRates,
                SameNotes, SameFields
  <2>2. \A u : \A b \in Blocks : Did(u, b)' <=> Did(u, b)
    BY <2>1 DEF Did
  <2>3. \A b \in Blocks : BlockInv(b)'
    BY <2>1, <2>2, BlockFrame DEF StateInv
  <2>4. \A r \in Ranks : InOrder(r)' /\ StepEnds(r)'
    BY <2>1 DEF StateInv, InOrder, StepEnds
  <2>5. \A u : \A b \in Blocks : Times(u, b)' = Times(u, b)
    BY <2>1, <2>2 DEF Times
  <2>6. MailInv' /\ SumsInv'
    BY <2>1, <2>5 DEF StateInv, MailInv, SumsInv, BoundsMatch, Good, Made, NetIs
  <2> QED BY <2>3, <2>4, <2>6 DEF StateInv
<1>4. CASE Next
  BY <1>1, <1>2, <1>3, <1>4, NextRegionKeeps, SetGlobalKeeps
  DEF Next, RankStep, Finish
<1>5. CASE UNCHANGED vars
  BY <1>3, <1>5
<1> QED BY <1>4, <1>5

(* Every field a task of Step reads is of the level its region works on,   *)
(* on every mesh, however far ranks run apart.                             *)
THEOREM StatesInOrder == Spec => [](TypeOK /\ StateInv)
<1>1. Init => TypeOK /\ StateInv
  BY InitType, StateInvInit
<1>2. TypeOK /\ StateInv /\ [Next]_vars => (TypeOK /\ StateInv)'
  BY NextType, StateInvNext
<1> QED BY <1>1, <1>2, PTL DEF Spec

----------------------------------------------------------------------------
(* What it says of the properties                                          *)

(* The fluxes of async_region_1, hydrodynamic and radiative, are built     *)
(* from one state, the complete result of the stage before, although       *)
(* primitives, edge states and opacities are single copies.                *)
THEOREM FluxesOfOneState == Spec => []FluxesFromOneState
<1>1. TypeOK /\ StateInv => FluxesFromOneState
  BY DEF StateInv, BlockInv, Read, FluxesFromOneState
<1> QED BY <1>1, StatesInOrder, PTL

(* No update of sync_region_3 takes the geometric sources an earlier stage *)
(* left in the container of all stages.                                    *)
THEOREM SourcesFresh == Spec => []NoStaleSources
<1>1. TypeOK /\ StateInv => NoStaleSources
  BY DEF StateInv, BlockInv, UsedWell, NoStaleSources
<1> QED BY <1>1, StatesInOrder, PTL

(* When async_region_3 is over, a block's primitives, in the interior and  *)
(* in every ghost zone, are the complete result of the stage.              *)
THEOREM GhostZonesFilled == Spec => []GhostZonesCurrent
<1>1. TypeOK /\ StateInv => GhostZonesCurrent
  BY DEF StateInv, BlockInv, StageOver, Good, Made, Finished, GhostZonesCurrent
<1> QED BY <1>1, StatesInOrder, PTL

(* EstimateTimestep of a step's last stage reads the state the next step   *)
(* starts from.                                                            *)
THEOREM TimeStepOfTheFinal == Spec => []TimeStepFromFinal
<1>1. TypeOK /\ StateInv => TimeStepFromFinal
  <2> SUFFICES ASSUME TypeOK, StateInv, NEW b \in Blocks,
                      at[RankOf[b]] >= 9, StageOf(clk[RankOf[b]]) = NStages
               PROVE  Finished(newDt[b], clk[RankOf[b]])
    BY DEF TimeStepFromFinal
  <2>1. at[RankOf[b]] \in {9, 10}
    BY ZoneStamps
  <2> QED BY <2>1 DEF StateInv, BlockInv, StageOver
<1> QED BY <1>1, StatesInOrder, PTL

(* The buffers of AddBoundaryExchangeTasks keep ranks with neighbouring    *)
(* blocks within a stage of each other: what a block sends and what its    *)
(* neighbour sets alternate, both ways.                                    *)
THEOREM StagesWithinOne == Spec => []NoStageOverrun
<1>1. TypeOK /\ StateInv => NoStageOverrun
  <2> SUFFICES ASSUME TypeOK, StateInv, NEW b \in Blocks, NEW n \in Neighbors[b]
               PROVE  /\ clk[RankOf[b]] - clk[RankOf[n]] \in -1 .. 1
                      /\ clk[RankOf[b]] > clk[RankOf[n]] => at[RankOf[n]] >= 7
    BY DEF NoStageOverrun
  <2>1. n \in Blocks /\ b \in Neighbors[n]
    BY MeshAssumption, NeighborAssumption
  <2>2. \A x \in Blocks : clk[RankOf[x]] \in Int /\ at[RankOf[x]] \in Int
    BY MeshAssumption DEF TypeOK
  <2>3. \A t : \A x \in Blocks :
          /\ Times(t, x) \in {clk[RankOf[x]] - 1, clk[RankOf[x]]}
          /\ at[RankOf[x]] < 7 => Times(t, x) = clk[RankOf[x]] - 1
    BY <2>2 DEF Times
  <2>4. /\ Times("SendBoundBufs", b) - Times("SetBounds", n) \in 0 .. 1
        /\ Times("SendBoundBufs", n) - Times("SetBounds", b) \in 0 .. 1
    <3>1. BoundsMatch(b, n) /\ BoundsMatch(n, b)
      BY <2>1 DEF StateInv, MailInv
    <3>2. \A x \in Blocks : /\ Times("SendBoundBufs", x) \in Int
                            /\ Times("SetBounds", x) \in Int
      BY <2>2, <2>3
    <3> QED BY <2>1, <3>1, <3>2 DEF BoundsMatch
  <2> QED BY <2>1, <2>2, <2>3, <2>4
<1> QED BY <1>1, StatesInOrder, PTL

(* AverageIndependentData and UpdateIndependentData combine the averaged   *)
(* result of the stage before with the complete result of the last step,   *)
(* unless the net field of several stages has been written over that one.  *)
THEOREM BaseAveragedIn ==
  ASSUME BaseSafe
  PROVE  Spec => []LowStorageCombination
<1>1. TypeOK /\ StateInv => LowStorageCombination
  BY DEF StateInv, BlockInv, UsedWell, IsBase, Whole, LowStorageCombination
<1> QED BY <1>1, StatesInOrder, PTL

(* RadiationPostStep cools the base container: the next step starts from   *)
(* that state, and every stage of it averages the cooled state in.         *)
THEOREM CoolingKept ==
  ASSUME ~PhiEnforced
  PROVE  Spec => []SplitSourceKept
<1>1. TypeOK /\ StateInv => SplitSourceKept
  <2> SUFFICES ASSUME TypeOK, StateInv, CoolingFunction, NEW b \in Blocks,
                      used[b].lvl > 0, StepStart(used[b].lvl) > 0
               PROVE  "cooling" \in used[b].base.by
    BY DEF SplitSourceKept
  <2>1. BaseSafe /\ Split
    BY DEF BaseSafe, Split
  <2> QED BY <2>1 DEF StateInv, BlockInv, UsedWell, IsBase
<1> QED BY <1>1, StatesInOrder, PTL

=============================================================================
