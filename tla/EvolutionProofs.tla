---------------------------- MODULE EvolutionProofs ----------------------------
(* The properties of Evolution for any number of ranks and stages, any     *)
(* steps the packages allow and any number of restarts.  Three invariants: *)
(* of the main loop, which keeps the ranks' steps equal without their ever *)
(* meeting inside one; of the metric, which only has to be known as of the *)
(* step's start; and of the gain, likewise.                                *)
EXTENDS Evolution, TLAPS

(* Time for the provers on a machine with other work to do *)
USE SMTT(20), ZenonT(40)

StageTasks == {"sweep", "fill_derived", "update_geom", "done"}
PostTasks == {"calc_tau", "check_do_gain", "start_reduce", "check_reduce",
              "four_force", "apply", "done"}

(* Tasks that a list may be at, by its rank's stage *)
TasksOf(s) == IF s \in 1 .. NStages THEN StageTasks
              ELSE IF s = PostStep THEN PostTasks ELSE {"done"}

Sweeps == [time : Nat, stage : 0 .. NStages, metric : Nat]

Types ==
  /\ time \in Nat
  /\ dt \in [Ranks -> Nat]
  /\ fact \in [Ranks -> {1, FactDen}]
  /\ dump \in [time : Nat, dt : Nat]
  /\ restarts \in Nat
  /\ stage \in [Ranks -> 0 .. PostStep + 1]
  /\ pc \in [Lists -> StageTasks \union PostTasks]
  /\ clock \in [Ranks -> Nat]
  /\ metric \in [Lists -> Nat]
  /\ swept \in [Lists -> Sweeps]
  /\ dense \in [Lists -> BOOLEAN]
  /\ tau \in [Lists -> BOOLEAN]
  /\ do_gain \in [Ranks -> BOOLEAN]
  /\ sent \in [Ranks -> SUBSET BOOLEAN]
  /\ force \in [Lists -> BOOLEAN]
  /\ everOpaque \in BOOLEAN
  /\ \A l \in Lists : pc[l] \in TasksOf(stage[l[1]])

----------------------------------------------------------------------------
(* The main loop: steps are positive and end at tlim at the latest         *)

(* The step that Step will choose, from what is known before it *)
Chosen(r) == Min({dt_trial(r), tlim - time})

Stepped(r) ==
  /\ dt[r] >= 1
  /\ stage[r] = 0 => dt[r] >= fact[r]
  /\ stage[r] # 0 => fact[r] = 1
  /\ IF stage[r] <= PostStep THEN time < tlim ELSE time = tlim
  /\ stage[r] \in 1 .. PostStep => dt[r] <= tlim - time

(* Ranks that have not begun the step will choose what the others chose *)
SameStep(r, q) ==
  /\ stage[r] = 0 /\ stage[q] = 0 => dt[r] = dt[q] /\ fact[r] = fact[q]
  /\ stage[r] = 0 /\ stage[q] # 0 => dt[q] = Chosen(r)
  /\ stage[r] # 0 /\ stage[q] # 0 => dt[r] = dt[q]

LoopInv ==
  /\ \A r \in Ranks : Stepped(r)
  /\ \A r \in Ranks, q \in Ranks : SameStep(r, q)
  /\ dump.dt >= 1 /\ dump.time < tlim

----------------------------------------------------------------------------
(* The metric, from the one (of time m, which is ended) that the step      *)
(* started with                                                            *)

(* What the caches hold while the sweeps of stage s run *)
Held(m, s, d) == IF s = 1 THEN m ELSE StageTime(s - 1, d)

Clocked(r) ==
  /\ stage[r] \in 1 .. NStages => clock[r] = StageTime(stage[r], dt[r])
  /\ stage[r] = PostStep => clock[r] = StageTime(NStages, dt[r])

Cached(m, l) ==
  LET r == l[1] IN
  /\ stage[r] = 0 => metric[l] = m
  /\ stage[r] \in 1 .. NStages =>
       metric[l] = IF pc[l] = "done" THEN StageTime(stage[r], dt[r])
                   ELSE Held(m, stage[r], dt[r])
  /\ stage[r] = PostStep => metric[l] = StageTime(NStages, dt[r])

(* Sweeps of the present step used what was held; older ones are older *)
SweptWith(m, l) ==
  LET r == l[1] IN
  /\ swept[l].time <= time
  /\ swept[l].stage = 0 => swept[l].metric = 0
  /\ swept[l].time = time /\ swept[l].stage # 0 =>
       /\ stage[r] # 0
       /\ swept[l].metric = Held(m, swept[l].stage, dt[r])
  /\ pc[l] \in {"fill_derived", "update_geom"} =>
       swept[l].time = time /\ swept[l].stage = stage[r]

PairSwept(l, k) ==
  swept[l].time = swept[k].time /\ swept[l].stage = swept[k].stage
    => swept[l].metric = swept[k].metric

MetricFrom(m) == \A l \in Lists : Cached(m, l) /\ SweptWith(m, l)

MetricInv ==
  /\ \A r \in Ranks : Clocked(r)
  /\ \A l \in Lists, k \in Lists : PairSwept(l, k)
  /\ ended \in 0 .. BetaUnit * time /\ MetricFrom(ended)

----------------------------------------------------------------------------
(* The gain, from the one (g) that the step started with                   *)

One(r) == <<r, 1>>

(* Where a rank is in RadiationPostStep *)
In(r, tasks) == stage[r] = PostStep /\ pc[One(r)] \in tasks
Measured(r) == In(r, PostTasks \ {"calc_tau"})
Reducing(r) == In(r, {"start_reduce", "check_reduce"})
Joined(r) == In(r, {"check_reduce", "four_force", "apply", "done"})
Reduced(r) == In(r, {"four_force", "apply", "done"})

(* What the mesh has seen, and what the rank has *)
Opaque == always_gain \/ everOpaque
Own(g, r) == g \/ tau[One(r)]

RankGain(g, r) ==
  /\ ~Reducing(r) /\ ~Reduced(r) /\ stage[r] <= PostStep => (do_gain[r] <=> g)
  /\ Reducing(r) => (do_gain[r] <=> Own(g, r))
  /\ sent[r] # NotSent <=> Joined(r)
  /\ TRUE \in sent[r] <=> Joined(r) /\ Own(g, r)
  /\ Reduced(r) => (do_gain[r] <=> Opaque) /\ \A q \in Ranks : Joined(q)
  /\ In(r, {"apply"}) => (force[One(r)] <=> Opaque)

GainFrom(g) ==
  /\ \A r \in Ranks : RankGain(g, r)
  /\ Opaque <=> g \/ \E r \in Ranks : Measured(r) /\ tau[One(r)]

GainInv == \E g \in BOOLEAN : GainFrom(g)

----------------------------------------------------------------------------
(* Arithmetic                                                              *)

LEMMA MinOfTwo ==
  ASSUME NEW a \in Int, NEW b \in Int
  PROVE  Min({a, b}) = IF a <= b THEN a ELSE b
BY DEF Min

LEMMA Quotient ==
  ASSUME NEW a \in Nat, NEW b \in Nat, b >= 1, a >= b
  PROVE  a \div b \in Nat /\ a \div b >= 1
<1>1. CASE a \div b <= 0
  BY <1>1
<1> QED BY <1>1

LEMMA Product ==
  ASSUME NEW a \in Nat, NEW b \in Nat, NEW d \in Nat, a <= b
  PROVE  a * d \in Nat /\ b * d \in Nat /\ a * d <= b * d
<1>1. PICK c \in Nat : b = a + c
  <2>1. b - a \in Nat /\ b = a + (b - a)
    OBVIOUS
  <2> QED BY <2>1
<1>2. a * d \in Nat /\ c * d \in Nat
  OBVIOUS
<1>3. b * d = a * d + c * d
  BY <1>1
<1> QED BY <1>2, <1>3

(* The clock of a stage lies in the step *)
LEMMA StageTimes ==
  ASSUME Types, NEW s \in 1 .. NStages, NEW d \in Nat
  PROVE  /\ StageTime(s, d) \in Nat
         /\ BetaUnit * time <= StageTime(s, d)
         /\ StageTime(s, d) <= BetaUnit * (time + d)
<1>1. BetaUnit \in Nat /\ time \in Nat
  BY EvolutionAssumption DEF Types
<1>2. BetaUnit * time \in Nat /\ BetaUnit * d \in Nat
  BY <1>1
<1>3. BetaUnit * (time + d) = BetaUnit * time + BetaUnit * d
  BY <1>1
<1>4. CASE s = 1
  BY <1>2, <1>3, <1>4 DEF StageTime
<1>5. CASE s > 1
  <2>1. beta[s - 1] \in Nat /\ beta[s - 1] <= BetaUnit
    <3>1. s - 1 \in 1 .. NStages - 1
      BY <1>5, EvolutionAssumption
    <3> QED BY <3>1, EvolutionAssumption
  <2>2. beta[s - 1] * d \in Nat /\ beta[s - 1] * d <= BetaUnit * d
    BY <2>1, <1>1, Product
  <2>3. StageTime(s, d) = BetaUnit * time + beta[s - 1] * d
    BY <1>5 DEF StageTime
  <2> QED BY <1>2, <1>3, <2>2, <2>3
<1> QED BY <1>4, <1>5, EvolutionAssumption

----------------------------------------------------------------------------
(* Types                                                                   *)

LEMMA TypesInit == Init => Types
<1> SUFFICES ASSUME Init PROVE Types
  OBVIOUS
<1>1. PICK limit \in Limits :
        /\ dt = [r \in Ranks |-> Min({limit, tlim})]
        /\ dump = [time |-> 0, dt |-> Min({limit, tlim})]
  BY DEF Init
<1>2. Min({limit, tlim}) \in Nat
  BY MinOfTwo, EvolutionAssumption
<1>3. dt \in [Ranks -> Nat] /\ dump \in [time : Nat, dt : Nat]
  BY <1>1, <1>2
<1>4. stage \in [Ranks -> 0 .. PostStep + 1] /\ fact \in [Ranks -> {1, FactDen}]
  BY EvolutionAssumption DEF Init, PostStep
<1>5. swept \in [Lists -> Sweeps]
  BY EvolutionAssumption DEF Init, Sweeps
<1>6. pc \in [Lists -> StageTasks \union PostTasks]
  BY DEF Init, StageTasks
<1>7. \A l \in Lists : pc[l] \in TasksOf(stage[l[1]])
  BY DEF Init, TasksOf, StageTasks, PostTasks, Lists
<1>8. /\ clock \in [Ranks -> Nat] /\ metric \in [Lists -> Nat]
      /\ sent \in [Ranks -> SUBSET BOOLEAN]
  BY DEF Init, NotSent
<1>9. /\ dense \in [Lists -> BOOLEAN] /\ tau \in [Lists -> BOOLEAN]
      /\ do_gain \in [Ranks -> BOOLEAN] /\ force \in [Lists -> BOOLEAN]
  BY EvolutionAssumption DEF Init
<1> QED BY <1>3, <1>4, <1>5, <1>6, <1>7, <1>8, <1>9 DEF Init, Types

(* Steps of one list leave every other list and the loop alone *)
LEMMA Tasks ==
  ASSUME Types, NEW l \in Lists, NEW task,
         task \in TasksOf(stage[l[1]]), Goto(l, task), UNCHANGED stage
  PROVE  /\ pc' \in [Lists -> StageTasks \union PostTasks]
         /\ \A k \in Lists : pc'[k] \in TasksOf(stage'[k[1]])
<1>1. \A k \in Lists : pc'[k] \in TasksOf(stage'[k[1]])
  BY DEF Types, Goto
<1>2. TasksOf(stage[l[1]]) \subseteq StageTasks \union PostTasks
  BY DEF TasksOf, StageTasks
<1>3. pc' \in [Lists -> StageTasks \union PostTasks]
  BY <1>2 DEF Types, Goto
<1> QED BY <1>1, <1>3

(* A task that only the stages have, or only RadiationPostStep, says where *)
(* its rank is                                                             *)
LEMMA TaskStage ==
  ASSUME Types, NEW l \in Lists
  PROVE  /\ l[1] \in Ranks /\ stage[l[1]] \in 0 .. PostStep + 1
         /\ pc[l] \in {"sweep", "fill_derived", "update_geom"}
              => stage[l[1]] \in 1 .. NStages
         /\ pc[l] \in PostTasks \ {"done"} => stage[l[1]] = PostStep
<1>1. l[1] \in Ranks
  BY DEF Lists
<1>2. stage[l[1]] \in 0 .. PostStep + 1 /\ pc[l] \in TasksOf(stage[l[1]])
  BY <1>1 DEF Types
<1> QED BY <1>1, <1>2 DEF TasksOf, StageTasks, PostTasks

LEMMA StepSize ==
  ASSUME Types, LoopInv, NEW r \in Ranks, stage[r] = 0
  PROVE  Chosen(r) \in Nat /\ Chosen(r) >= 1 /\ Chosen(r) <= tlim - time
<1>1. /\ dt[r] \in Nat /\ fact[r] \in Nat /\ fact[r] >= 1 /\ fact[r] <= FactDen
      /\ time \in Nat /\ tlim \in Nat /\ dt_init \in Nat /\ dt_init >= FactDen
  <2>1. fact[r] = 1 \/ fact[r] = FactDen
    BY DEF Types
  <2>2. FactDen \in Nat /\ FactDen >= 1
    BY EvolutionAssumption
  <2>3. dt[r] \in Nat /\ time \in Nat
    BY DEF Types
  <2>4. tlim \in Nat /\ dt_init \in Nat /\ dt_init >= FactDen
    BY EvolutionAssumption
  <2> QED BY <2>1, <2>2, <2>3, <2>4
<1>2. dt[r] >= fact[r] /\ time < tlim
  <2>1. 0 <= PostStep
    BY EvolutionAssumption DEF PostStep
  <2> QED BY <2>1 DEF LoopInv, Stepped
<1>3. Min({dt[r], dt_init}) \in Nat /\ Min({dt[r], dt_init}) >= fact[r]
  <2>1. dt_init >= fact[r] /\ dt[r] \in Int /\ dt_init \in Int /\ FactDen \in Nat
    BY <1>1, EvolutionAssumption
  <2>2. Min({dt[r], dt_init}) = IF dt[r] <= dt_init THEN dt[r] ELSE dt_init
    BY <2>1, MinOfTwo
  <2> QED BY <1>1, <1>2, <2>1, <2>2
<1>4. dt_trial(r) \in Nat /\ dt_trial(r) >= 1
  BY <1>1, <1>3, Quotient DEF dt_trial
<1> QED BY <1>1, <1>2, <1>4, MinOfTwo DEF Chosen

(* The step after a step: positive, and not past tlim *)
LEMMA NextDtRange ==
  ASSUME NEW now \in Nat, NEW old \in Nat, old >= 1, NEW limit \in Limits
  PROVE  /\ NextDt(now, old, limit) \in Nat /\ NextDt(now, old, limit) >= 1
<1>1. limit \in Nat /\ limit >= 1 /\ tlim \in Nat
  BY EvolutionAssumption
<1>2. Min({2 * old, limit}) \in Nat /\ Min({2 * old, limit}) >= 1
  BY <1>1, MinOfTwo
<1> QED BY <1>1, <1>2, MinOfTwo DEF NextDt

(* All ranks make the same step when a cycle ends *)
LEMMA CycleStep ==
  ASSUME Types, LoopInv, CycleDone
  PROVE  LET d == dt[CHOOSE r \in Ranks : TRUE] IN
         /\ d \in Nat /\ d >= 1 /\ d <= tlim - time
         /\ \A r \in Ranks : dt[r] = d
<1>1. (CHOOSE r \in Ranks : TRUE) \in Ranks
  BY EvolutionAssumption
<1>2. \A r \in Ranks : stage[r] = PostStep
  BY DEF CycleDone
<1>3. PostStep \in Nat /\ PostStep >= 1 /\ PostStep # 0
  BY EvolutionAssumption DEF PostStep
<1>4. \A r \in Ranks : dt[r] \in Nat
  BY DEF Types
<1>5. \A r \in Ranks : dt[r] >= 1 /\ dt[r] <= tlim - time
  BY <1>2, <1>3 DEF LoopInv, Stepped
<1>6. \A r \in Ranks, q \in Ranks : dt[r] = dt[q]
  BY <1>2, <1>3 DEF LoopInv, SameStep
<1> QED BY <1>1, <1>4, <1>5, <1>6

(* What a rank does on entering a stage *)
LEMMA EnterStage ==
  ASSUME Types, NEW r \in Ranks, NEW s \in 1 .. NStages, NEW d \in Nat,
         RungeKuttaStage(r, s, d)
  PROVE  /\ stage' \in [Ranks -> 0 .. PostStep + 1]
         /\ clock' \in [Ranks -> Nat]
         /\ pc' \in [Lists -> StageTasks \union PostTasks]
         /\ \A k \in Lists : pc'[k] \in TasksOf(stage'[k[1]])
<1>1. StageTime(s, d) \in Nat
  BY StageTimes
<1>2. s \in 0 .. PostStep + 1
  BY EvolutionAssumption DEF PostStep
<1>3. stage' \in [Ranks -> 0 .. PostStep + 1] /\ clock' \in [Ranks -> Nat]
  BY <1>1, <1>2 DEF Types, RungeKuttaStage
<1>4. pc' \in [Lists -> StageTasks \union PostTasks]
  BY DEF Types, RungeKuttaStage, StageTasks
<1>5. ASSUME NEW k \in Lists PROVE pc'[k] \in TasksOf(stage'[k[1]])
  <2>1. CASE k[1] = r
    BY <2>1 DEF Types, RungeKuttaStage, TasksOf, StageTasks
  <2>2. CASE k[1] # r
    <3>1. pc'[k] = pc[k] /\ stage'[k[1]] = stage[k[1]]
      BY <2>2 DEF Types, RungeKuttaStage
    <3> QED BY <3>1 DEF Types
  <2> QED BY <2>1, <2>2
<1> QED BY <1>3, <1>4, <1>5

LEMMA TypesRank ==
  ASSUME Types, LoopInv, NEW r \in Ranks, RankStep(r) PROVE Types'
<1>1. CASE Step(r)
  <2>1. Chosen(r) \in Nat /\ RungeKuttaStage(r, 1, Chosen(r))
    BY <1>1, StepSize DEF Step, Chosen
  <2>2. 1 \in 1 .. NStages
    BY EvolutionAssumption
  <2>3. dt' \in [Ranks -> Nat] /\ fact' \in [Ranks -> {1, FactDen}]
    BY <1>1, <2>1 DEF Types, Step, Chosen
  <2> QED BY <1>1, <2>1, <2>2, <2>3, EnterStage DEF Types, Step, bulb
<1>2. CASE NextStage(r)
  <2>1. stage[r] + 1 \in 1 .. NStages /\ dt[r] \in Nat
    <3>1. stage[r] \in 1 .. NStages - 1
      BY <1>2 DEF NextStage
    <3>2. NStages \in Nat
      BY EvolutionAssumption
    <3>3. dt[r] \in Nat
      BY DEF Types
    <3> QED BY <3>1, <3>2, <3>3
  <2> QED BY <1>2, <2>1, EnterStage DEF Types, NextStage, bulb, loop
<1>3. CASE RadiationPostStep(r)
  <2>1. stage' \in [Ranks -> 0 .. PostStep + 1]
    BY <1>3, EvolutionAssumption DEF RadiationPostStep, Types, PostStep
  <2>2. pc' \in [Lists -> StageTasks \union PostTasks]
    BY <1>3 DEF RadiationPostStep, Types, PostTasks
  <2>3. ASSUME NEW k \in Lists PROVE pc'[k] \in TasksOf(stage'[k[1]])
    <3>1. CASE k[1] = r
      BY <1>3, <3>1, EvolutionAssumption
      DEF RadiationPostStep, Types, TasksOf, PostTasks, PostStep
    <3>2. CASE k[1] # r
      <4>1. pc'[k] = pc[k] /\ stage'[k[1]] = stage[k[1]]
        BY <1>3, <3>2 DEF Types, RadiationPostStep
      <4> QED BY <4>1 DEF Types
    <3> QED BY <3>1, <3>2
  <2> QED BY <1>3, <2>1, <2>2, <2>3 DEF Types, RadiationPostStep, bulb, loop, space
<1>4. CASE StartReduce(r)
  <2>1. One(r) \in Lists
    BY EvolutionAssumption DEF One, Lists, Parts
  <2>2. stage[One(r)[1]] = PostStep
    BY <1>4, <2>1, TaskStage DEF StartReduce, At, One, PostTasks
  <2>3. "check_reduce" \in TasksOf(stage[One(r)[1]])
    BY <2>2, EvolutionAssumption DEF TasksOf, PostTasks, PostStep
  <2>4. sent' \in [Ranks -> SUBSET BOOLEAN]
    BY <1>4 DEF StartReduce, Types
  <2> QED BY <1>4, <2>1, <2>3, <2>4, Tasks DEF Types, StartReduce, One, loop, space
<1>5. CASE CheckReduce(r)
  <2>1. One(r) \in Lists
    BY EvolutionAssumption DEF One, Lists, Parts
  <2>2. stage[One(r)[1]] = PostStep
    BY <1>5, <2>1, TaskStage DEF CheckReduce, At, One, PostTasks
  <2>3. "four_force" \in TasksOf(stage[One(r)[1]])
    BY <2>2, EvolutionAssumption DEF TasksOf, PostTasks, PostStep
  <2>4. do_gain' \in [Ranks -> BOOLEAN]
    BY <1>5 DEF CheckReduce, Types
  <2>5. Goto(One(r), "four_force")
    BY <1>5 DEF CheckReduce, Goto, One
  <2> QED BY <1>5, <2>1, <2>3, <2>4, <2>5, Tasks DEF Types, CheckReduce, loop, space
<1>6. ASSUME NEW l \in OfRank(r), ListStep(l) PROVE Types'
  <2>1. l \in Lists /\ l[1] = r
    BY DEF OfRank
  <2>2. r \in Ranks /\ time \in Nat /\ NStages \in Nat
    BY EvolutionAssumption DEF Types
  <2>3. CASE Sweep(l)
    <3>1. stage[r] \in 1 .. NStages
      BY <2>1, <2>3, TaskStage DEF Sweep, At
    <3>2. "fill_derived" \in TasksOf(stage[l[1]])
      BY <2>1, <3>1 DEF TasksOf, StageTasks
    <3>3. swept' \in [Lists -> Sweeps]
      BY <2>1, <2>2, <2>3, <3>1 DEF Sweep, Types, Sweeps, Metric
    <3> QED BY <2>1, <2>3, <3>2, <3>3, Tasks DEF Sweep, Types, loop, bulb
  <2>4. CASE FillDerived(l)
    <3>1. stage[r] \in 1 .. NStages
      BY <2>1, <2>4, TaskStage DEF FillDerived, At
    <3>2. "update_geom" \in TasksOf(stage[l[1]])
      BY <2>1, <3>1 DEF TasksOf, StageTasks
    <3>3. dense' \in [Lists -> BOOLEAN]
      BY <2>1, <2>4 DEF FillDerived, Types
    <3> QED BY <2>1, <2>4, <3>2, <3>3, Tasks DEF FillDerived, Types, loop, space
  <2>5. CASE UpdateGeometry(l)
    <3>1. stage[r] \in 1 .. NStages
      BY <2>1, <2>5, TaskStage DEF UpdateGeometry, At
    <3>2. "done" \in TasksOf(stage[l[1]])
      BY <2>1, <3>1 DEF TasksOf, StageTasks
    <3>3. metric' \in [Lists -> Nat]
      BY <2>1, <2>5 DEF UpdateGeometry, SetGeometry, CoordinateSystem, Types
    <3> QED BY <2>1, <2>5, <3>2, <3>3, Tasks DEF UpdateGeometry, Types, loop, bulb
  <2>6. CASE LightBulbCalcTau(l)
    <3>1. stage[r] = PostStep
      BY <2>1, <2>6, TaskStage DEF LightBulbCalcTau, At, PostTasks
    <3>2. "check_do_gain" \in TasksOf(stage[l[1]])
      BY <2>1, <3>1, EvolutionAssumption DEF TasksOf, PostTasks, PostStep
    <3>3. tau' \in [Lists -> BOOLEAN] /\ everOpaque' \in BOOLEAN
      BY <2>1, <2>6 DEF LightBulbCalcTau, Types
    <3> QED BY <2>1, <2>6, <3>2, <3>3, Tasks DEF LightBulbCalcTau, Types, loop, space
  <2>7. CASE CheckDoGain(l)
    <3>1. stage[r] = PostStep
      BY <2>1, <2>7, TaskStage DEF CheckDoGain, At, PostTasks
    <3>2. {"start_reduce", "check_reduce"} \subseteq TasksOf(stage[l[1]])
      BY <2>1, <3>1, EvolutionAssumption DEF TasksOf, PostTasks, PostStep
    <3>3. do_gain' \in [Ranks -> BOOLEAN]
      BY <2>1, <2>7 DEF CheckDoGain, Types
    <3> QED BY <2>1, <2>7, <3>2, <3>3, Tasks DEF CheckDoGain, Types, loop, space
  <2>8. CASE CalculateFourForce(l)
    <3>1. stage[r] = PostStep
      BY <2>1, <2>8, TaskStage DEF CalculateFourForce, At, PostTasks
    <3>2. "apply" \in TasksOf(stage[l[1]])
      BY <2>1, <3>1, EvolutionAssumption DEF TasksOf, PostTasks, PostStep
    <3>3. force' \in [Lists -> BOOLEAN]
      BY <2>1, <2>8 DEF CalculateFourForce, Heated, Types
    <3> QED BY <2>1, <2>8, <3>2, <3>3, Tasks DEF CalculateFourForce, Types, loop, space
  <2>9. CASE ApplyRadiationFourForce(l)
    <3>1. stage[r] = PostStep
      BY <2>1, <2>9, TaskStage DEF ApplyRadiationFourForce, At, PostTasks
    <3>2. "done" \in TasksOf(stage[l[1]])
      BY <2>1, <3>1, EvolutionAssumption DEF TasksOf, PostTasks, PostStep
    <3> QED BY <2>1, <2>9, <3>2, Tasks
            DEF ApplyRadiationFourForce, Types, loop, space, bulb
  <2> QED BY <1>6, <2>3, <2>4, <2>5, <2>6, <2>7, <2>8, <2>9 DEF ListStep
<1> QED BY <1>1, <1>2, <1>3, <1>4, <1>5, <1>6 DEF RankStep

LEMMA TypesNext ==
  ASSUME Types, LoopInv, [Next]_vars PROVE Types'
<1>1. PostStep \in Nat /\ PostStep >= 2 /\ PostStep = NStages + 1
  BY EvolutionAssumption DEF PostStep
<1>2. CASE NextCycle
  <2>1. PICK limit \in Limits, S \in SUBSET Lists : EndCycle(limit, S)
    BY <1>2 DEF NextCycle
  <2> DEFINE d == dt[CHOOSE r \in Ranks : TRUE]
  <2>2. CycleDone /\ d \in Nat /\ \A r \in Ranks : dt[r] = d /\ dt[r] >= 1
    BY <2>1, CycleStep DEF EndCycle
  <2>3. time' \in Nat
    BY <2>1, <2>2 DEF EndCycle, Types
  <2>4. \A r \in Ranks : NextDt(time', dt[r], limit) \in Nat
    BY <2>2, <2>3, NextDtRange DEF Types
  <2>5. dt' \in [Ranks -> Nat]
    BY <2>1, <2>4 DEF EndCycle
  <2>6. stage' \in [Ranks -> 0 .. PostStep + 1]
    BY <2>1, <1>1 DEF EndCycle
  <2>7. \A l \in Lists : pc'[l] \in TasksOf(stage'[l[1]])
    <3>1. ASSUME NEW l \in Lists PROVE pc'[l] = "done" /\ l[1] \in Ranks
      BY <2>1 DEF EndCycle, CycleDone, AllDone, At, OfRank, Lists
    <3>2. \A s : "done" \in TasksOf(s)
      BY DEF TasksOf, StageTasks, PostTasks
    <3> QED BY <3>1, <3>2
  <2>8. metric' \in [Lists -> Nat]
    <3>1. \A l \in Lists : clock[l[1]] \in Nat /\ metric[l] \in Nat
      BY DEF Lists, Types
    <3> QED BY <2>1, <3>1 DEF EndCycle, Remade, CoordinateSystem
  <2>9. sent' \in [Ranks -> SUBSET BOOLEAN]
    BY <2>1 DEF EndCycle, NotSent
  <2> QED BY <2>1, <2>3, <2>5, <2>6, <2>7, <2>8, <2>9 DEF EndCycle, Types
<1>3. CASE WriteRestart
  <2>1. (CHOOSE r \in Ranks : TRUE) \in Ranks
    BY EvolutionAssumption
  <2>2. dump' \in [time : Nat, dt : Nat]
    BY <1>3, <2>1 DEF WriteRestart, Types
  <2> QED BY <1>3, <2>2 DEF WriteRestart, Types, space, bulb
<1>4. CASE Restart
  <2>1. dump.time \in Nat /\ dump.dt \in Nat /\ restarts + 1 \in Nat
    BY DEF Types
  <2>2. stage' \in [Ranks -> 0 .. PostStep + 1] /\ fact' \in [Ranks -> {1, FactDen}]
    BY <1>1, <1>4 DEF Restart
  <2>3. pc' \in [Lists -> StageTasks \union PostTasks]
    BY <1>4 DEF Restart, StageTasks
  <2>4. \A l \in Lists : pc'[l] \in TasksOf(stage'[l[1]])
    BY <1>4 DEF Restart, TasksOf, StageTasks, PostTasks
  <2>5. swept' \in [Lists -> Sweeps]
    BY <1>4, EvolutionAssumption DEF Restart, Sweeps
  <2>6. do_gain' \in [Ranks -> BOOLEAN] /\ sent' \in [Ranks -> SUBSET BOOLEAN]
    BY <1>4, EvolutionAssumption DEF Restart, NotSent
  <2>7. /\ clock' \in [Ranks -> Nat] /\ metric' \in [Lists -> Nat]
        /\ tau' \in [Lists -> BOOLEAN] /\ force' \in [Lists -> BOOLEAN]
    BY <1>4 DEF Restart
  <2> QED BY <1>4, <2>1, <2>2, <2>3, <2>4, <2>5, <2>6, <2>7 DEF Restart, Types
<1>5. CASE UNCHANGED vars
  BY <1>5 DEF vars, loop, space, bulb, Types
<1>6. CASE Finish
  BY <1>5, <1>6 DEF Finish
<1> QED BY <1>2, <1>3, <1>4, <1>5, <1>6, TypesRank DEF Next

----------------------------------------------------------------------------
(* The main loop                                                           *)

LEMMA PostStepIs == PostStep \in Nat /\ PostStep = NStages + 1 /\ NStages >= 1 /\ NStages \in Nat
BY EvolutionAssumption DEF PostStep

LEMMA LoopInit == Init => LoopInv
<1> SUFFICES ASSUME Init PROVE LoopInv
  OBVIOUS
<1>1. PICK limit \in Limits :
        /\ dt = [r \in Ranks |-> Min({limit, tlim})]
        /\ dump = [time |-> 0, dt |-> Min({limit, tlim})]
  BY DEF Init
<1>2. /\ limit \in Nat /\ limit >= FactDen /\ tlim \in Nat /\ tlim >= FactDen
      /\ FactDen \in Nat /\ FactDen >= 1
  BY EvolutionAssumption
<1>3. Min({limit, tlim}) >= FactDen /\ Min({limit, tlim}) >= 1
  BY <1>2, MinOfTwo
<1>4. /\ \A r \in Ranks : dt[r] = Min({limit, tlim}) /\ fact[r] = FactDen /\ stage[r] = 0
      /\ time = 0
  BY <1>1 DEF Init
<1>5. \A r \in Ranks : Stepped(r)
  BY <1>2, <1>3, <1>4, PostStepIs DEF Stepped
<1>6. \A r \in Ranks, q \in Ranks : SameStep(r, q)
  BY <1>4 DEF SameStep
<1>7. dump.dt >= 1 /\ dump.time < tlim
  BY <1>1, <1>2, <1>3
<1> QED BY <1>5, <1>6, <1>7 DEF LoopInv

LEMMA LoopUnchanged ==
  ASSUME LoopInv, UNCHANGED <<loop, stage>> PROVE LoopInv'
BY DEF LoopInv, loop, Stepped, SameStep, Chosen, dt_trial

(* From one stage to the next *)
LEMMA LoopStage ==
  ASSUME Types, LoopInv, NEW r \in Ranks, NEW s \in 1 .. PostStep,
         stage[r] \in 1 .. NStages, stage' = [stage EXCEPT ![r] = s], UNCHANGED loop
  PROVE  LoopInv'
<1>1. /\ stage'[r] = s /\ s # 0 /\ stage[r] # 0 /\ stage[r] <= PostStep
      /\ stage[r] \in 1 .. PostStep /\ \A q \in Ranks \ {r} : stage'[q] = stage[q]
  BY PostStepIs DEF Types
<1>2. UNCHANGED <<time, dt, fact, dump>> /\ \A q \in Ranks : Chosen(q)' = Chosen(q)
  BY DEF loop, Chosen, dt_trial
<1>3. \A q \in Ranks : Stepped(q)'
  <2>1. Stepped(r)'
    BY <1>1, <1>2 DEF LoopInv, Stepped
  <2>2. ASSUME NEW q \in Ranks \ {r} PROVE Stepped(q)'
    <3>1. Stepped(q) /\ stage'[q] = stage[q]
      BY <1>1 DEF LoopInv
    <3> QED BY <1>2, <3>1 DEF Stepped
  <2> QED BY <2>1, <2>2
<1>4. ASSUME NEW q \in Ranks, NEW u \in Ranks PROVE SameStep(q, u)'
  <2>1. SameStep(q, u)
    BY DEF LoopInv
  <2>2. (stage'[q] = 0 <=> stage[q] = 0) /\ (stage'[u] = 0 <=> stage[u] = 0)
    BY <1>1
  <2> QED BY <1>2, <2>1, <2>2 DEF SameStep
<1> QED BY <1>2, <1>3, <1>4 DEF LoopInv

LEMMA LoopStep ==
  ASSUME Types, LoopInv, NEW r \in Ranks, Step(r) PROVE LoopInv'
<1> DEFINE d == Chosen(r)
<1>1. d \in Nat /\ d >= 1 /\ d <= tlim - time
  BY StepSize DEF Step
<1>2. /\ stage[r] = 0 /\ dt'[r] = d /\ stage'[r] = 1 /\ fact'[r] = 1
      /\ \A q \in Ranks \ {r} : dt'[q] = dt[q] /\ stage'[q] = stage[q] /\ fact'[q] = fact[q]
  BY DEF Step, Chosen, RungeKuttaStage, Types
<1>3. UNCHANGED <<time, dump>> /\ time \in Nat /\ tlim \in Nat
  BY EvolutionAssumption DEF Step, Types
<1>4. \A q \in Ranks \ {r} : Chosen(q)' = Chosen(q)
  BY <1>2, <1>3 DEF Chosen, dt_trial
<1>5. \A q \in Ranks : Stepped(q)'
  <2>1. Stepped(r)'
    BY <1>1, <1>2, <1>3, PostStepIs DEF Stepped
  <2>2. ASSUME NEW q \in Ranks \ {r} PROVE Stepped(q)'
    <3>1. Stepped(q) /\ stage'[q] = stage[q] /\ dt'[q] = dt[q] /\ fact'[q] = fact[q]
      BY <1>2 DEF LoopInv
    <3> QED BY <1>3, <3>1 DEF Stepped
  <2> QED BY <2>1, <2>2
<1>6. ASSUME NEW q \in Ranks \ {r} PROVE SameStep(r, q)' /\ SameStep(q, r)'
  <2>1. SameStep(r, q) /\ SameStep(q, r)
    BY DEF LoopInv
  <2>2. CASE stage[q] = 0
    <3>1. Chosen(q) = d
      BY <1>2, <2>1, <2>2 DEF SameStep, Chosen, dt_trial
    <3> QED BY <1>2, <1>4, <2>2, <3>1 DEF SameStep
  <2>3. CASE stage[q] # 0
    BY <1>2, <2>1, <2>3 DEF SameStep
  <2> QED BY <2>2, <2>3
<1>7. ASSUME NEW q \in Ranks \ {r}, NEW u \in Ranks \ {r} PROVE SameStep(q, u)'
  <2>1. SameStep(q, u)
    BY DEF LoopInv
  <2> QED BY <1>2, <1>4, <2>1 DEF SameStep
<1>8. SameStep(r, r)'
  BY <1>2 DEF SameStep
<1> QED BY <1>3, <1>5, <1>6, <1>7, <1>8 DEF LoopInv

(* Actions that move no rank from stage to stage *)
LEMMA ListLoop ==
  ASSUME NEW r \in Ranks, RankStep(r), ~Step(r), ~NextStage(r), ~RadiationPostStep(r)
  PROVE  UNCHANGED <<loop, stage>>
<1>1. CASE StartReduce(r) \/ CheckReduce(r)
  BY <1>1 DEF StartReduce, CheckReduce
<1>2. ASSUME NEW l \in OfRank(r), ListStep(l) PROVE UNCHANGED <<loop, stage>>
  BY <1>2 DEF ListStep, Sweep, FillDerived, UpdateGeometry, LightBulbCalcTau,
     CheckDoGain, CalculateFourForce, ApplyRadiationFourForce
<1> QED BY <1>1, <1>2 DEF RankStep

LEMMA LoopRank ==
  ASSUME Types, LoopInv, NEW r \in Ranks, RankStep(r) PROVE LoopInv'
<1>1. CASE Step(r)
  BY <1>1, LoopStep
<1>2. CASE NextStage(r)
  <2>1. /\ stage[r] \in 1 .. NStages /\ stage[r] + 1 \in 1 .. PostStep
        /\ stage' = [stage EXCEPT ![r] = stage[r] + 1] /\ UNCHANGED loop
    BY <1>2, PostStepIs DEF NextStage, RungeKuttaStage
  <2> QED BY <2>1, LoopStage
<1>3. CASE RadiationPostStep(r)
  <2>1. /\ stage[r] \in 1 .. NStages /\ PostStep \in 1 .. PostStep
        /\ stage' = [stage EXCEPT ![r] = PostStep] /\ UNCHANGED loop
    BY <1>3, PostStepIs DEF RadiationPostStep
  <2> QED BY <2>1, LoopStage
<1>4. CASE ~Step(r) /\ ~NextStage(r) /\ ~RadiationPostStep(r)
  BY <1>4, ListLoop, LoopUnchanged
<1> QED BY <1>1, <1>2, <1>3, <1>4

LEMMA LoopNext ==
  ASSUME Types, LoopInv, [Next]_vars PROVE LoopInv'
<1>1. CASE NextCycle
  <2>1. PICK limit \in Limits, S \in SUBSET Lists : EndCycle(limit, S)
    BY <1>1 DEF NextCycle
  <2> DEFINE d == dt[CHOOSE r \in Ranks : TRUE]
  <2>2. /\ d \in Nat /\ d >= 1 /\ d <= tlim - time
        /\ \A r \in Ranks : dt[r] = d /\ stage[r] = PostStep
    BY <2>1, CycleStep DEF EndCycle, CycleDone
  <2> DEFINE e == NextDt(time + d, d, limit)
  <2>3. time + d \in Nat /\ time' = time + d
    BY <2>1, <2>2 DEF EndCycle, Types
  <2>4. e \in Nat /\ e >= 1
    BY <2>2, <2>3, NextDtRange
  <2>5. \A r \in Ranks : dt'[r] = e /\ fact'[r] = 1
    <3>1. \A r \in Ranks : fact[r] = 1
      BY <2>2, PostStepIs DEF LoopInv, Stepped
    <3> QED BY <2>1, <2>2, <3>1 DEF EndCycle
  <2>6. \A r \in Ranks : stage'[r] = IF time' < tlim THEN 0 ELSE PostStep + 1
    BY <2>1 DEF EndCycle
  <2>7. \A r \in Ranks : Stepped(r)'
    <3>1. time' <= tlim /\ time' \in Nat /\ tlim \in Nat
      <4>1. time \in Nat /\ tlim \in Nat
        BY EvolutionAssumption DEF Types
      <4> QED BY <2>2, <2>3, <4>1
    <3> QED BY <2>4, <2>5, <2>6, <3>1, PostStepIs DEF Stepped
  <2>8. \A r \in Ranks, q \in Ranks : SameStep(r, q)'
    BY <2>5, <2>6, PostStepIs DEF SameStep
  <2>9. UNCHANGED dump
    BY <2>1 DEF EndCycle
  <2> QED BY <2>7, <2>8, <2>9 DEF LoopInv
<1>2. CASE WriteRestart
  <2>1. PICK r \in Ranks : r = CHOOSE q \in Ranks : TRUE
    BY EvolutionAssumption
  <2>2. dump'.time = time /\ dump'.dt = dt[r] /\ stage[r] = 0
    BY <1>2, <2>1 DEF WriteRestart, BetweenSteps
  <2>3. time < tlim /\ dt[r] >= 1
    BY <2>2, PostStepIs DEF LoopInv, Stepped
  <2>4. \A q \in Ranks : Stepped(q)'
    BY <1>2 DEF LoopInv, WriteRestart, Stepped
  <2>5. \A q \in Ranks, u \in Ranks : SameStep(q, u)'
    <3>1. UNCHANGED <<time, dt, fact, stage>>
      BY <1>2 DEF WriteRestart
    <3>2. ASSUME NEW q \in Ranks PROVE Chosen(q)' = Chosen(q)
      BY <3>1 DEF Chosen, dt_trial
    <3>3. ASSUME NEW q \in Ranks, NEW u \in Ranks PROVE SameStep(q, u)'
      <4>1. SameStep(q, u)
        BY DEF LoopInv
      <4> QED BY <3>1, <3>2, <4>1 DEF SameStep
    <3> QED BY <3>3
  <2> QED BY <2>2, <2>3, <2>4, <2>5 DEF LoopInv
<1>3. CASE Restart
  <2>1. /\ time' = dump.time /\ dump' = dump
        /\ \A r \in Ranks : dt'[r] = dump.dt /\ fact'[r] = 1 /\ stage'[r] = 0
    BY <1>3 DEF Restart
  <2>2. dump.dt \in Nat /\ dump.time \in Nat /\ dump.dt >= 1 /\ dump.time < tlim
    BY DEF Types, LoopInv
  <2>3. \A q \in Ranks : Stepped(q)'
    BY <2>1, <2>2, PostStepIs DEF Stepped
  <2>4. \A q \in Ranks, u \in Ranks : SameStep(q, u)'
    BY <2>1 DEF SameStep
  <2> QED BY <2>1, <2>2, <2>3, <2>4 DEF LoopInv
<1>4. CASE UNCHANGED vars
  BY <1>4, LoopUnchanged DEF vars
<1>5. CASE Finish
  BY <1>4, <1>5 DEF Finish
<1> QED BY <1>1, <1>2, <1>3, <1>4, <1>5, LoopRank DEF Next

(* For any limits of the packages and any restarts: steps are positive,    *)
(* none passes tlim, and ranks that are not at the same stage still make   *)
(* the same step, whichever of dt_init, dt_init_fact and tlim has set it.  *)
THEOREM LoopInvariant == Spec => [](Types /\ LoopInv)
<1>1. Init => Types /\ LoopInv
  BY TypesInit, LoopInit
<1>2. Types /\ LoopInv /\ [Next]_vars => (Types /\ LoopInv)'
  BY TypesNext, LoopNext
<1> QED BY <1>1, <1>2, PTL DEF Spec

----------------------------------------------------------------------------
(* The metric                                                              *)

LEMMA FromEnded ==
  ASSUME NEW m, ended' = m, m \in 0 .. BetaUnit * time',
         \A l \in Lists : Cached(m, l)' /\ SweptWith(m, l)',
         \A r \in Ranks : Clocked(r)', \A l \in Lists, k \in Lists : PairSwept(l, k)'
  PROVE  MetricInv'
<1>1. \A l \in Lists : Cached(ended, l)' /\ SweptWith(ended, l)'
  BY DEF Cached, SweptWith, Held, StageTime
<1> QED BY <1>1 DEF MetricInv, MetricFrom

LEMMA MetricInit == Init => MetricInv
<1> SUFFICES ASSUME Init PROVE MetricInv
  OBVIOUS
<1>1. /\ \A l \in Lists : metric[l] = 0 /\ pc[l] = "done" /\ l[1] \in Ranks
      /\ \A l \in Lists : swept[l] = [time |-> 0, stage |-> 0, metric |-> 0]
      /\ \A r \in Ranks : stage[r] = 0
      /\ time = 0 /\ ended = 0
  BY DEF Init, Lists
<1>2. MetricFrom(ended)
  BY <1>1, PostStepIs DEF MetricFrom, Cached, SweptWith
<1>3. ended \in 0 .. BetaUnit * time
  BY <1>1, EvolutionAssumption
<1>4. \A r \in Ranks : Clocked(r)
  BY <1>1, PostStepIs DEF Clocked
<1>5. \A l \in Lists, k \in Lists : PairSwept(l, k)
  BY <1>1 DEF PairSwept
<1> QED BY <1>2, <1>3, <1>4, <1>5 DEF MetricInv

(* A list, or a rank, that a step leaves alone *)
SameList(l) ==
  /\ dt'[l[1]] = dt[l[1]] /\ stage'[l[1]] = stage[l[1]]
  /\ pc'[l] = pc[l] /\ metric'[l] = metric[l] /\ swept'[l] = swept[l]

LEMMA OtherList ==
  ASSUME NEW m, NEW l \in Lists, Cached(m, l), SweptWith(m, l), time' = time, SameList(l)
  PROVE  Cached(m, l)' /\ SweptWith(m, l)'
<1>1. \A s, d : StageTime(s, d)' = StageTime(s, d)
  BY DEF StageTime
<1>2. Cached(m, l)'
  BY <1>1 DEF Cached, Held, SameList, StageTime
<1>3. SweptWith(m, l)'
  BY <1>1 DEF SweptWith, Held, SameList, StageTime
<1> QED BY <1>2, <1>3

LEMMA OtherClock ==
  ASSUME NEW r \in Ranks, Clocked(r), time' = time,
         dt'[r] = dt[r], stage'[r] = stage[r], clock'[r] = clock[r]
  PROVE  Clocked(r)'
BY DEF Clocked, StageTime

(* Lists whose metric and sweep stay, while their rank enters stage s *)
LEMMA Entered ==
  ASSUME Types, LoopInv, NEW m, NEW r \in Ranks, NEW s \in 1 .. NStages, NEW d \in Nat,
         MetricFrom(m), RungeKuttaStage(r, s, d), dt' = [dt EXCEPT ![r] = d],
         UNCHANGED <<time, metric, swept>>,
         \A l \in OfRank(r) : metric[l] = Held(m, s, d),
         stage[r] = 0 \/ (stage[r] # 0 /\ d = dt[r])
  PROVE  MetricFrom(m)'
<1>1. \A u, e : StageTime(u, e)' = StageTime(u, e)
  BY DEF StageTime
<1>2. /\ \A q \in Ranks \ {r} : dt'[q] = dt[q] /\ stage'[q] = stage[q]
      /\ dt'[r] = d /\ stage'[r] = s /\ s # 0
      /\ \A l \in Lists : pc'[l] = IF l[1] = r THEN "sweep" ELSE pc[l]
  BY DEF Types, RungeKuttaStage
<1>3. ASSUME NEW l \in Lists PROVE Cached(m, l)' /\ SweptWith(m, l)'
  <2>1. Cached(m, l) /\ SweptWith(m, l) /\ l[1] \in Ranks
    BY DEF MetricFrom, Lists
  <2>2. CASE l[1] # r
    <3>1. SameList(l)
      BY <1>2, <2>1, <2>2 DEF SameList
    <3> QED BY <2>1, <3>1, OtherList
  <2>3. CASE l[1] = r
    <3>1. metric'[l] = Held(m, s, d) /\ pc'[l] = "sweep" /\ swept'[l] = swept[l]
      BY <1>2, <2>3 DEF OfRank
    <3>2. \A u : Held(m, u, d)' = Held(m, u, d)
      BY <1>1 DEF Held
    <3>3. Cached(m, l)'
      <4>1. Held(m, s, d)' = Held(m, s, d) /\ stage'[l[1]] = s /\ dt'[l[1]] = d /\ s # PostStep
        BY <1>2, <2>3, <3>2, PostStepIs
      <4> QED BY <3>1, <4>1, <2>3, <1>1 DEF Cached, Held, StageTime
    <3>4. SweptWith(m, l)'
      <4>1. CASE stage[r] = 0
        BY <1>2, <2>1, <2>3, <3>1, <4>1 DEF SweptWith
      <4>2. CASE stage[r] # 0 /\ d = dt[r]
        BY <1>1, <1>2, <2>1, <2>3, <3>1, <4>2 DEF SweptWith, Held, StageTime
      <4> QED BY <4>1, <4>2
    <3> QED BY <3>3, <3>4
  <2> QED BY <2>2, <2>3
<1> QED BY <1>3 DEF MetricFrom

LEMMA EnteredClock ==
  ASSUME Types, NEW r \in Ranks, NEW s \in 1 .. NStages, NEW d \in Nat,
         \A q \in Ranks : Clocked(q),
         RungeKuttaStage(r, s, d), dt' = [dt EXCEPT ![r] = d], time' = time
  PROVE  \A q \in Ranks : Clocked(q)'
<1>1. /\ dt'[r] = d /\ stage'[r] = s /\ clock'[r] = StageTime(s, d) /\ s # PostStep
      /\ \A q \in Ranks \ {r} : /\ dt'[q] = dt[q] /\ stage'[q] = stage[q]
                                /\ clock'[q] = clock[q]
  BY PostStepIs DEF Types, RungeKuttaStage
<1>2. Clocked(r)'
  BY <1>1 DEF Clocked, StageTime
<1>3. \A q \in Ranks \ {r} : Clocked(q)'
  BY <1>1, OtherClock
<1> QED BY <1>2, <1>3

LEMMA MetricStage ==
  ASSUME Types, LoopInv, MetricInv, NEW r \in Ranks, Step(r) \/ NextStage(r)
  PROVE  MetricInv'
<1>1. PICK m \in 0 .. BetaUnit * time : m = ended /\ MetricFrom(m)
  BY DEF MetricInv
<1>2. PICK s \in 1 .. NStages, d \in Nat :
        /\ RungeKuttaStage(r, s, d) /\ dt' = [dt EXCEPT ![r] = d]
        /\ UNCHANGED <<time, metric, swept, ended>>
        /\ \A l \in OfRank(r) : metric[l] = Held(m, s, d)
        /\ stage[r] = 0 \/ (stage[r] # 0 /\ d = dt[r])
  <2>1. CASE Step(r)
    <3>1. stage[r] = 0 /\ Chosen(r) \in Nat
      BY <2>1, StepSize DEF Step
    <3>2. /\ RungeKuttaStage(r, 1, Chosen(r)) /\ dt' = [dt EXCEPT ![r] = Chosen(r)]
          /\ UNCHANGED <<time, metric, swept, ended>>
      BY <2>1 DEF Step, Chosen
    <3>3. \A l \in OfRank(r) : metric[l] = Held(m, 1, Chosen(r))
      BY <1>1, <3>1 DEF MetricFrom, Cached, OfRank, Held
    <3>4. 1 \in 1 .. NStages
      BY PostStepIs
    <3> QED BY <3>1, <3>2, <3>3, <3>4
  <2>2. CASE NextStage(r)
    <3>1. /\ stage[r] \in 1 .. NStages - 1 /\ AllDone(r) /\ dt[r] \in Nat
          /\ RungeKuttaStage(r, stage[r] + 1, dt[r])
          /\ UNCHANGED <<loop, metric, swept, ended>>
      BY <2>2 DEF NextStage, Types
    <3>2. /\ stage[r] + 1 \in 1 .. NStages /\ stage[r] # 0 /\ stage[r] \in 1 .. NStages
          /\ stage[r] + 1 # 1 /\ (stage[r] + 1) - 1 = stage[r]
      BY <3>1, PostStepIs
    <3>3. ASSUME NEW l \in OfRank(r) PROVE metric[l] = Held(m, stage[r] + 1, dt[r])
      <4>1. l \in Lists /\ l[1] = r /\ pc[l] = "done"
        BY <3>1 DEF OfRank, AllDone, At
      <4>2. metric[l] = StageTime(stage[r], dt[r])
        BY <1>1, <3>2, <4>1 DEF MetricFrom, Cached
      <4> QED BY <3>2, <4>2 DEF Held
    <3>4. dt' = [dt EXCEPT ![r] = dt[r]] /\ time' = time
      BY <3>1 DEF Types, loop
    <3> QED BY <3>1, <3>2, <3>3, <3>4
  <2> QED BY <2>1, <2>2
<1>3. MetricFrom(m)'
  BY <1>1, <1>2, Entered
<1>4. \A q \in Ranks : Clocked(q)'
  BY <1>2, EnteredClock DEF MetricInv
<1>5. \A l \in Lists, k \in Lists : PairSwept(l, k)'
  BY <1>2 DEF MetricInv, PairSwept
<1>6. ended' = m /\ m \in 0 .. BetaUnit * time'
  BY <1>1, <1>2
<1>7. \A l \in Lists : Cached(m, l)' /\ SweptWith(m, l)'
  BY <1>3 DEF MetricFrom
<1> QED BY <1>4, <1>5, <1>6, <1>7, FromEnded

(* Steps that touch no metric: nor the loop, the stage or a sweep; a list  *)
(* may go on within its stage                                              *)
LEMMA MetricKept ==
  ASSUME Types, LoopInv, MetricInv, UNCHANGED <<time, dt, stage, space>>,
         \A l \in Lists : \/ pc'[l] = pc[l]
                          \/ stage[l[1]] = PostStep /\ pc'[l] \in PostTasks
                          \/ pc[l] = "fill_derived" /\ pc'[l] = "update_geom"
  PROVE  MetricInv'
<1>1. PICK m \in 0 .. BetaUnit * time : m = ended /\ MetricFrom(m)
  BY DEF MetricInv
<1>2. UNCHANGED <<time, dt, stage, clock, metric, swept, ended>>
  BY DEF space
<1>3. \A q \in Ranks : Clocked(q)'
  BY <1>2 DEF MetricInv, Clocked, StageTime
<1>4. \A l \in Lists, k \in Lists : PairSwept(l, k)'
  BY <1>2 DEF MetricInv, PairSwept
<1>5. ASSUME NEW l \in Lists PROVE Cached(m, l)' /\ SweptWith(m, l)'
  <2>1. Cached(m, l) /\ SweptWith(m, l)
    BY <1>1 DEF MetricFrom
  <2>2. CASE pc'[l] = pc[l]
    BY <1>2, <2>1, <2>2, OtherList DEF SameList
  <2>3. CASE stage[l[1]] = PostStep /\ pc'[l] \in PostTasks
    <3>1. Cached(m, l)'
      BY <1>2, <2>1, <2>3, PostStepIs DEF Cached, StageTime
    <3>2. SweptWith(m, l)'
      BY <1>2, <2>1, <2>3 DEF SweptWith, Held, StageTime, PostTasks
    <3> QED BY <3>1, <3>2
  <2>4. CASE pc[l] = "fill_derived" /\ pc'[l] = "update_geom"
    <3>1. Cached(m, l)'
      BY <1>2, <2>1, <2>4 DEF Cached, Held, StageTime
    <3>2. SweptWith(m, l)'
      BY <1>2, <2>1, <2>4 DEF SweptWith, Held, StageTime
    <3> QED BY <3>1, <3>2
  <2> QED BY <2>2, <2>3, <2>4
<1>6. ended' = m /\ m \in 0 .. BetaUnit * time'
  BY <1>1, <1>2
<1> QED BY <1>3, <1>4, <1>5, <1>6, FromEnded

(* A sweep uses what every other sweep of its stage has used               *)
LEMMA MetricSweep ==
  ASSUME Types, LoopInv, MetricInv, NEW l \in Lists, Sweep(l) PROVE MetricInv'
<1> DEFINE r == l[1]
<1>1. PICK m \in 0 .. BetaUnit * time : m = ended /\ MetricFrom(m)
  BY DEF MetricInv
<1>2. r \in Ranks /\ stage[r] \in 1 .. NStages /\ pc[l] = "sweep"
  BY TaskStage DEF Sweep, At
<1>3. UNCHANGED <<time, dt, stage, clock, metric, ended>>
  BY DEF Sweep, loop
<1>4. /\ pc'[l] = "fill_derived"
      /\ swept'[l] = [time |-> time, stage |-> stage[r], metric |-> metric[l]]
      /\ \A k \in Lists \ {l} : pc'[k] = pc[k] /\ swept'[k] = swept[k]
  BY DEF Sweep, Goto, Metric, Types
<1>5. metric[l] = Held(m, stage[r], dt[r])
  BY <1>1, <1>2 DEF MetricFrom, Cached
<1>6. ASSUME NEW k \in Lists PROVE Cached(m, k)' /\ SweptWith(m, k)'
  <2>1. Cached(m, k) /\ SweptWith(m, k)
    BY <1>1 DEF MetricFrom
  <2>2. CASE k # l
    BY <1>3, <1>4, <2>1, <2>2, OtherList DEF SameList
  <2>3. CASE k = l
    <3>1. Cached(m, l)'
      BY <1>2, <1>3, <1>4, <2>1, <2>3 DEF Cached, Held, StageTime
    <3>2. time \in Nat /\ stage[r] # 0
      BY <1>2 DEF Types
    <3>3. SweptWith(m, l)'
      BY <1>3, <1>4, <1>5, <3>2 DEF SweptWith, Held, StageTime
    <3> QED BY <2>3, <3>1, <3>3
  <2> QED BY <2>2, <2>3
<1>7. ASSUME NEW k \in Lists, k # l, swept[k].time = time, swept[k].stage = stage[r]
      PROVE  swept[k].metric = metric[l]
  <2>1. SweptWith(m, k) /\ k[1] \in Ranks /\ stage[r] # 0
    BY <1>1, <1>2 DEF MetricFrom, Lists
  <2>2. stage[k[1]] # 0 /\ swept[k].metric = Held(m, stage[r], dt[k[1]])
    BY <1>7, <2>1 DEF SweptWith
  <2>3. dt[k[1]] = dt[r]
    BY <1>2, <2>1, <2>2 DEF LoopInv, SameStep
  <2> QED BY <1>5, <2>2, <2>3
<1>8. ASSUME NEW k \in Lists, NEW j \in Lists PROVE PairSwept(k, j)'
  <2>1. PairSwept(k, j)
    BY DEF MetricInv
  <2>2. CASE k # l /\ j # l
    BY <1>4, <2>1, <2>2 DEF PairSwept
  <2>3. CASE k = l \/ j = l
    BY <1>4, <1>7, <2>3 DEF PairSwept
  <2> QED BY <2>2, <2>3
<1>9. \A q \in Ranks : Clocked(q)'
  BY <1>3 DEF MetricInv, Clocked, StageTime
<1>10. ended' = m /\ m \in 0 .. BetaUnit * time'
  BY <1>1, <1>3
<1> QED BY <1>6, <1>8, <1>9, <1>10, FromEnded

LEMMA MetricUpdate ==
  ASSUME Types, LoopInv, MetricInv, NEW l \in Lists, UpdateGeometry(l) PROVE MetricInv'
<1> DEFINE r == l[1]
<1>1. PICK m \in 0 .. BetaUnit * time : m = ended /\ MetricFrom(m)
  BY DEF MetricInv
<1>2. r \in Ranks /\ stage[r] \in 1 .. NStages
  BY TaskStage DEF UpdateGeometry, At
<1>3. UNCHANGED <<time, dt, stage, clock, swept, ended>>
  BY DEF UpdateGeometry, loop
<1>4. /\ pc'[l] = "done" /\ metric'[l] = clock[r]
      /\ \A k \in Lists \ {l} : pc'[k] = pc[k] /\ metric'[k] = metric[k]
  BY DEF UpdateGeometry, Goto, SetGeometry, CoordinateSystem, Types
<1>5. clock[r] = StageTime(stage[r], dt[r])
  BY <1>2 DEF MetricInv, Clocked
<1>6. ASSUME NEW k \in Lists PROVE Cached(m, k)' /\ SweptWith(m, k)'
  <2>1. Cached(m, k) /\ SweptWith(m, k)
    BY <1>1 DEF MetricFrom
  <2>2. CASE k # l
    BY <1>3, <1>4, <2>1, <2>2, OtherList DEF SameList
  <2>3. CASE k = l
    <3>1. stage[r] # 0 /\ stage[r] # PostStep
      BY <1>2, PostStepIs
    <3>2. Cached(m, l)'
      BY <1>3, <1>4, <1>5, <3>1 DEF Cached, StageTime
    <3>3. SweptWith(m, l)'
      BY <1>3, <1>4, <2>1, <2>3 DEF SweptWith, Held, StageTime
    <3> QED BY <2>3, <3>2, <3>3
  <2> QED BY <2>2, <2>3
<1>7. \A k \in Lists, j \in Lists : PairSwept(k, j)'
  BY <1>3 DEF MetricInv, PairSwept
<1>8. \A q \in Ranks : Clocked(q)'
  BY <1>3 DEF MetricInv, Clocked, StageTime
<1>9. ended' = m /\ m \in 0 .. BetaUnit * time'
  BY <1>1, <1>3
<1> QED BY <1>6, <1>7, <1>8, <1>9, FromEnded

LEMMA MetricPostStep ==
  ASSUME Types, LoopInv, MetricInv, NEW r \in Ranks, RadiationPostStep(r)
  PROVE  MetricInv'
<1>1. PICK m \in 0 .. BetaUnit * time : m = ended /\ MetricFrom(m)
  BY DEF MetricInv
<1>2. /\ stage[r] = NStages /\ stage'[r] = PostStep
      /\ \A q \in Ranks \ {r} : stage'[q] = stage[q]
      /\ \A l \in Lists : pc'[l] = IF l[1] = r THEN "calc_tau" ELSE pc[l]
  BY DEF RadiationPostStep, Types
<1>3. UNCHANGED <<time, dt, clock, metric, swept, ended>>
  BY DEF RadiationPostStep, loop, space
<1>4. stage[r] \in 1 .. NStages /\ stage[r] # 0 /\ PostStep # 0 /\ PostStep \notin 1 .. NStages
  BY <1>2, PostStepIs
<1>5. ASSUME NEW l \in Lists PROVE Cached(m, l)' /\ SweptWith(m, l)'
  <2>1. Cached(m, l) /\ SweptWith(m, l) /\ l[1] \in Ranks
    BY <1>1 DEF MetricFrom, Lists
  <2>2. CASE l[1] # r
    BY <1>2, <1>3, <2>1, <2>2, OtherList DEF SameList
  <2>3. CASE l[1] = r
    <3>1. pc[l] = "done"
      BY <2>3 DEF RadiationPostStep, AllDone, OfRank, At
    <3>2. metric[l] = StageTime(NStages, dt[r])
      BY <1>2, <1>4, <2>1, <2>3, <3>1 DEF Cached
    <3>3. Cached(m, l)'
      BY <1>2, <1>3, <1>4, <2>3, <3>2 DEF Cached, StageTime
    <3>4. SweptWith(m, l)'
      BY <1>2, <1>3, <1>4, <2>1, <2>3 DEF SweptWith, Held, StageTime
    <3> QED BY <3>3, <3>4
  <2> QED BY <2>2, <2>3
<1>6. \A k \in Lists, j \in Lists : PairSwept(k, j)'
  BY <1>3 DEF MetricInv, PairSwept
<1>7. ASSUME NEW q \in Ranks PROVE Clocked(q)'
  <2>1. Clocked(q)
    BY DEF MetricInv
  <2>2. CASE q # r
    BY <1>2, <1>3, <2>1, <2>2, OtherClock
  <2>3. CASE q = r
    BY <1>2, <1>3, <1>4, <2>1, <2>3 DEF Clocked, StageTime
  <2> QED BY <2>2, <2>3
<1>8. ended' = m /\ m \in 0 .. BetaUnit * time'
  BY <1>1, <1>3
<1> QED BY <1>5, <1>6, <1>7, <1>8, FromEnded

LEMMA MetricRank ==
  ASSUME Types, LoopInv, MetricInv, NEW r \in Ranks, RankStep(r) PROVE MetricInv'
<1>1. CASE Step(r) \/ NextStage(r)
  BY <1>1, MetricStage
<1>2. CASE RadiationPostStep(r)
  BY <1>2, MetricPostStep
<1>3. CASE StartReduce(r) \/ CheckReduce(r)
  <2>1. One(r) \in Lists /\ One(r)[1] = r
    BY EvolutionAssumption DEF One, Lists, Parts
  <2>2. pc[One(r)] \in PostTasks \ {"done"} /\ UNCHANGED <<loop, stage, space>>
    BY <1>3 DEF StartReduce, CheckReduce, At, One, PostTasks
  <2>3. stage[r] = PostStep
    BY <2>1, <2>2, TaskStage
  <2>4. PICK t \in PostTasks : pc' = [pc EXCEPT ![One(r)] = t]
    BY <1>3 DEF StartReduce, CheckReduce, Goto, One, PostTasks
  <2>5. \A l \in Lists : \/ pc'[l] = pc[l]
                         \/ stage[l[1]] = PostStep /\ pc'[l] \in PostTasks
    BY <2>1, <2>3, <2>4 DEF Types
  <2> QED BY <2>2, <2>5, MetricKept DEF loop
<1>4. ASSUME NEW l \in OfRank(r), ListStep(l) PROVE MetricInv'
  <2>1. l \in Lists
    BY DEF OfRank
  <2>2. CASE Sweep(l)
    BY <2>1, <2>2, MetricSweep
  <2>3. CASE UpdateGeometry(l)
    BY <2>1, <2>3, MetricUpdate
  <2>4. CASE FillDerived(l)
    <3>1. /\ pc[l] = "fill_derived" /\ pc'[l] = "update_geom"
          /\ \A k \in Lists \ {l} : pc'[k] = pc[k]
          /\ UNCHANGED <<loop, stage, space>>
      BY <2>1, <2>4 DEF FillDerived, At, Goto, Types
    <3> QED BY <3>1, MetricKept DEF loop
  <2>5. CASE \/ LightBulbCalcTau(l) \/ CheckDoGain(l) \/ CalculateFourForce(l)
             \/ ApplyRadiationFourForce(l)
    <3>1. pc[l] \in PostTasks \ {"done"} /\ UNCHANGED <<loop, stage, space>>
      BY <2>5 DEF LightBulbCalcTau, CheckDoGain, CalculateFourForce,
         ApplyRadiationFourForce, At, PostTasks
    <3>2. stage[l[1]] = PostStep
      BY <2>1, <3>1, TaskStage
    <3>3. PICK t \in PostTasks : pc' = [pc EXCEPT ![l] = t]
      BY <2>5 DEF LightBulbCalcTau, CheckDoGain, CalculateFourForce,
         ApplyRadiationFourForce, Goto, PostTasks
    <3>4. \A k \in Lists : \/ pc'[k] = pc[k]
                           \/ stage[k[1]] = PostStep /\ pc'[k] \in PostTasks
      BY <2>1, <3>2, <3>3 DEF Types
    <3> QED BY <3>1, <3>4, MetricKept DEF loop
  <2> QED BY <1>4, <2>2, <2>3, <2>4, <2>5 DEF ListStep
<1> QED BY <1>1, <1>2, <1>3, <1>4 DEF RankStep

(* The cycle ends with one metric everywhere, remade blocks included       *)
LEMMA MetricCycle ==
  ASSUME Types, LoopInv, MetricInv, NextCycle PROVE MetricInv'
<1>1. PICK limit \in Limits, S \in SUBSET Lists : EndCycle(limit, S)
  BY DEF NextCycle
<1> DEFINE d == dt[CHOOSE r \in Ranks : TRUE]
<1>2. /\ d \in Nat /\ d >= 1 /\ time' = time + d /\ time \in Nat
      /\ \A r \in Ranks : dt[r] = d /\ stage[r] = PostStep
  BY <1>1, CycleStep DEF EndCycle, CycleDone, Types
<1>3. PICK m \in 0 .. BetaUnit * time' : m = StageTime(NStages, d)
  <2>1. NStages \in 1 .. NStages
    BY PostStepIs
  <2>2. StageTime(NStages, d) \in Nat /\ StageTime(NStages, d) <= BetaUnit * (time + d)
    BY <1>2, <2>1, StageTimes
  <2>3. BetaUnit * (time + d) \in Nat /\ BetaUnit * time' = BetaUnit * (time + d)
    BY <1>2, EvolutionAssumption
  <2>4. StageTime(NStages, d) \in 0 .. BetaUnit * time'
    BY <2>2, <2>3
  <2> QED BY <2>4
<1>4. \A r \in Ranks : clock[r] = m /\ stage'[r] \in {0, PostStep + 1}
  BY <1>1, <1>2, <1>3 DEF EndCycle, MetricInv, Clocked
<1>5. \A l \in Lists : l[1] \in Ranks /\ metric[l] = m /\ pc[l] = "done"
  BY <1>1, <1>2, <1>3, PostStepIs
  DEF EndCycle, MetricInv, MetricFrom, Cached, Lists, CycleDone, AllDone, OfRank, At
<1>6. \A l \in Lists : metric'[l] = m /\ pc'[l] = "done" /\ swept'[l] = swept[l]
  BY <1>1, <1>4, <1>5 DEF EndCycle, Remade, CoordinateSystem
<1>7. ASSUME NEW l \in Lists PROVE Cached(m, l)' /\ SweptWith(m, l)'
  <2>1. stage'[l[1]] \in {0, PostStep + 1}
    BY <1>4, <1>5
  <2>2. swept[l].time \in Nat /\ swept[l].time < time'
    BY <1>2 DEF MetricInv, MetricFrom, SweptWith, Types, Sweeps
  <2>3. swept[l].stage = 0 => swept[l].metric = 0
    BY DEF MetricInv, MetricFrom, SweptWith
  <2>4. Cached(m, l)'
    BY <1>6, <2>1, PostStepIs DEF Cached
  <2>5. SweptWith(m, l)'
    BY <1>6, <1>2, <2>2, <2>3 DEF SweptWith
  <2> QED BY <2>4, <2>5
<1>8. \A k \in Lists, j \in Lists : PairSwept(k, j)'
  BY <1>6 DEF MetricInv, PairSwept
<1>9. \A q \in Ranks : Clocked(q)'
  BY <1>4, PostStepIs DEF Clocked
<1>10. \A l \in Lists : Cached(m, l)' /\ SweptWith(m, l)'
  BY <1>7
<1>11. ended' = m
  <2>1. ended' = StageTime(NStages, time' - time)
    BY <1>1 DEF EndCycle
  <2>2. time' - time = d
    BY <1>2
  <2> QED BY <1>3, <2>1, <2>2
<1> QED BY <1>3, <1>8, <1>9, <1>10, <1>11, FromEnded

LEMMA MetricNext ==
  ASSUME Types, LoopInv, MetricInv, [Next]_vars PROVE MetricInv'
<1>1. CASE WriteRestart
  BY <1>1, MetricKept DEF WriteRestart
<1>2. CASE Restart
  <2>1. /\ \A l \in Lists : metric'[l] = 0 /\ pc'[l] = "done" /\ l[1] \in Ranks
        /\ \A l \in Lists : swept'[l] = [time |-> 0, stage |-> 0, metric |-> 0]
        /\ \A r \in Ranks : stage'[r] = 0
        /\ time' \in Nat /\ ended' = 0
    BY <1>2 DEF Restart, Lists, Types
  <2>2. \A l \in Lists : Cached(0, l)' /\ SweptWith(0, l)'
    BY <2>1, PostStepIs DEF Cached, SweptWith
  <2>3. 0 \in 0 .. BetaUnit * time'
    <3>1. PICK n \in Nat : n = time'
      BY <2>1
    <3>2. BetaUnit * n \in Nat
      BY EvolutionAssumption
    <3> QED BY <3>1, <3>2
  <2>4. \A r \in Ranks : Clocked(r)'
    BY <2>1, PostStepIs DEF Clocked
  <2>5. \A l \in Lists, k \in Lists : PairSwept(l, k)'
    BY <2>1 DEF PairSwept
  <2> QED BY <2>1, <2>2, <2>3, <2>4, <2>5, FromEnded
<1>3. CASE UNCHANGED vars
  BY <1>3, MetricKept DEF vars, loop
<1>4. CASE Finish
  BY <1>3, <1>4 DEF Finish
<1> QED BY <1>1, <1>2, <1>3, <1>4, MetricRank, MetricCycle DEF Next

LEMMA MetricIsAlike == Types /\ LoopInv /\ MetricInv => MetricAlike
<1> SUFFICES ASSUME Types, LoopInv, MetricInv PROVE MetricAlike
  OBVIOUS
<1>1. PICK m \in 0 .. BetaUnit * time : m = ended /\ MetricFrom(m)
  BY DEF MetricInv
<1>2. ASSUME NEW r \in Ranks, NEW l \in OfRank(r), At(l, "fill_derived")
      PROVE  swept[l].metric = IF stage[r] = 1 THEN ended ELSE StageTime(stage[r] - 1, dt[r])
  <2>1. l \in Lists /\ l[1] = r /\ pc[l] = "fill_derived"
    BY <1>2 DEF OfRank, At
  <2>2. stage[r] \in 1 .. NStages /\ stage[r] # 0
    BY <2>1, TaskStage, PostStepIs
  <2>3. swept[l].metric = Held(ended, stage[r], dt[r])
    BY <1>1, <2>1, <2>2 DEF MetricFrom, SweptWith
  <2> QED BY <2>3 DEF Held
<1> QED BY <1>2 DEF MetricInv, PairSwept, MetricAlike

(* All partitions of all ranks sweep in the metric of one time, whenever   *)
(* their blocks were made: the stage before's, the last step's, or that of *)
(* time 0 in a program that has just started (Step's "Hack to update time  *)
(* for time-dependent geometries" and UpdateGeometry).                     *)
THEOREM MetricOfOneTime == Spec => []MetricAlike
<1>1. Init => Types /\ LoopInv /\ MetricInv
  BY TypesInit, LoopInit, MetricInit
<1>2. Types /\ LoopInv /\ MetricInv /\ [Next]_vars => (Types /\ LoopInv /\ MetricInv)'
  BY TypesNext, LoopNext, MetricNext
<1> QED BY <1>1, <1>2, MetricIsAlike, PTL DEF Spec

----------------------------------------------------------------------------
(* The gain                                                                *)

LEMMA OneList ==
  ASSUME NParts = 1
  PROVE  /\ \A r \in Ranks : One(r) \in Lists /\ One(r)[1] = r /\ One(r)[2] = 1
         /\ \A r, q \in Ranks : One(r) = One(q) => r = q
         /\ \A l \in Lists : l[1] \in Ranks /\ l = One(l[1])
BY DEF One, Lists, Parts

LEMMA GainInit ==
  ASSUME NParts = 1, Init PROVE GainInv
<1>1. /\ \A r \in Ranks : stage[r] = 0 /\ do_gain[r] = always_gain /\ sent[r] = NotSent
      /\ everOpaque = FALSE
  BY DEF Init
<1>2. \A S : \A r \in Ranks : ~In(r, S)
  BY <1>1, PostStepIs DEF In
<1>3. \A r \in Ranks : RankGain(always_gain, r)
  BY <1>1, <1>2 DEF RankGain, Reducing, Reduced, Joined, NotSent
<1>4. GainFrom(always_gain)
  BY <1>1, <1>2, <1>3 DEF GainFrom, Opaque, Measured
<1> QED BY <1>4, EvolutionAssumption DEF GainInv

(* A rank that a step leaves alone, while it leaves the history alone, or  *)
(* while no rank has the mesh's gain yet                                   *)
SameGain(r) ==
  /\ stage'[r] = stage[r] /\ pc'[One(r)] = pc[One(r)]
  /\ do_gain'[r] = do_gain[r] /\ sent'[r] = sent[r]
  /\ tau'[One(r)] = tau[One(r)] /\ force'[One(r)] = force[One(r)]

LEMMA SamePlace ==
  ASSUME NEW r \in Ranks, stage'[r] = stage[r], pc'[One(r)] = pc[One(r)]
  PROVE  /\ \A S : In(r, S)' <=> In(r, S)
         /\ Measured(r)' <=> Measured(r)
         /\ Reducing(r)' <=> Reducing(r)
         /\ Reduced(r)' <=> Reduced(r)
         /\ Joined(r)' <=> Joined(r)
BY DEF In, Measured, Reducing, Reduced, Joined

LEMMA OtherGain ==
  ASSUME NEW g \in BOOLEAN, NEW r \in Ranks, RankGain(g, r), SameGain(r),
         Reduced(r) => (Opaque' <=> Opaque),
         \A q \in Ranks : Joined(q) => Joined(q)'
  PROVE  RankGain(g, r)'
<1>1. /\ In(r, {"apply"})' <=> In(r, {"apply"})
      /\ Reducing(r)' <=> Reducing(r)
      /\ Reduced(r)' <=> Reduced(r)
      /\ Joined(r)' <=> Joined(r)
  BY SamePlace DEF SameGain
<1>2. Own(g, r)' <=> Own(g, r)
  BY DEF SameGain, Own
<1>3. In(r, {"apply"}) => Reduced(r)
  BY DEF In, Reduced
<1>4. Reduced(r)' => \A q \in Ranks : Joined(q)'
  BY <1>1 DEF RankGain
<1>5. Reduced(r)' => (do_gain'[r] <=> Opaque')
  BY <1>1 DEF RankGain, SameGain
<1>6. In(r, {"apply"})' => (force'[One(r)] <=> Opaque')
  BY <1>1, <1>3 DEF RankGain, SameGain
<1>7. /\ ~Reducing(r)' /\ ~Reduced(r)' /\ stage'[r] <= PostStep => (do_gain'[r] <=> g)
      /\ Reducing(r)' => (do_gain'[r] <=> Own(g, r)')
      /\ sent'[r] # NotSent <=> Joined(r)'
      /\ TRUE \in sent'[r] <=> Joined(r)' /\ Own(g, r)'
  BY <1>1, <1>2 DEF RankGain, SameGain, NotSent
<1> QED BY <1>4, <1>5, <1>6, <1>7 DEF RankGain, NotSent

(* Ranks outside RadiationPostStep, and in its first task, have no part    *)
LEMMA GainOutside ==
  ASSUME Types, GainInv, NEW r \in Ranks,
         stage[r] < PostStep, stage'[r] < PostStep \/ pc'[One(r)] = "calc_tau",
         stage'[r] <= PostStep,
         \A q \in Ranks \ {r} : stage'[q] = stage[q] /\ pc'[One(q)] = pc[One(q)],
         UNCHANGED <<tau, do_gain, sent, force, everOpaque>>
  PROVE  GainInv'
<1>1. PICK g \in BOOLEAN : GainFrom(g)
  BY DEF GainInv
<1>2. /\ ~Measured(r) /\ ~Reducing(r) /\ ~Reduced(r) /\ ~Joined(r)
      /\ stage[r] <= PostStep /\ stage[r] \in Int
  BY PostStepIs DEF In, Measured, Reducing, Reduced, Joined, Types
<1>3. /\ ~Measured(r)' /\ ~Reducing(r)' /\ ~Reduced(r)' /\ ~Joined(r)' /\ ~In(r, {"apply"})'
  BY PostStepIs DEF In, Measured, Reducing, Reduced, Joined
<1>4. \A q \in Ranks : Joined(q) => Joined(q)'
  BY <1>2, SamePlace
<1>5. Opaque' <=> Opaque
  BY DEF Opaque
<1>6. ASSUME NEW q \in Ranks PROVE RankGain(g, q)'
  <2>1. RankGain(g, q)
    BY <1>1 DEF GainFrom
  <2>2. CASE q # r
    <3>1. SameGain(q)
      BY <2>2 DEF SameGain
    <3> QED BY <1>4, <1>5, <2>1, <3>1, OtherGain
  <2>3. CASE q = r
    <3>1. /\ do_gain'[r] <=> g
          /\ sent'[r] = NotSent /\ ~(TRUE \in sent'[r])
      BY <1>2, <2>1, <2>3 DEF RankGain, NotSent
    <3> QED BY <1>3, <2>3, <3>1 DEF RankGain, NotSent
  <2> QED BY <2>2, <2>3
<1>7. \A q \in Ranks : (Measured(q)' <=> Measured(q)) /\ tau'[One(q)] = tau[One(q)]
  BY <1>2, <1>3, SamePlace
<1>8. Opaque' <=> g \/ \E q \in Ranks : Measured(q)' /\ tau'[One(q)]
  BY <1>1, <1>5, <1>7 DEF GainFrom
<1>9. GainFrom(g)'
  BY <1>6, <1>8 DEF GainFrom
<1> QED BY <1>9 DEF GainInv

(* The optical depths of a rank become known: nobody has the gain before   *)
LEMMA GainMeasured ==
  ASSUME NParts = 1, Types, GainInv, NEW r \in Ranks, LightBulbCalcTau(One(r))
  PROVE  GainInv'
<1>1. PICK g \in BOOLEAN : GainFrom(g)
  BY DEF GainInv
<1>2. stage[r] = PostStep /\ pc[One(r)] = "calc_tau" /\ pc'[One(r)] = "check_do_gain"
  BY OneList, TaskStage DEF LightBulbCalcTau, At, Goto, PostTasks, Types
<1>3. UNCHANGED <<stage, do_gain, sent, force>>
  BY DEF LightBulbCalcTau
<1>4. /\ \A q \in Ranks \ {r} : pc'[One(q)] = pc[One(q)] /\ tau'[One(q)] = tau[One(q)]
      /\ tau'[One(r)] = dense[One(r)] /\ (everOpaque' <=> everOpaque \/ dense[One(r)])
  BY OneList DEF LightBulbCalcTau, Goto, Types
<1>5. /\ ~Measured(r) /\ ~Reducing(r) /\ ~Reduced(r) /\ ~Joined(r)
      /\ Measured(r)' /\ ~Reducing(r)' /\ ~Reduced(r)' /\ ~Joined(r)' /\ ~In(r, {"apply"})'
  BY <1>2, <1>3 DEF In, Measured, Reducing, Reduced, Joined, PostTasks
<1>6. \A q \in Ranks : ~Reduced(q)
  BY <1>1, <1>5 DEF GainFrom, RankGain
<1>7. \A q \in Ranks : Joined(q) => Joined(q)'
  BY <1>3, <1>4, <1>5, SamePlace
<1>8. ASSUME NEW q \in Ranks PROVE RankGain(g, q)'
  <2>1. RankGain(g, q)
    BY <1>1 DEF GainFrom
  <2>2. CASE q # r
    <3>1. SameGain(q)
      BY <1>3, <1>4, <2>2 DEF SameGain
    <3> QED BY <1>6, <1>7, <2>1, <3>1, OtherGain
  <2>3. CASE q = r
    <3>1. do_gain[r] <=> g
      BY <1>2, <1>5, <2>1, <2>3, PostStepIs DEF RankGain
    <3>2. sent[r] = NotSent /\ ~(TRUE \in sent[r])
      BY <1>5, <2>1, <2>3 DEF RankGain, NotSent
    <3> QED BY <1>3, <1>5, <2>3, <3>1, <3>2 DEF RankGain, NotSent
  <2> QED BY <2>2, <2>3
<1>9. Opaque' <=> g \/ \E q \in Ranks : Measured(q)' /\ tau'[One(q)]
  <2>1. \A q \in Ranks \ {r} : Measured(q)' <=> Measured(q)
    BY <1>3, <1>4, SamePlace
  <2>2. Opaque' <=> Opaque \/ dense[One(r)]
    BY <1>4 DEF Opaque
  <2>3. Opaque <=> g \/ \E q \in Ranks \ {r} : Measured(q) /\ tau[One(q)]
    BY <1>1, <1>5 DEF GainFrom
  <2>4. (\E q \in Ranks : Measured(q)' /\ tau'[One(q)])
          <=> dense[One(r)] \/ \E q \in Ranks \ {r} : Measured(q) /\ tau[One(q)]
    BY <1>4, <1>5, <2>1
  <2> QED BY <2>2, <2>3, <2>4
<1>10. GainFrom(g)'
  BY <1>8, <1>9 DEF GainFrom
<1> QED BY <1>10 DEF GainInv

(* The other tasks: optical depths and history stay, the rank's own part   *)
(* is given                                                                *)
LEMMA GainTask ==
  ASSUME Types, NEW g \in BOOLEAN, GainFrom(g), NEW r \in Ranks, Measured(r), Measured(r)',
         Joined(r) => Joined(r)', RankGain(g, r)',
         UNCHANGED <<stage, tau, everOpaque>>,
         \A q \in Ranks \ {r} : SameGain(q)
  PROVE  GainInv'
<1>1. \A q \in Ranks \ {r} : (Joined(q)' <=> Joined(q)) /\ (Measured(q)' <=> Measured(q))
  BY SamePlace DEF SameGain
<1>2. Opaque' <=> Opaque
  BY DEF Opaque
<1>3. \A q \in Ranks : Joined(q) => Joined(q)'
  BY <1>1
<1>4. \A q \in Ranks \ {r} : RankGain(g, q)'
  BY <1>2, <1>3, OtherGain DEF GainFrom
<1>5. \A q \in Ranks : (Measured(q)' <=> Measured(q)) /\ tau'[One(q)] = tau[One(q)]
  BY <1>1
<1>6. Opaque' <=> g \/ \E q \in Ranks : Measured(q)' /\ tau'[One(q)]
  BY <1>2, <1>5 DEF GainFrom
<1>7. \A q \in Ranks : RankGain(g, q)'
  BY <1>4
<1>8. GainFrom(g)'
  BY <1>6, <1>7 DEF GainFrom
<1> QED BY <1>8 DEF GainInv

LEMMA GainRank ==
  ASSUME NParts = 1, Types, LoopInv, GainInv, NEW r \in Ranks, RankStep(r) PROVE GainInv'
<1> DEFINE l == One(r)
<1>1. PICK g \in BOOLEAN : GainFrom(g)
  BY DEF GainInv
<1>2. RankGain(g, r) /\ l \in Lists /\ l[1] = r /\ l[2] = 1
  BY <1>1, OneList DEF GainFrom
<1>3. \A q \in Ranks \ {r} : One(q) # l /\ One(q) \in Lists /\ One(q)[1] # r
  BY OneList
<1>4. CASE Step(r) \/ NextStage(r) \/ RadiationPostStep(r)
  <2>1. /\ stage[r] < PostStep /\ stage'[r] <= PostStep
        /\ stage'[r] < PostStep \/ pc'[l] = "calc_tau"
    BY <1>2, <1>4, PostStepIs
    DEF Step, NextStage, RadiationPostStep, RungeKuttaStage, Types
  <2>2. \A q \in Ranks \ {r} : stage'[q] = stage[q] /\ pc'[One(q)] = pc[One(q)]
    BY <1>3, <1>4 DEF Step, NextStage, RadiationPostStep, RungeKuttaStage, Types
  <2>3. UNCHANGED <<tau, do_gain, sent, force, everOpaque>>
    BY <1>4 DEF Step, NextStage, RadiationPostStep, bulb
  <2> QED BY <2>1, <2>2, <2>3, GainOutside
<1>5. CASE StartReduce(r)
  <2>1. /\ pc[l] = "start_reduce" /\ pc'[l] = "check_reduce"
        /\ sent'[r] = {do_gain[r]} /\ \A q \in Ranks \ {r} : sent'[q] = sent[q]
        /\ \A q \in Ranks \ {r} : pc'[One(q)] = pc[One(q)]
        /\ UNCHANGED <<stage, tau, do_gain, force, everOpaque>>
    BY <1>2, <1>3, <1>5 DEF StartReduce, At, Goto, One, Types
  <2>2. stage[r] = PostStep
    BY <1>2, <2>1, TaskStage DEF PostTasks
  <2>3. /\ Measured(r) /\ Measured(r)' /\ Joined(r)' /\ Reducing(r) /\ Reducing(r)'
        /\ ~Reduced(r)' /\ ~In(r, {"apply"})'
    BY <2>1, <2>2 DEF In, Measured, Joined, Reducing, Reduced, PostTasks
  <2>4. do_gain[r] <=> Own(g, r)
    BY <1>2, <2>3 DEF RankGain
  <2>5. Own(g, r)' <=> Own(g, r)
    BY <2>1 DEF Own
  <2>6. do_gain[r] \in BOOLEAN
    BY DEF Types
  <2>7. sent'[r] # {} /\ (TRUE \in sent'[r] <=> Own(g, r))
    BY <2>1, <2>4, <2>6
  <2>8. do_gain'[r] <=> Own(g, r)'
    BY <2>1, <2>4, <2>5
  <2>9. RankGain(g, r)'
    BY <2>3, <2>5, <2>7, <2>8 DEF RankGain, NotSent
  <2> QED BY <1>1, <2>1, <2>3, <2>9, GainTask DEF SameGain
<1>6. CASE CheckReduce(r)
  <2>1. /\ pc[l] = "check_reduce" /\ pc'[l] = "four_force"
        /\ \A q \in Ranks : sent[q] # NotSent
        /\ (do_gain'[r] <=> \E q \in Ranks : TRUE \in sent[q])
        /\ \A q \in Ranks \ {r} : pc'[One(q)] = pc[One(q)] /\ do_gain'[q] = do_gain[q]
        /\ UNCHANGED <<stage, tau, sent, force, everOpaque>>
    BY <1>2, <1>3, <1>6 DEF CheckReduce, At, One, Types
  <2>2. stage[r] = PostStep
    BY <1>2, <2>1, TaskStage DEF PostTasks
  <2>3. /\ Measured(r) /\ Measured(r)' /\ Joined(r) /\ Joined(r)' /\ Reduced(r)'
        /\ ~Reducing(r)' /\ ~In(r, {"apply"})'
    BY <2>1, <2>2 DEF In, Measured, Joined, Reducing, Reduced, PostTasks
  <2>4. \A q \in Ranks : Joined(q) /\ Measured(q) /\ (TRUE \in sent[q] <=> Own(g, q))
    <3>1. ASSUME NEW q \in Ranks
          PROVE  Joined(q) /\ Measured(q) /\ (TRUE \in sent[q] <=> Own(g, q))
      <4>1. RankGain(g, q)
        BY <1>1 DEF GainFrom
      <4>2. Joined(q) /\ (TRUE \in sent[q] <=> Own(g, q))
        BY <2>1, <4>1 DEF RankGain
      <4>3. Measured(q)
        BY <4>2 DEF Joined, Measured, In, PostTasks
      <4> QED BY <4>2, <4>3
    <3> QED BY <3>1
  <2>5. do_gain'[r] <=> Opaque
    BY <1>1, <2>1, <2>4 DEF GainFrom, Own
  <2>6. (Opaque' <=> Opaque) /\ (Own(g, r)' <=> Own(g, r))
    BY <2>1 DEF Opaque, Own
  <2>7. \A q \in Ranks : Joined(q)'
    BY <2>1, <2>3, <2>4, SamePlace
  <2>8. do_gain'[r] <=> Opaque'
    BY <2>5, <2>6
  <2>9. sent'[r] # NotSent /\ (TRUE \in sent'[r] <=> Own(g, r)')
    BY <2>1, <2>4, <2>6
  <2>10. RankGain(g, r)'
    BY <2>3, <2>7, <2>8, <2>9 DEF RankGain, NotSent
  <2> QED BY <1>1, <2>1, <2>3, <2>10, GainTask DEF SameGain
<1>7. ASSUME NEW k \in OfRank(r), ListStep(k) PROVE GainInv'
  <2>1. k = l
    BY OneList DEF OfRank
  <2>2. CASE Sweep(l) \/ FillDerived(l) \/ UpdateGeometry(l)
    <3>1. stage[r] < PostStep
      BY <1>2, <2>2, TaskStage, PostStepIs DEF Sweep, FillDerived, UpdateGeometry, At
    <3>2. UNCHANGED <<stage, tau, do_gain, sent, force, everOpaque>>
      BY <2>2 DEF Sweep, FillDerived, UpdateGeometry, bulb
    <3>3. \A q \in Ranks \ {r} : pc'[One(q)] = pc[One(q)]
      BY <1>3, <2>2 DEF Sweep, FillDerived, UpdateGeometry, Goto, Types
    <3>4. stage[r] <= PostStep
      BY <1>2, <3>1, PostStepIs DEF Types
    <3> QED BY <3>1, <3>2, <3>3, <3>4, GainOutside
  <2>3. CASE LightBulbCalcTau(l)
    BY <2>3, GainMeasured
  <2>4. CASE CheckDoGain(l)
    <3>1. /\ pc[l] = "check_do_gain" /\ pc'[l] = "start_reduce"
          /\ (do_gain'[r] <=> do_gain[r] \/ tau[l])
          /\ \A q \in Ranks \ {r} : pc'[One(q)] = pc[One(q)] /\ do_gain'[q] = do_gain[q]
          /\ UNCHANGED <<stage, tau, sent, force, everOpaque>>
      BY <1>2, <1>3, <2>4 DEF CheckDoGain, At, Goto, Types
    <3>2. stage[r] = PostStep
      BY <1>2, <3>1, TaskStage DEF PostTasks
    <3>3. /\ Measured(r) /\ Measured(r)' /\ ~Joined(r) /\ ~Joined(r)' /\ ~Reducing(r)
          /\ ~Reduced(r) /\ ~Reduced(r)' /\ Reducing(r)' /\ ~In(r, {"apply"})'
      BY <3>1, <3>2 DEF In, Measured, Joined, Reducing, Reduced, PostTasks
    <3>4. do_gain[r] <=> g
      BY <1>2, <3>2, <3>3, PostStepIs DEF RankGain
    <3>5. sent[r] = NotSent /\ ~(TRUE \in sent[r])
      BY <1>2, <3>3 DEF RankGain, NotSent
    <3>6. do_gain'[r] <=> Own(g, r)'
      BY <3>1, <3>4 DEF Own
    <3>7. RankGain(g, r)'
      BY <3>1, <3>3, <3>5, <3>6 DEF RankGain, NotSent
    <3> QED BY <1>1, <3>1, <3>3, <3>7, GainTask DEF SameGain
  <2>5. CASE CalculateFourForce(l)
    <3>1. /\ pc[l] = "four_force" /\ pc'[l] = "apply"
          /\ (force'[l] <=> do_gain[r])
          /\ \A q \in Ranks \ {r} : pc'[One(q)] = pc[One(q)] /\ force'[One(q)] = force[One(q)]
          /\ UNCHANGED <<stage, tau, do_gain, sent, everOpaque>>
      BY <1>2, <1>3, <2>5 DEF CalculateFourForce, At, Goto, Heated, Types
    <3>2. stage[r] = PostStep
      BY <1>2, <3>1, TaskStage DEF PostTasks
    <3>3. /\ Measured(r) /\ Measured(r)' /\ Joined(r) /\ Joined(r)' /\ Reduced(r)
          /\ Reduced(r)' /\ ~Reducing(r)'
      BY <3>1, <3>2 DEF In, Measured, Joined, Reducing, Reduced, PostTasks
    <3>4. (do_gain[r] <=> Opaque) /\ \A q \in Ranks : Joined(q)
      BY <1>2, <3>3 DEF RankGain
    <3>5. (Opaque' <=> Opaque) /\ (Own(g, r)' <=> Own(g, r))
      BY <3>1 DEF Opaque, Own
    <3>6. \A q \in Ranks : Joined(q)'
      BY <3>1, <3>3, <3>4, SamePlace
    <3>7. sent'[r] # NotSent /\ (TRUE \in sent'[r] <=> Own(g, r)')
      BY <1>2, <3>1, <3>3, <3>5 DEF RankGain
    <3>8. (do_gain'[r] <=> Opaque') /\ (force'[l] <=> Opaque')
      BY <3>1, <3>4, <3>5
    <3>9. RankGain(g, r)'
      BY <3>3, <3>6, <3>7, <3>8 DEF RankGain, NotSent
    <3> QED BY <1>1, <3>1, <3>3, <3>9, GainTask DEF SameGain
  <2>6. CASE ApplyRadiationFourForce(l)
    <3>1. /\ pc[l] = "apply" /\ pc'[l] = "done"
          /\ \A q \in Ranks \ {r} : pc'[One(q)] = pc[One(q)]
          /\ UNCHANGED <<stage, tau, do_gain, sent, force, everOpaque>>
      BY <1>2, <1>3, <2>6 DEF ApplyRadiationFourForce, At, Goto, bulb, Types
    <3>2. stage[r] = PostStep
      BY <1>2, <3>1, TaskStage DEF PostTasks
    <3>3. /\ Measured(r) /\ Measured(r)' /\ Joined(r) /\ Joined(r)' /\ Reduced(r)
          /\ Reduced(r)' /\ ~Reducing(r)' /\ ~In(r, {"apply"})'
      BY <3>1, <3>2 DEF In, Measured, Joined, Reducing, Reduced, PostTasks
    <3>4. (do_gain[r] <=> Opaque) /\ \A q \in Ranks : Joined(q)
      BY <1>2, <3>3 DEF RankGain
    <3>5. (Opaque' <=> Opaque) /\ (Own(g, r)' <=> Own(g, r))
      BY <3>1 DEF Opaque, Own
    <3>6. \A q \in Ranks : Joined(q)'
      BY <3>1, <3>3, <3>4, SamePlace
    <3>7. sent'[r] # NotSent /\ (TRUE \in sent'[r] <=> Own(g, r)')
      BY <1>2, <3>1, <3>3, <3>5 DEF RankGain
    <3>8. do_gain'[r] <=> Opaque'
      BY <3>1, <3>4, <3>5
    <3>9. RankGain(g, r)'
      BY <3>3, <3>6, <3>7, <3>8 DEF RankGain, NotSent
    <3> QED BY <1>1, <3>1, <3>3, <3>9, GainTask DEF SameGain
  <2> QED BY <1>7, <2>1, <2>2, <2>3, <2>4, <2>5, <2>6 DEF ListStep
<1> QED BY <1>4, <1>5, <1>6, <1>7 DEF RankStep

LEMMA GainNext ==
  ASSUME NParts = 1, Types, LoopInv, GainInv, [Next]_vars PROVE GainInv'
<1>1. PICK g \in BOOLEAN : GainFrom(g)
  BY DEF GainInv
<1>2. CASE NextCycle
  <2>1. PICK limit \in Limits, S \in SUBSET Lists : EndCycle(limit, S)
    BY <1>2 DEF NextCycle
  <2>2. \A r \in Ranks : Reduced(r)
    BY <2>1, OneList DEF EndCycle, CycleDone, AllDone, OfRank, At, Reduced, In
  <2>3. PICK h \in BOOLEAN : h <=> Opaque
    OBVIOUS
  <2>4. \A r \in Ranks : (do_gain[r] <=> h) /\ do_gain'[r] = do_gain[r]
    BY <1>1, <2>1, <2>2, <2>3 DEF GainFrom, RankGain, EndCycle
  <2>5. \A r \in Ranks : stage'[r] # PostStep /\ sent'[r] = NotSent
    BY <2>1, PostStepIs DEF EndCycle
  <2>6. Opaque' <=> h
    BY <2>1, <2>3 DEF EndCycle, Opaque
  <2>7. \A T : \A r \in Ranks : ~In(r, T)'
    BY <2>5 DEF In
  <2>8. \A r \in Ranks : RankGain(h, r)'
    BY <2>4, <2>5, <2>7 DEF RankGain, Reducing, Reduced, Joined, NotSent
  <2>9. \A r \in Ranks : ~Measured(r)'
    BY <2>7 DEF Measured
  <2>10. GainFrom(h)'
    BY <2>6, <2>8, <2>9 DEF GainFrom
  <2> QED BY <2>10 DEF GainInv
<1>3. CASE Restart
  <2>1. /\ \A r \in Ranks : /\ stage'[r] = 0 /\ do_gain'[r] = always_gain
                            /\ sent'[r] = NotSent
        /\ everOpaque' = FALSE
    BY <1>3 DEF Restart
  <2>2. \A T : \A r \in Ranks : ~In(r, T)'
    BY <2>1, PostStepIs DEF In
  <2>3. \A r \in Ranks : RankGain(always_gain, r)'
    BY <2>1, <2>2 DEF RankGain, Reducing, Reduced, Joined, NotSent
  <2>4. GainFrom(always_gain)'
    BY <2>1, <2>2, <2>3 DEF GainFrom, Opaque, Measured
  <2> QED BY <2>4, EvolutionAssumption DEF GainInv
<1>4. CASE UNCHANGED <<stage, pc, tau, do_gain, sent, force, everOpaque>>
  <2>1. \A q \in Ranks : SameGain(q)
    BY <1>4 DEF SameGain
  <2>2. /\ \A q \in Ranks : (Joined(q)' <=> Joined(q)) /\ (Measured(q)' <=> Measured(q))
        /\ Opaque' <=> Opaque
    BY <1>4, SamePlace DEF Opaque
  <2>3. \A q \in Ranks : RankGain(g, q)'
    BY <1>1, <2>1, <2>2, OtherGain DEF GainFrom
  <2>4. Opaque' <=> g \/ \E q \in Ranks : Measured(q)' /\ tau'[One(q)]
    BY <1>1, <1>4, <2>2 DEF GainFrom
  <2>5. GainFrom(g)'
    BY <2>3, <2>4 DEF GainFrom
  <2> QED BY <2>5 DEF GainInv
<1>5. CASE WriteRestart
  BY <1>4, <1>5 DEF WriteRestart, bulb
<1>6. CASE UNCHANGED vars \/ Finish
  BY <1>4, <1>6 DEF vars, bulb, Finish
<1> QED BY <1>2, <1>3, <1>5, <1>6, GainRank DEF Next

(* With one list a rank (other lists may give their optical depths after   *)
(* the first has started the reduction), neutrinos heat everywhere or      *)
(* nowhere: if and only if some zone has been opaque since the program     *)
(* started (CheckDoGain and the MPI_LOR that follows it).                  *)
THEOREM GainOfAll == ASSUME NParts = 1 PROVE Spec => []GainOfTheMesh
<1>1. Init => Types /\ LoopInv /\ GainInv
  BY TypesInit, LoopInit, GainInit
<1>2. Types /\ LoopInv /\ GainInv /\ [Next]_vars => (Types /\ LoopInv /\ GainInv)'
  BY TypesNext, LoopNext, GainNext
<1>3. Types /\ GainInv => GainOfTheMesh
  <2> SUFFICES ASSUME Types, GainInv, NEW l \in Lists, At(l, "apply")
               PROVE  force[l] = (always_gain \/ everOpaque)
    BY DEF GainOfTheMesh
  <2>1. PICK g \in BOOLEAN : GainFrom(g)
    BY DEF GainInv
  <2>2. l[1] \in Ranks /\ l = One(l[1]) /\ stage[l[1]] = PostStep
    BY OneList, TaskStage DEF At, PostTasks
  <2>3. In(l[1], {"apply"})
    BY <2>2 DEF In, At
  <2>4. force[l] <=> Opaque
    BY <2>1, <2>2, <2>3 DEF GainFrom, RankGain
  <2>5. force[l] \in BOOLEAN
    BY DEF Types
  <2> QED BY <2>4, <2>5 DEF Opaque
<1> QED BY <1>1, <1>2, <1>3, PTL DEF Spec

=============================================================================
