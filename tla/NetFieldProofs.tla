---------------------------- MODULE NetFieldProofs -----------------------------
(* The properties of NetField for any number of ranks, stages and steps,   *)
(* one partition per rank.  A step either tunes or does not, for all ranks *)
(* alike: the invariant says where in the region of a tuning step every    *)
(* rank is, by what it has sent, summed, added and set so far.             *)
EXTENDS NetField, TLAPS

(* Time for the provers on a machine with other work to do *)
USE SMTT(20), ZenonT(40)

(* What the hypotheses say: no update is missed, so none is made up for.   *)
(* A step is no longer than the cadence, and the run does not start after  *)
(* the first update was due.                                               *)
Punctual == Dt <= Cadence /\ InitialTime < StartTime + Dt

Done(r, t) == <<t, 1>> \in done[r]

----------------------------------------------------------------------------
(* The invariant                                                           *)

ScaleType == [at : 0 .. NSteps, before : SUBSET Measure,
              after : SUBSET Measure, updates : Nat]
FieldType == [fid : Int, step : Nat, stage : Nat, scale : ScaleType]

Types ==
  /\ step \in [Ranks -> 1 .. NSteps]
  /\ stage \in [Ranks -> 1 .. NStages]
  /\ done \in [Ranks -> SUBSET RegionTasks]
  /\ totals \in [Ranks -> [Sums -> SUBSET Measure]]
  /\ active \in [Ranks -> [Sums -> BOOLEAN]]
  /\ sent \in [Ranks -> [Sums -> Seq(SUBSET Measure)]]
  /\ next \in [Ranks -> Nat]
  /\ scale \in [Ranks -> ScaleType]
  /\ field \in [Ranks -> [Lists -> FieldType]]

(* Tasks complete in the order of the graph; what is active was sent *)
Ordered(r) ==
  /\ \A t \in EachList \union FirstList : Done(r, t) => WaitsFor(t, 1) \subseteq done[r]
  /\ \A i \in Sums : active[r][i] => Len(sent[r][i]) >= 1

BasicInv == Types /\ \A r \in Ranks : Ordered(r)

(* The artificial field is there between the two tasks only *)
Fiducial(r) ==
  field[r][1].fid = IF /\ stage[r] = 1 /\ Due(r)
                       /\ Done(r, "mod_net") /\ ~Done(r, "mod_net_2") THEN 1 ELSE 0

(* Of the present step: whether its scale is set, and what it started from *)
Set(r) == stage[r] > 1 \/ Done(r, "set_scale")
Current(r) == scale[r].at = step[r]
Base(r) == IF Current(r) THEN next[r] - Cadence ELSE next[r]
Before(r) == IF Current(r) THEN scale[r].updates - 1 ELSE scale[r].updates
Tuned(r) == time(r) >= Base(r)
Started(r, i) == stage[r] > 1 \/ Done(r, start_reduce(i))
Own(r, i) == [rank |-> r, part |-> 1, step |-> step[r], fid |-> i - 1]
All(n, f) == [rank : Ranks, part : Lists, step : {n}, fid : {f}]

Timed(r) ==
  /\ scale[r].at <= step[r]
  /\ Current(r) <=> Set(r) /\ Tuned(r)
  /\ Base(r) >= StartTime /\ time(r) < Base(r) + Dt /\ Before(r) \in Nat
Sending(r) ==
  \A i \in Sums :
    /\ Len(sent[r][i]) = IF Tuned(r) /\ Started(r, i) THEN Before(r) + 1 ELSE Before(r)
    /\ Tuned(r) /\ Started(r, i) => sent[r][i][Before(r) + 1] = {Own(r, i)}
    /\ active[r][i] <=> /\ Tuned(r) /\ stage[r] = 1 /\ Done(r, start_reduce(i))
                        /\ ~Done(r, finish_reduce(i))
Totalled(r) ==
  stage[r] = 1 /\ Tuned(r) =>
    \A i \in Sums :
      totals[r][i] = IF Done(r, finish_reduce(i)) THEN All(step[r], i - 1)
                     ELSE IF Done(r, sum_mdot(i)) THEN {Own(r, i)} ELSE {}
Scaled(r) ==
  scale[r].at > 0 =>
    scale[r].before = All(scale[r].at, 0) /\ scale[r].after = All(scale[r].at, 1)
Applied(r) ==
  /\ field[r][1].step <= step[r]
  /\ Done(r, "update_netfield") => field[r][1].step = step[r]
  /\ field[r][1].step = step[r] => Set(r) /\ field[r][1].scale = scale[r]

RankInv(r) ==
  Fiducial(r) /\ Timed(r) /\ Sending(r) /\ Totalled(r) /\ Scaled(r) /\ Applied(r)

(* Ranks agree on where the step started from *)
Alike(r, q) ==
  /\ step[r] = step[q] /\ Base(r) = Base(q) /\ Before(r) = Before(q)
  /\ ~Current(r) /\ ~Current(q) => scale[r] = scale[q]
  /\ (field[r][1].step < step[r] /\ field[q][1].step < step[q]) =>
       field[r][1].scale = field[q][1].scale

TuningInv == \A r \in Ranks : RankInv(r) /\ \A q \in Ranks : Alike(r, q)

----------------------------------------------------------------------------
(* Types and the order of the tasks                                        *)

SameRank(q) ==
  /\ step'[q] = step[q] /\ stage'[q] = stage[q] /\ done'[q] = done[q]
  /\ totals'[q] = totals[q] /\ active'[q] = active[q] /\ sent'[q] = sent[q]
  /\ next'[q] = next[q] /\ scale'[q] = scale[q] /\ field'[q] = field[q]

LEMMA RunBasics ==
  ASSUME BasicInv, NEW r \in Ranks, NEW t \in EachList \union FirstList, NEW p, Run(r, t, p)
  PROVE  /\ step' = step /\ stage' = stage /\ done' \in [Ranks -> SUBSET RegionTasks]
         /\ done'[r] = done[r] \union {<<t, p>>} /\ WaitsFor(t, p) \subseteq done[r]
         /\ <<t, p>> \notin done[r]
         /\ \A q \in Ranks \ {r} : done'[q] = done[q]
         /\ \A u : Done(r, u)' <=> (Done(r, u) \/ <<u, 1>> = <<t, p>>)
         /\ \A q \in Ranks : \A u \in EachList \union FirstList :
              Done(q, u)' => WaitsFor(u, 1) \subseteq done'[q]
<1>1. /\ step' = step /\ stage' = stage /\ done \in [Ranks -> SUBSET RegionTasks]
      /\ done' = [done EXCEPT ![r] = done[r] \union {<<t, p>>}]
      /\ <<t, p>> \in RegionTasks /\ WaitsFor(t, p) \subseteq done[r] /\ <<t, p>> \notin done[r]
  BY DEF Run, BasicInv, Types
<1>2. /\ done' \in [Ranks -> SUBSET RegionTasks]
      /\ done'[r] = done[r] \union {<<t, p>>}
      /\ \A q \in Ranks \ {r} : done'[q] = done[q]
  BY <1>1
<1>3. \A u : Done(r, u)' <=> (Done(r, u) \/ <<u, 1>> = <<t, p>>)
  BY <1>2 DEF Done
<1>4. ASSUME NEW q \in Ranks, NEW u \in EachList \union FirstList, Done(q, u)'
      PROVE  WaitsFor(u, 1) \subseteq done'[q]
  <2>1. CASE q # r
    BY <1>2, <1>4, <2>1 DEF BasicInv, Ordered, Done
  <2>2. CASE q = r /\ Done(r, u)
    BY <1>2, <2>2 DEF BasicInv, Ordered
  <2>3. CASE q = r /\ <<u, 1>> = <<t, p>>
    BY <1>1, <1>2, <2>3
  <2> QED BY <1>3, <1>4, <2>1, <2>2, <2>3
<1> QED BY <1>1, <1>2, <1>3, <1>4

(* The functions a task updates, for the rank and for the others *)
LEMMA RankTypes ==
  ASSUME BasicInv, NEW r \in Ranks
  PROVE  /\ step[r] \in 1 .. NSteps /\ stage[r] \in 1 .. NStages /\ next[r] \in Nat
         /\ scale[r] \in ScaleType /\ totals[r] \in [Sums -> SUBSET Measure]
         /\ field[r] \in [Lists -> FieldType]
BY DEF BasicInv, Types

LEMMA SumStep ==
  ASSUME BasicInv, NEW r \in Ranks, NEW p \in Lists, NEW i \in Sums,
         SumMdotPhiForNetFieldScaling(r, p, i)
  PROVE  /\ totals' \in [Ranks -> [Sums -> SUBSET Measure]]
         /\ \A q \in Ranks \ {r} : totals'[q] = totals[q]
         /\ \A j \in Sums \ {i} : totals'[r][j] = totals[r][j]
         /\ totals'[r][i] = IF stage[r] = 1 /\ Tuning(r)
              THEN totals[r][i] \union {[rank |-> r, part |-> p, step |-> step[r],
                                        fid |-> field[r][p].fid]}
              ELSE totals[r][i]
<1> DEFINE m == [rank |-> r, part |-> p, step |-> step[r], fid |-> field[r][p].fid]
<1>1. /\ totals \in [Ranks -> [Sums -> SUBSET Measure]] /\ step[r] \in 1 .. NSteps
      /\ field[r][p] \in FieldType
  BY DEF BasicInv, Types
<1>2. m \in Measure
  BY <1>1 DEF Measure, FieldType
<1> HIDE DEF m
<1>3. totals' = IF stage[r] = 1 /\ Tuning(r)
        THEN [totals EXCEPT ![r] = [totals[r] EXCEPT ![i] = totals[r][i] \union {m}]]
        ELSE totals
  BY DEF SumMdotPhiForNetFieldScaling, m
<1>4. [totals[r] EXCEPT ![i] = totals[r][i] \union {m}] \in [Sums -> SUBSET Measure]
  BY <1>1, <1>2
<1> QED BY <1>1, <1>3, <1>4 DEF m

LEMMA StartStep ==
  ASSUME BasicInv, NEW r \in Ranks, NEW i \in Sums, NetFieldStartReduce(r, i)
  PROVE  /\ active' \in [Ranks -> [Sums -> BOOLEAN]]
         /\ sent' \in [Ranks -> [Sums -> Seq(SUBSET Measure)]]
         /\ \A q \in Ranks \ {r} : active'[q] = active[q] /\ sent'[q] = sent[q]
         /\ \A j \in Sums \ {i} : active'[r][j] = active[r][j] /\ sent'[r][j] = sent[r][j]
         /\ Tuning(r) /\ ~active[r][i] =>
              active'[r][i] /\ sent'[r][i] = Append(sent[r][i], totals[r][i])
         /\ ~(Tuning(r) /\ ~active[r][i]) => active' = active /\ sent' = sent
<1>1. /\ active \in [Ranks -> [Sums -> BOOLEAN]] /\ totals[r][i] \in SUBSET Measure
      /\ sent \in [Ranks -> [Sums -> Seq(SUBSET Measure)]]
  BY DEF BasicInv, Types
<1>2. CASE Tuning(r) /\ ~active[r][i]
  <2> DEFINE a == [active[r] EXCEPT ![i] = TRUE]
             b == [sent[r] EXCEPT ![i] = Append(sent[r][i], totals[r][i])]
  <2>1. active' = [active EXCEPT ![r] = a] /\ sent' = [sent EXCEPT ![r] = b]
    BY <1>2 DEF NetFieldStartReduce
  <2>2. a \in [Sums -> BOOLEAN] /\ b \in [Sums -> Seq(SUBSET Measure)]
    BY <1>1
  <2>3. a[i] /\ \A j \in Sums \ {i} : a[j] = active[r][j]
    BY <1>1
  <2>4. b[i] = Append(sent[r][i], totals[r][i]) /\ \A j \in Sums \ {i} : b[j] = sent[r][j]
    BY <1>1
  <2> HIDE DEF a, b
  <2>5. active'[r] = a /\ sent'[r] = b
    BY <1>1, <2>1
  <2> QED BY <1>1, <1>2, <2>1, <2>2, <2>3, <2>4, <2>5
<1>3. CASE ~(Tuning(r) /\ ~active[r][i])
  BY <1>1, <1>3 DEF NetFieldStartReduce
<1> QED BY <1>2, <1>3

LEMMA CheckStep ==
  ASSUME BasicInv, NEW r \in Ranks, NEW i \in Sums, NetFieldCheckReduce(r, i)
  PROVE  /\ active' \in [Ranks -> [Sums -> BOOLEAN]]
         /\ totals' \in [Ranks -> [Sums -> SUBSET Measure]]
         /\ \A q \in Ranks : \A j \in Sums : active'[q][j] => active[q][j]
         /\ \A q \in Ranks \ {r} : active'[q] = active[q] /\ totals'[q] = totals[q]
         /\ \A j \in Sums \ {i} : active'[r][j] = active[r][j] /\ totals'[r][j] = totals[r][j]
         /\ stage[r] = 1 /\ Tuning(r) /\ active[r][i] =>
              /\ ~active'[r][i] /\ \A q \in Ranks : Len(sent[q][i]) >= Len(sent[r][i])
              /\ totals'[r][i] = UNION {sent[q][i][Len(sent[r][i])] : q \in Ranks}
         /\ ~(stage[r] = 1 /\ Tuning(r) /\ active[r][i]) => active' = active /\ totals' = totals
<1>1. /\ active \in [Ranks -> [Sums -> BOOLEAN]] /\ totals \in [Ranks -> [Sums -> SUBSET Measure]]
      /\ \A q \in Ranks : sent[q][i] \in Seq(SUBSET Measure)
  BY DEF BasicInv, Types
<1>2. CASE stage[r] = 1 /\ Tuning(r) /\ active[r][i]
  <2> DEFINE n == Len(sent[r][i])
             total == UNION {sent[q][i][n] : q \in Ranks}
             a == [active[r] EXCEPT ![i] = FALSE]
             b == [totals[r] EXCEPT ![i] = total]
  <2>1. /\ active' = [active EXCEPT ![r] = a] /\ totals' = [totals EXCEPT ![r] = b]
        /\ \A q \in Ranks : Len(sent[q][i]) >= n
    BY <1>2 DEF NetFieldCheckReduce
  <2>2. n \in Nat /\ n >= 1
    BY <1>1, <1>2 DEF BasicInv, Ordered
  <2>3. ASSUME NEW q \in Ranks PROVE sent[q][i][n] \in SUBSET Measure
    <3>1. sent[q][i] \in Seq(SUBSET Measure) /\ Len(sent[q][i]) >= n
      BY <1>1, <2>1
    <3> HIDE DEF n
    <3> QED BY <2>2, <3>1
  <2>4. total \in SUBSET Measure
    BY <2>3
  <2>5. total = UNION {sent[q][i][Len(sent[r][i])] : q \in Ranks}
    OBVIOUS
  <2> HIDE DEF n, total
  <2>6. a \in [Sums -> BOOLEAN] /\ b \in [Sums -> SUBSET Measure]
    BY <1>1, <2>4
  <2>7. /\ ~a[i] /\ \A j \in Sums \ {i} : a[j] = active[r][j]
        /\ b[i] = total /\ \A j \in Sums \ {i} : b[j] = totals[r][j]
    BY <1>1
  <2> HIDE DEF a, b
  <2>8. /\ active'[r] = a /\ totals'[r] = b
        /\ \A q \in Ranks \ {r} : active'[q] = active[q] /\ totals'[q] = totals[q]
    BY <1>1, <2>1
  <2>9. \A q \in Ranks : \A j \in Sums : active'[q][j] => active[q][j]
    BY <2>7, <2>8
  <2>10. active' \in [Ranks -> [Sums -> BOOLEAN]] /\ totals' \in [Ranks -> [Sums -> SUBSET Measure]]
    BY <1>1, <2>1, <2>6
  <2>11. \A q \in Ranks : Len(sent[q][i]) >= Len(sent[r][i])
    BY <2>1 DEF n
  <2> QED BY <1>2, <2>5, <2>7, <2>8, <2>9, <2>10, <2>11
<1>3. CASE ~(stage[r] = 1 /\ Tuning(r) /\ active[r][i])
  BY <1>1, <1>3 DEF NetFieldCheckReduce
<1> QED BY <1>2, <1>3

LEMMA ModifyStep ==
  ASSUME BasicInv, NEW r \in Ranks, NEW p \in Lists, NEW t, NEW f \in Int,
         ModifyNetFieldFiducial(r, p, t, f)
  PROVE  /\ field' \in [Ranks -> [Lists -> FieldType]]
         /\ \A q \in Ranks \ {r} : field'[q] = field[q]
         /\ field'[r][p] = IF stage[r] = 1 /\ Due(r)
                           THEN [field[r][p] EXCEPT !.fid = field[r][p].fid + f]
                           ELSE field[r][p]
<1> DEFINE x == [field[r][p] EXCEPT !.fid = field[r][p].fid + f]
           b == [field[r] EXCEPT ![p] = x]
<1>1. field \in [Ranks -> [Lists -> FieldType]] /\ field[r][p] \in FieldType
  BY DEF BasicInv, Types
<1>2. field' = IF stage[r] = 1 /\ Due(r) THEN [field EXCEPT ![r] = b] ELSE field
  BY DEF ModifyNetFieldFiducial
<1>3. x \in FieldType
  BY <1>1 DEF FieldType
<1> HIDE DEF x
<1>4. b \in [Lists -> FieldType] /\ b[p] = x
  BY <1>1, <1>3
<1> HIDE DEF b
<1>5. field' \in [Ranks -> [Lists -> FieldType]] /\ \A q \in Ranks \ {r} : field'[q] = field[q]
  BY <1>1, <1>2, <1>4
<1>6. field'[r][p] = IF stage[r] = 1 /\ Due(r) THEN x ELSE field[r][p]
  BY <1>1, <1>2, <1>4
<1> QED BY <1>5, <1>6 DEF x

LEMMA ScaledStep ==
  ASSUME BasicInv, NEW r \in Ranks, NEW p \in Lists, ModifyNetFieldScaled(r, p)
  PROVE  /\ field' \in [Ranks -> [Lists -> FieldType]]
         /\ \A q \in Ranks \ {r} : field'[q] = field[q]
         /\ field'[r][p] = [fid |-> field[r][p].fid, step |-> step[r],
                            stage |-> stage[r], scale |-> scale[r]]
<1> DEFINE x == [fid |-> field[r][p].fid, step |-> step[r], stage |-> stage[r], scale |-> scale[r]]
           b == [field[r] EXCEPT ![p] = x]
<1>1. field \in [Ranks -> [Lists -> FieldType]] /\ field[r][p] \in FieldType
      /\ step[r] \in Nat /\ stage[r] \in Nat /\ scale[r] \in ScaleType
  BY DEF BasicInv, Types
<1>2. field' = [field EXCEPT ![r] = b]
  BY DEF ModifyNetFieldScaled
<1>3. x \in FieldType
  BY <1>1 DEF FieldType
<1> HIDE DEF x
<1>4. b \in [Lists -> FieldType] /\ b[p] = x
  BY <1>1, <1>3
<1> HIDE DEF b
<1>5. /\ field' \in [Ranks -> [Lists -> FieldType]] /\ field'[r] = b
      /\ \A q \in Ranks \ {r} : field'[q] = field[q]
  BY <1>1, <1>2, <1>4
<1>6. field'[r][p] = x
  BY <1>4, <1>5
<1> QED BY <1>5, <1>6 DEF x

LEMMA SetScaleStep ==
  ASSUME BasicInv, NEW r \in Ranks, NEW p, UpdateNetFieldScaleControls(r, p)
  PROVE  /\ scale' \in [Ranks -> ScaleType] /\ next' \in [Ranks -> Nat]
         /\ \A q \in Ranks \ {r} : scale'[q] = scale[q] /\ next'[q] = next[q]
         /\ stage[r] = 1 /\ Due(r) =>
              /\ next'[r] = next[r] + Cadence
              /\ scale'[r] = [at |-> step[r], before |-> totals[r][1],
                              after |-> totals[r][2], updates |-> scale[r].updates + 1]
         /\ ~(stage[r] = 1 /\ Due(r)) => scale' = scale /\ next' = next
<1> DEFINE x == [at |-> step[r], before |-> totals[r][1],
                 after |-> totals[r][2], updates |-> scale[r].updates + 1]
<1>1. /\ scale \in [Ranks -> ScaleType] /\ next \in [Ranks -> Nat] /\ scale[r] \in ScaleType
      /\ step[r] \in 1 .. NSteps /\ totals[r][1] \in SUBSET Measure /\ totals[r][2] \in SUBSET Measure
      /\ next[r] + Cadence \in Nat
  <2>1. scale \in [Ranks -> ScaleType] /\ next \in [Ranks -> Nat]
    BY DEF BasicInv, Types
  <2>2. totals[r][1] \in SUBSET Measure /\ totals[r][2] \in SUBSET Measure
    BY RankTypes DEF Sums
  <2>3. next[r] + Cadence \in Nat
    BY RankTypes, NetFieldAssumption
  <2> QED BY <2>1, <2>2, <2>3, RankTypes
<1>2. x \in ScaleType
  BY <1>1 DEF ScaleType
<1>3. IF stage[r] = 1 /\ Due(r)
      THEN scale' = [scale EXCEPT ![r] = x] /\ next' = [next EXCEPT ![r] = next[r] + Cadence]
      ELSE scale' = scale /\ next' = next
  BY DEF UpdateNetFieldScaleControls
<1>4. /\ scale' \in [Ranks -> ScaleType] /\ next' \in [Ranks -> Nat]
      /\ \A q \in Ranks \ {r} : scale'[q] = scale[q] /\ next'[q] = next[q]
      /\ stage[r] = 1 /\ Due(r) => next'[r] = next[r] + Cadence /\ scale'[r] = x
      /\ ~(stage[r] = 1 /\ Due(r)) => scale' = scale /\ next' = next
  <2> HIDE DEF x
  <2> QED BY <1>1, <1>2, <1>3
<1> QED BY <1>4

LEMMA TaskNames ==
  /\ \A i \in Sums : /\ sum_mdot(i) \in EachList /\ start_reduce(i) \in FirstList
                     /\ finish_reduce(i) \in FirstList
  /\ {"mod_net", "mod_net_2", "set_scale", "update_netfield"} \subseteq EachList
BY DEF sum_mdot, start_reduce, finish_reduce, EachList, FirstList

LEMMA StageStep ==
  ASSUME BasicInv, NEW r \in Ranks, NextStage(r)
  PROVE  /\ UNCHANGED <<step, active, sent, next, scale, field>>
         /\ stage'[r] = stage[r] + 1 /\ done'[r] = {} /\ stage' \in [Ranks -> 1 .. NStages]
         /\ done' \in [Ranks -> SUBSET RegionTasks]
         /\ totals' \in [Ranks -> [Sums -> SUBSET Measure]]
         /\ \A t \in EachList \union FirstList : Done(r, t)
         /\ \A q \in Ranks \ {r} : SameRank(q)
<1>1. \A t \in EachList \union FirstList : Done(r, t)
  BY NetFieldAssumption DEF NextStage, RegionComplete, RegionTasks, Done, Lists
<1> QED BY <1>1, NetFieldAssumption DEF NextStage, BasicInv, Types, SameRank

LEMMA BasicStep ==
  ASSUME BasicInv, NEW r \in Ranks, RankStep(r)
  PROVE  BasicInv' /\ \A q \in Ranks \ {r} : SameRank(q)
<1>1. Types /\ \A q \in Ranks : Ordered(q)
  BY DEF BasicInv
<1>2. ASSUME NEW t \in EachList \union FirstList, NEW p, Run(r, t, p), active' = active, sent' = sent
      PROVE  \A q \in Ranks : Ordered(q)'
  <2>1. \A q \in Ranks : \A u \in EachList \union FirstList :
          Done(q, u)' => WaitsFor(u, 1) \subseteq done'[q]
    BY <1>2, RunBasics
  <2> QED BY <1>1, <1>2, <2>1 DEF Ordered
<1>3. ASSUME NEW i \in Sums, NEW p \in Lists, SumMdotPhiForNetFieldScaling(r, p, i)
      PROVE  BasicInv' /\ \A q \in Ranks \ {r} : SameRank(q)
  <2>1. /\ Run(r, sum_mdot(i), p) /\ UNCHANGED <<active, sent, next, scale, field>>
        /\ sum_mdot(i) \in EachList
    BY <1>3, TaskNames DEF SumMdotPhiForNetFieldScaling
  <2>2. /\ step' = step /\ stage' = stage /\ done' \in [Ranks -> SUBSET RegionTasks]
        /\ \A q \in Ranks \ {r} : done'[q] = done[q]
    BY <2>1, RunBasics
  <2>3. /\ totals' \in [Ranks -> [Sums -> SUBSET Measure]]
        /\ \A q \in Ranks \ {r} : totals'[q] = totals[q]
    BY <1>3, SumStep
  <2>4. \A q \in Ranks : Ordered(q)'
    BY <1>2, <2>1
  <2> QED BY <1>1, <2>1, <2>2, <2>3, <2>4 DEF BasicInv, Types, SameRank
<1>4. ASSUME NEW i \in Sums, NetFieldStartReduce(r, i)
      PROVE  BasicInv' /\ \A q \in Ranks \ {r} : SameRank(q)
  <2>1. /\ Run(r, start_reduce(i), 1) /\ UNCHANGED <<totals, next, scale, field>>
        /\ start_reduce(i) \in FirstList
    BY <1>4, TaskNames DEF NetFieldStartReduce
  <2>2. /\ step' = step /\ stage' = stage /\ done' \in [Ranks -> SUBSET RegionTasks]
        /\ \A q \in Ranks \ {r} : done'[q] = done[q]
        /\ \A q \in Ranks : \A u \in EachList \union FirstList :
             Done(q, u)' => WaitsFor(u, 1) \subseteq done'[q]
    BY <2>1, RunBasics
  <2>3. /\ active' \in [Ranks -> [Sums -> BOOLEAN]]
        /\ sent' \in [Ranks -> [Sums -> Seq(SUBSET Measure)]]
        /\ \A q \in Ranks \ {r} : active'[q] = active[q] /\ sent'[q] = sent[q]
        /\ \A j \in Sums \ {i} : active'[r][j] = active[r][j] /\ sent'[r][j] = sent[r][j]
        /\ Tuning(r) /\ ~active[r][i] =>
              active'[r][i] /\ sent'[r][i] = Append(sent[r][i], totals[r][i])
        /\ ~(Tuning(r) /\ ~active[r][i]) => active' = active /\ sent' = sent
    BY <1>4, StartStep
  <2>4. ASSUME NEW q \in Ranks, NEW j \in Sums, active'[q][j] PROVE Len(sent'[q][j]) >= 1
    <3>1. CASE q # r \/ j # i \/ ~(Tuning(r) /\ ~active[r][i])
      <4>1. active'[q][j] = active[q][j] /\ sent'[q][j] = sent[q][j]
        BY <2>3, <3>1
      <4> QED BY <1>1, <2>4, <4>1 DEF Ordered
    <3>2. CASE q = r /\ j = i /\ Tuning(r) /\ ~active[r][i]
      <4>1. sent[r][i] \in Seq(SUBSET Measure) /\ totals[r][i] \in SUBSET Measure
        BY <1>1 DEF Types
      <4>2. Len(Append(sent[r][i], totals[r][i])) = Len(sent[r][i]) + 1 /\ Len(sent[r][i]) \in Nat
        BY <4>1
      <4> QED BY <2>3, <3>2, <4>2
    <3> QED BY <3>1, <3>2
  <2>5. \A q \in Ranks : Ordered(q)'
    BY <2>2, <2>4 DEF Ordered
  <2> QED BY <1>1, <2>1, <2>2, <2>3, <2>5 DEF BasicInv, Types, SameRank
<1>5. ASSUME NEW i \in Sums, NetFieldCheckReduce(r, i)
      PROVE  BasicInv' /\ \A q \in Ranks \ {r} : SameRank(q)
  <2>1. /\ Run(r, finish_reduce(i), 1) /\ UNCHANGED <<sent, next, scale, field>>
        /\ finish_reduce(i) \in FirstList
    BY <1>5, TaskNames DEF NetFieldCheckReduce
  <2>2. /\ step' = step /\ stage' = stage /\ done' \in [Ranks -> SUBSET RegionTasks]
        /\ \A q \in Ranks \ {r} : done'[q] = done[q]
        /\ \A q \in Ranks : \A u \in EachList \union FirstList :
             Done(q, u)' => WaitsFor(u, 1) \subseteq done'[q]
    BY <2>1, RunBasics
  <2>3. /\ active' \in [Ranks -> [Sums -> BOOLEAN]]
        /\ totals' \in [Ranks -> [Sums -> SUBSET Measure]]
        /\ \A q \in Ranks : \A j \in Sums : active'[q][j] => active[q][j]
        /\ \A q \in Ranks \ {r} : active'[q] = active[q] /\ totals'[q] = totals[q]
    BY <1>5, CheckStep
  <2>4. \A q \in Ranks : Ordered(q)'
    BY <1>1, <2>1, <2>2, <2>3 DEF Ordered
  <2> QED BY <1>1, <2>1, <2>2, <2>3, <2>4 DEF BasicInv, Types, SameRank
<1>6. ASSUME NEW p \in Lists, NEW t \in EachList, NEW f \in Int, ModifyNetFieldFiducial(r, p, t, f)
      PROVE  BasicInv' /\ \A q \in Ranks \ {r} : SameRank(q)
  <2>1. Run(r, t, p) /\ UNCHANGED <<totals, active, sent, next, scale>>
    BY <1>6 DEF ModifyNetFieldFiducial
  <2>2. /\ step' = step /\ stage' = stage /\ done' \in [Ranks -> SUBSET RegionTasks]
        /\ \A q \in Ranks \ {r} : done'[q] = done[q]
    BY <2>1, RunBasics
  <2>3. /\ field' \in [Ranks -> [Lists -> FieldType]]
        /\ \A q \in Ranks \ {r} : field'[q] = field[q]
    BY <1>6, ModifyStep
  <2>4. \A q \in Ranks : Ordered(q)'
    BY <1>2, <2>1
  <2> QED BY <1>1, <2>1, <2>2, <2>3, <2>4 DEF BasicInv, Types, SameRank
<1>7. ASSUME NEW p \in Lists, ModifyNetFieldScaled(r, p)
      PROVE  BasicInv' /\ \A q \in Ranks \ {r} : SameRank(q)
  <2>1. Run(r, "update_netfield", p) /\ UNCHANGED <<totals, active, sent, next, scale>>
    BY <1>7 DEF ModifyNetFieldScaled
  <2>2. /\ step' = step /\ stage' = stage /\ done' \in [Ranks -> SUBSET RegionTasks]
        /\ \A q \in Ranks \ {r} : done'[q] = done[q]
    BY <2>1, RunBasics, TaskNames
  <2>3. /\ field' \in [Ranks -> [Lists -> FieldType]]
        /\ \A q \in Ranks \ {r} : field'[q] = field[q]
    BY <1>7, ScaledStep
  <2>4. \A q \in Ranks : Ordered(q)'
    BY <1>2, <2>1, TaskNames
  <2> QED BY <1>1, <2>1, <2>2, <2>3, <2>4 DEF BasicInv, Types, SameRank
<1>8. ASSUME NEW p \in Lists, UpdateNetFieldScaleControls(r, p)
      PROVE  BasicInv' /\ \A q \in Ranks \ {r} : SameRank(q)
  <2>1. Run(r, "set_scale", p) /\ UNCHANGED <<totals, active, sent, field>>
    BY <1>8 DEF UpdateNetFieldScaleControls
  <2>2. /\ step' = step /\ stage' = stage /\ done' \in [Ranks -> SUBSET RegionTasks]
        /\ \A q \in Ranks \ {r} : done'[q] = done[q]
    BY <2>1, RunBasics, TaskNames
  <2>3. /\ scale' \in [Ranks -> ScaleType] /\ next' \in [Ranks -> Nat]
        /\ \A q \in Ranks \ {r} : scale'[q] = scale[q] /\ next'[q] = next[q]
    BY <1>8, SetScaleStep
  <2>4. \A q \in Ranks : Ordered(q)'
    BY <1>2, <2>1, TaskNames
  <2> QED BY <1>1, <2>1, <2>2, <2>3, <2>4 DEF BasicInv, Types, SameRank
<1>9. ASSUME NextStage(r)
      PROVE  BasicInv' /\ \A q \in Ranks \ {r} : SameRank(q)
  <2>1. /\ UNCHANGED <<step, active, sent, next, scale, field>>
        /\ done'[r] = {} /\ stage' \in [Ranks -> 1 .. NStages]
        /\ done' \in [Ranks -> SUBSET RegionTasks]
        /\ totals' \in [Ranks -> [Sums -> SUBSET Measure]]
        /\ \A q \in Ranks \ {r} : SameRank(q)
    BY <1>9, StageStep
  <2>2. Types'
    BY <1>1, <2>1 DEF Types
  <2>3. \A q \in Ranks : Ordered(q)'
    BY <1>1, <2>1 DEF Ordered, SameRank, Done
  <2> QED BY <2>1, <2>2, <2>3 DEF BasicInv
<1> QED
  BY <1>3, <1>4, <1>5, <1>6, <1>7, <1>8, <1>9, TaskNames DEF RankStep

LEMMA NextStepStep ==
  ASSUME BasicInv, NextStep
  PROVE  /\ BasicInv' /\ UNCHANGED <<active, sent, next, scale, field>>
         /\ \A r \in Ranks :
              /\ step'[r] = step[r] + 1 /\ stage'[r] = 1 /\ done'[r] = {}
              /\ stage[r] = NStages /\ step[r] \in Nat
              /\ \A i \in Sums : totals'[r][i] = {}
              /\ \A t \in EachList \union FirstList : Done(r, t)
<1>1. /\ UNCHANGED <<active, sent, next, scale, field>>
      /\ \A r \in Ranks :
           /\ step'[r] = step[r] + 1 /\ stage'[r] = 1 /\ done'[r] = {}
           /\ stage[r] = NStages /\ step[r] \in Nat
           /\ \A i \in Sums : totals'[r][i] = {}
  BY DEF NextStep, BasicInv, Types
<1>2. \A r \in Ranks : \A t \in EachList \union FirstList : Done(r, t)
  BY NetFieldAssumption DEF NextStep, RegionComplete, RegionTasks, Done, Lists
<1>3. Types'
  BY NetFieldAssumption DEF NextStep, BasicInv, Types
<1>4. \A r \in Ranks : Ordered(r)'
  BY <1>1 DEF BasicInv, Ordered, Done
<1> QED BY <1>1, <1>2, <1>3, <1>4 DEF BasicInv

LEMMA BasicInit == Init => BasicInv
<1> SUFFICES ASSUME Init PROVE BasicInv
  OBVIOUS
<1>1. NoScale \in ScaleType
  BY NetFieldAssumption DEF NoScale, ScaleType
<1>2. NoField \in FieldType
  BY <1>1 DEF NoField, FieldType
<1>3. /\ step \in [Ranks -> 1 .. NSteps] /\ stage \in [Ranks -> 1 .. NStages]
      /\ done \in [Ranks -> SUBSET RegionTasks]
      /\ totals \in [Ranks -> [Sums -> SUBSET Measure]]
      /\ active \in [Ranks -> [Sums -> BOOLEAN]]
      /\ sent \in [Ranks -> [Sums -> Seq(SUBSET Measure)]]
      /\ next \in [Ranks -> Nat]
  BY NetFieldAssumption DEF Init
<1>4. scale \in [Ranks -> ScaleType] /\ field \in [Ranks -> [Lists -> FieldType]]
  BY <1>1, <1>2 DEF Init
<1>5. \A r \in Ranks : done[r] = {} /\ \A i \in Sums : ~active[r][i]
  BY DEF Init
<1> QED BY <1>3, <1>4, <1>5 DEF BasicInv, Types, Ordered, Done

LEMMA BasicNext == BasicInv /\ [Next]_vars => BasicInv'
<1> SUFFICES ASSUME BasicInv, [Next]_vars PROVE BasicInv'
  OBVIOUS
<1>1. ASSUME UNCHANGED vars PROVE BasicInv'
  BY <1>1 DEF vars, BasicInv, Types, Ordered, Done
<1> QED BY <1>1, BasicStep, NextStepStep DEF Next, Finish

LEMMA Order ==
  ASSUME NEW r \in Ranks, Ordered(r)
  PROVE  /\ \A i \in Sums : /\ Done(r, start_reduce(i)) => Done(r, sum_mdot(i))
                            /\ Done(r, finish_reduce(i)) => Done(r, start_reduce(i))
         /\ Done(r, "mod_net") => Done(r, finish_reduce(1))
         /\ Done(r, sum_mdot(2)) => Done(r, "mod_net")
         /\ Done(r, "mod_net_2") => Done(r, finish_reduce(2))
         /\ Done(r, "set_scale") => Done(r, "mod_net_2")
         /\ Done(r, "update_netfield") => Done(r, "set_scale")
<1>1. \A t \in EachList \union FirstList : Done(r, t) => WaitsFor(t, 1) \subseteq done[r]
  BY DEF Ordered
<1>2. /\ WaitsFor("start_reduce_1", 1) = {"sum_mdot_1"} \X Lists
      /\ WaitsFor("finish_reduce_1", 1) = {<<"start_reduce_1", 1>>}
      /\ WaitsFor("mod_net", 1) = {<<"finish_reduce_1", 1>>}
      /\ WaitsFor("sum_mdot_2", 1) = {<<"mod_net", 1>>}
      /\ WaitsFor("start_reduce_2", 1) = {"sum_mdot_2"} \X Lists
      /\ WaitsFor("finish_reduce_2", 1) = {<<"start_reduce_2", 1>>}
      /\ WaitsFor("mod_net_2", 1) = {<<"finish_reduce_2", 1>>}
      /\ WaitsFor("set_scale", 1) = {<<"mod_net_2", 1>>}
      /\ WaitsFor("update_netfield", 1) = {<<"set_scale", 1>>}
  BY DEF WaitsFor
<1>3. 1 \in Lists
  BY NetFieldAssumption DEF Lists
<1>4. /\ Done(r, "start_reduce_1") => Done(r, "sum_mdot_1")
      /\ Done(r, "start_reduce_2") => Done(r, "sum_mdot_2")
  BY <1>1, <1>2, <1>3 DEF EachList, FirstList, Done
<1>5. /\ Done(r, "finish_reduce_1") => Done(r, "start_reduce_1")
      /\ Done(r, "finish_reduce_2") => Done(r, "start_reduce_2")
      /\ Done(r, "mod_net") => Done(r, "finish_reduce_1")
      /\ Done(r, "sum_mdot_2") => Done(r, "mod_net")
      /\ Done(r, "mod_net_2") => Done(r, "finish_reduce_2")
      /\ Done(r, "set_scale") => Done(r, "mod_net_2")
      /\ Done(r, "update_netfield") => Done(r, "set_scale")
  BY <1>1, <1>2 DEF EachList, FirstList, Done
<1> QED BY <1>4, <1>5 DEF Sums, start_reduce, finish_reduce, sum_mdot

(* The step of a task in one partition: what is done, and what that needed *)
LEMMA TaskOf ==
  ASSUME BasicInv, NEW r \in Ranks, NEW t \in EachList \union FirstList, Run(r, t, 1)
  PROVE  /\ step' = step /\ stage' = stage
         /\ ~Done(r, t) /\ WaitsFor(t, 1) \subseteq done[r]
         /\ \A u : Done(r, u)' <=> (Done(r, u) \/ u = t)
BY RunBasics DEF Done

LEMMA OneList ==
  ASSUME NParts = 1, BasicInv, NEW r \in Ranks, RankStep(r)
  PROVE  \/ \E i \in Sums : SumMdotPhiForNetFieldScaling(r, 1, i)
         \/ \E i \in Sums : NetFieldStartReduce(r, i)
         \/ \E i \in Sums : NetFieldCheckReduce(r, i)
         \/ ModifyNetFieldFiducial(r, 1, "mod_net", 1)
         \/ ModifyNetFieldFiducial(r, 1, "mod_net_2", -1)
         \/ UpdateNetFieldScaleControls(r, 1)
         \/ ModifyNetFieldScaled(r, 1)
         \/ NextStage(r)
BY DEF RankStep, Lists

----------------------------------------------------------------------------
(* The artificial field                                                    *)

LEMMA FiducialStep ==
  ASSUME NParts = 1, BasicInv, NEW r \in Ranks, Fiducial(r), RankStep(r)
  PROVE  Fiducial(r)'
<1>1. /\ Ordered(r) /\ Types /\ 1 \in Lists /\ field[r][1].fid \in Int
  <2>1. Ordered(r) /\ Types
    BY DEF BasicInv
  <2>2. 1 \in Lists
    BY DEF Lists
  <2>3. field[r][1] \in FieldType
    BY <2>2, RankTypes
  <2> QED BY <2>1, <2>2, <2>3 DEF FieldType
<1>2. /\ Done(r, sum_mdot(2)) => Done(r, "mod_net")
      /\ Done(r, "set_scale") => Done(r, "mod_net_2")
      /\ Done(r, finish_reduce(2)) => Done(r, "mod_net")
      /\ Done(r, "mod_net_2") => Done(r, "mod_net")
  <2>1. 2 \in Sums
    BY DEF Sums
  <2>2. \A i \in Sums : /\ Done(r, start_reduce(i)) => Done(r, sum_mdot(i))
                        /\ Done(r, finish_reduce(i)) => Done(r, start_reduce(i))
    BY <1>1, Order
  <2>3. /\ Done(r, sum_mdot(2)) => Done(r, "mod_net")
        /\ Done(r, "mod_net_2") => Done(r, finish_reduce(2))
        /\ Done(r, "set_scale") => Done(r, "mod_net_2")
    BY <1>1, Order
  <2>4. /\ Done(r, start_reduce(2)) => Done(r, sum_mdot(2))
        /\ Done(r, finish_reduce(2)) => Done(r, start_reduce(2))
    BY <2>1, <2>2, Zenon
  <2> QED BY <2>3, <2>4
<1>3. ASSUME NEW t \in EachList \union FirstList, t \notin {"mod_net", "mod_net_2"}, Run(r, t, 1),
             field'[r][1].fid = field[r][1].fid, next' = next
      PROVE  Fiducial(r)'
  <2>1. /\ step' = step /\ stage' = stage
        /\ Done(r, "mod_net")' <=> Done(r, "mod_net")
        /\ Done(r, "mod_net_2")' <=> Done(r, "mod_net_2")
    BY <1>3, TaskOf
  <2>2. Due(r)' <=> Due(r)
    BY <1>3, <2>1 DEF Due, time
  <2> QED BY <1>3, <2>1, <2>2 DEF Fiducial
<1>4. ASSUME NEW i \in Sums, \/ SumMdotPhiForNetFieldScaling(r, 1, i)
                             \/ NetFieldStartReduce(r, i) \/ NetFieldCheckReduce(r, i)
      PROVE  Fiducial(r)'
  <2>1. PICK t \in {sum_mdot(i), start_reduce(i), finish_reduce(i)} :
          Run(r, t, 1) /\ field' = field /\ next' = next
    BY <1>4 DEF SumMdotPhiForNetFieldScaling, NetFieldStartReduce, NetFieldCheckReduce
  <2>2. t \in EachList \union FirstList /\ t \notin {"mod_net", "mod_net_2"}
    BY TaskNames DEF sum_mdot, start_reduce, finish_reduce
  <2> QED BY <1>3, <2>1, <2>2
<1>5. CASE ModifyNetFieldScaled(r, 1)
  <2>1. Run(r, "update_netfield", 1) /\ next' = next
    BY <1>5 DEF ModifyNetFieldScaled
  <2>2. field'[r][1] = [fid |-> field[r][1].fid, step |-> step[r],
                        stage |-> stage[r], scale |-> scale[r]]
    BY <1>1, <1>5, ScaledStep
  <2>3. field'[r][1].fid = field[r][1].fid
    BY <2>2
  <2> QED BY <1>3, <2>1, <2>3, TaskNames
<1>6. CASE ModifyNetFieldFiducial(r, 1, "mod_net", 1)
  <2>1. Run(r, "mod_net", 1) /\ next' = next
    BY <1>6 DEF ModifyNetFieldFiducial
  <2>2. field'[r][1] = IF stage[r] = 1 /\ Due(r)
                       THEN [field[r][1] EXCEPT !.fid = field[r][1].fid + 1] ELSE field[r][1]
    BY <1>1, <1>6, ModifyStep
  <2>3. field[r][1] \in FieldType
    BY <1>1 DEF Types
  <2>4. field'[r][1].fid = IF stage[r] = 1 /\ Due(r) THEN field[r][1].fid + 1 ELSE field[r][1].fid
    BY <2>2, <2>3 DEF FieldType
  <2>5. /\ step' = step /\ stage' = stage /\ ~Done(r, "mod_net") /\ ~Done(r, "mod_net_2")
        /\ Done(r, "mod_net")' /\ ~Done(r, "mod_net_2")'
    BY <1>2, <2>1, TaskOf, TaskNames
  <2>6. Due(r)' <=> Due(r)
    BY <2>1, <2>5 DEF Due, time
  <2> QED BY <2>4, <2>5, <2>6 DEF Fiducial
<1>7. CASE ModifyNetFieldFiducial(r, 1, "mod_net_2", -1)
  <2>1. Run(r, "mod_net_2", 1) /\ next' = next
    BY <1>7 DEF ModifyNetFieldFiducial
  <2>2. field'[r][1] = IF stage[r] = 1 /\ Due(r)
                       THEN [field[r][1] EXCEPT !.fid = field[r][1].fid + -1] ELSE field[r][1]
    BY <1>1, <1>7, ModifyStep
  <2>3. field[r][1] \in FieldType
    BY <1>1 DEF Types
  <2>4. field'[r][1].fid = IF stage[r] = 1 /\ Due(r) THEN field[r][1].fid - 1 ELSE field[r][1].fid
    BY <1>1, <2>2, <2>3 DEF FieldType
  <2>5. /\ step' = step /\ stage' = stage /\ ~Done(r, "mod_net_2")
        /\ Done(r, "mod_net_2")'
    BY <2>1, TaskOf, TaskNames
  <2>6. Done(r, "mod_net")
    <3>1. WaitsFor("mod_net_2", 1) = {<<"finish_reduce_2", 1>>}
      BY DEF WaitsFor
    <3>2. Done(r, finish_reduce(2))
      BY <2>1, <3>1, TaskOf, TaskNames DEF Done, finish_reduce
    <3> QED BY <1>2, <3>2
  <2> QED BY <2>4, <2>5, <2>6 DEF Fiducial
<1>8. CASE UpdateNetFieldScaleControls(r, 1)
  <2>1. Run(r, "set_scale", 1) /\ field' = field
    BY <1>8 DEF UpdateNetFieldScaleControls
  <2>2. WaitsFor("set_scale", 1) = {<<"mod_net_2", 1>>}
    BY DEF WaitsFor
  <2>3. Done(r, "mod_net_2") /\ Done(r, "mod_net_2")'
    BY <2>1, <2>2, TaskOf, TaskNames DEF Done
  <2> QED BY <2>1, <2>3 DEF Fiducial
<1>9. CASE NextStage(r)
  <2>1. field' = field /\ done'[r] = {} /\ \A t \in EachList \union FirstList : Done(r, t)
    BY <1>9, StageStep
  <2> QED BY <2>1, TaskNames DEF Fiducial, Done
<1> QED BY <1>4, <1>5, <1>6, <1>7, <1>8, <1>9, OneList

(* The artificial field that the tuning adds to measure by is taken away   *)
(* again by the end of the region (ModifyNetField with fiducial, twice),   *)
(* whenever a region is due: for any cadence, start and restart, and any   *)
(* number of ranks, stages and steps, with one partition per rank.         *)
THEOREM FiducialGone ==
  ASSUME NParts = 1 PROVE Spec => []FiducialRemoved
<1> DEFINE Inv == BasicInv /\ \A r \in Ranks : Fiducial(r)
<1>1. Init => Inv
  <2> SUFFICES ASSUME Init, NEW r \in Ranks PROVE Fiducial(r)
    BY BasicInit
  <2>1. done[r] = {} /\ field[r][1].fid = 0
    BY DEF Init, NoField, Lists
  <2> QED BY <2>1 DEF Fiducial, Done
<1>2. Inv /\ [Next]_vars => Inv'
  <2> SUFFICES ASSUME Inv, [Next]_vars, NEW q \in Ranks PROVE Fiducial(q)'
    BY BasicNext
  <2>1. Fiducial(q)
    OBVIOUS
  <2>2. ASSUME SameRank(q) PROVE Fiducial(q)'
    BY <2>1, <2>2 DEF SameRank, Fiducial, Due, time, Done
  <2>3. ASSUME NEW r \in Ranks, RankStep(r) PROVE Fiducial(q)'
    <3>1. CASE q = r
      BY <2>1, <2>3, <3>1, FiducialStep
    <3>2. CASE q # r
      BY <2>2, <2>3, <3>2, BasicStep
    <3> QED BY <3>1, <3>2
  <2>4. ASSUME NextStep PROVE Fiducial(q)'
    <3>1. field' = field /\ done'[q] = {} /\ Done(q, "mod_net_2")
      BY <2>4, NextStepStep, TaskNames
    <3> QED BY <2>1, <3>1 DEF Fiducial, Done
  <2>5. ASSUME UNCHANGED vars PROVE Fiducial(q)'
    <3>1. SameRank(q)
      BY <2>5 DEF vars, SameRank
    <3> QED BY <2>2, <3>1
  <2> QED BY <2>3, <2>4, <2>5 DEF Next, Finish
<1>3. Inv => FiducialRemoved
  <2> SUFFICES ASSUME Inv, NEW r \in Ranks, RegionComplete(r), NEW p \in Lists
               PROVE  field[r][p].fid = 0
    BY DEF FiducialRemoved
  <2>1. p = 1 /\ Done(r, "mod_net_2")
    BY TaskNames DEF Lists, RegionComplete, RegionTasks, Done
  <2> QED BY <2>1 DEF Fiducial
<1> HIDE DEF Inv
<1> QED BY <1>1, <1>2, <1>3, PTL DEF Spec

----------------------------------------------------------------------------
(* Steps that tune                                                         *)

LEMMA TimeType ==
  ASSUME BasicInv, NEW r \in Ranks PROVE time(r) \in Int
<1>1. step[r] \in Int /\ Dt \in Int /\ InitialTime \in Int
  BY NetFieldAssumption DEF BasicInv, Types
<1>2. (step[r] - 1) * Dt \in Int
  BY <1>1
<1> QED BY <1>1, <1>2 DEF time

(* A region is due exactly when its step tunes and has no scale yet *)
LEMMA DueNow ==
  ASSUME Punctual, BasicInv, NEW r \in Ranks, Timed(r)
  PROVE  (Due(r) <=> Tuned(r) /\ ~Set(r)) /\ (Tuning(r) <=> Due(r))
<1>1. time(r) \in Int /\ next[r] \in Nat /\ Cadence \in Nat /\ Dt \in Nat /\ StartTime \in Nat
  BY TimeType, NetFieldAssumption DEF BasicInv, Types
<1>2. CASE Current(r)
  <2>1. Base(r) = next[r] - Cadence
    BY <1>2 DEF Base
  <2>2. ~Due(r)
    BY <1>1, <2>1 DEF Timed, Due, Punctual
  <2> QED BY <1>2, <2>2 DEF Timed, Tuning
<1>3. CASE ~Current(r)
  <2>1. Base(r) = next[r]
    BY <1>3 DEF Base
  <2>2. Due(r) <=> Tuned(r)
    BY <2>1 DEF Due, Tuned
  <2>3. Due(r) => time(r) >= StartTime
    BY <1>1, <2>1 DEF Timed, Due
  <2> QED BY <1>3, <2>2, <2>3 DEF Timed, Tuning
<1> QED BY <1>2, <1>3

LEMMA OtherRank ==
  ASSUME NEW q \in Ranks, RankInv(q), SameRank(q)
  PROVE  RankInv(q)'
<1>1. /\ step'[q] = step[q] /\ stage'[q] = stage[q] /\ next'[q] = next[q]
      /\ scale'[q] = scale[q] /\ field'[q] = field[q] /\ totals'[q] = totals[q]
      /\ active'[q] = active[q] /\ sent'[q] = sent[q]
  BY DEF SameRank
<1>2. \A t : Done(q, t)' <=> Done(q, t)
  BY DEF SameRank, Done
<1>3. /\ time(q)' = time(q) /\ (Due(q)' <=> Due(q)) /\ (Set(q)' <=> Set(q))
      /\ (Current(q)' <=> Current(q)) /\ \A i \in Sums : Own(q, i)' = Own(q, i)
  BY <1>1, <1>2 DEF time, Due, Set, Current, Own
<1>4. /\ Base(q)' = Base(q) /\ Before(q)' = Before(q)
      /\ \A i \in Sums : Started(q, i)' <=> Started(q, i)
  BY <1>1, <1>2, <1>3 DEF Base, Before, Started
<1>5. Tuned(q)' <=> Tuned(q)
  BY <1>3, <1>4 DEF Tuned
<1>6. Fiducial(q)' /\ Timed(q)' /\ Scaled(q)'
  BY <1>1, <1>2, <1>3, <1>4, <1>5 DEF RankInv, Fiducial, Timed, Scaled
<1>7. Sending(q)'
  <2>1. Sending(q)
    BY DEF RankInv
  <2> QED BY <1>1, <1>2, <1>3, <1>4, <1>5, <2>1 DEF Sending
<1>8. Applied(q)'
  BY <1>1, <1>2, <1>3 DEF RankInv, Applied
<1>9. Totalled(q)'
  <2>1. Totalled(q)
    BY DEF RankInv
  <2>2. \A i \in Sums : All(step[q], i - 1)' = All(step[q], i - 1)
    BY <1>1 DEF All
  <2> QED BY <1>1, <1>2, <1>3, <1>5, <2>1, <2>2 DEF Totalled
<1> QED BY <1>6, <1>7, <1>8, <1>9 DEF RankInv

LEMMA AlikeKept ==
  ASSUME BasicInv, TuningInv, NEW r \in Ranks, \A q \in Ranks \ {r} : SameRank(q),
         step'[r] = step[r], Base(r)' = Base(r), Before(r)' = Before(r),
         Current(r)' \/ scale'[r] = scale[r],
         \/ field'[r][1].step = step[r]
         \/ field'[r][1].step = field[r][1].step /\ field'[r][1].scale = field[r][1].scale
  PROVE  \A u, q \in Ranks : Alike(u, q)'
<1>1. ASSUME NEW q \in Ranks, q # r
      PROVE  /\ step'[q] = step[q] /\ Base(q)' = Base(q) /\ Before(q)' = Before(q)
             /\ scale'[q] = scale[q] /\ field'[q] = field[q] /\ (Current(q)' <=> Current(q))
  BY <1>1 DEF SameRank, Base, Before, Current
<1>2. \A u, q \in Ranks : Alike(u, q)
  BY DEF TuningInv
<1>3. ASSUME NEW u \in Ranks, NEW q \in Ranks
      PROVE  step'[u] = step'[q] /\ Base(u)' = Base(q)' /\ Before(u)' = Before(q)'
  BY <1>1, <1>2 DEF Alike
<1>4. ASSUME NEW u \in Ranks, NEW q \in Ranks, ~Current(u)', ~Current(q)'
      PROVE  scale'[u] = scale'[q]
  <2>1. ASSUME NEW x \in Ranks, ~Current(x)' PROVE ~Current(x) /\ scale'[x] = scale[x]
    BY <1>1, <2>1 DEF Current
  <2> QED BY <1>2, <1>4, <2>1 DEF Alike
<1>5. ASSUME NEW u \in Ranks, NEW q \in Ranks,
             field'[u][1].step < step'[u], field'[q][1].step < step'[q]
      PROVE  field'[u][1].scale = field'[q][1].scale
  <2>1. ASSUME NEW x \in Ranks, field'[x][1].step < step'[x]
        PROVE  field[x][1].step < step[x] /\ field'[x][1].scale = field[x][1].scale
    <3>1. CASE x = r
      <4>1. ~(step[r] < step[r])
        BY DEF BasicInv, Types
      <4> QED BY <2>1, <3>1, <4>1
    <3>2. CASE x # r
      BY <1>1, <2>1, <3>2
    <3> QED BY <3>1, <3>2
  <2> QED BY <1>2, <1>5, <2>1 DEF Alike
<1> QED BY <1>3, <1>4, <1>5 DEF Alike

(* Tasks other than set_scale do not touch what the step started from *)
LEMMA CalmTask ==
  ASSUME BasicInv, NEW r \in Ranks, RankInv(r), NEW t \in EachList \union FirstList,
         Run(r, t, 1), t # "set_scale", next' = next, scale' = scale
  PROVE  /\ step' = step /\ stage' = stage /\ Timed(r)' /\ Scaled(r)'
         /\ (Tuned(r)' <=> Tuned(r)) /\ (Set(r)' <=> Set(r)) /\ (Current(r)' <=> Current(r))
         /\ Base(r)' = Base(r) /\ Before(r)' = Before(r)
         /\ \A i : Own(r, i)' = Own(r, i)
         /\ \A u : Done(r, u)' <=> (Done(r, u) \/ u = t)
         /\ ~Done(r, t) /\ WaitsFor(t, 1) \subseteq done[r]
<1>1. /\ step' = step /\ stage' = stage
      /\ \A u : Done(r, u)' <=> (Done(r, u) \/ u = t)
      /\ ~Done(r, t) /\ WaitsFor(t, 1) \subseteq done[r]
  BY TaskOf
<1>2. /\ time(r)' = time(r) /\ (Set(r)' <=> Set(r)) /\ (Current(r)' <=> Current(r))
      /\ \A i : Own(r, i)' = Own(r, i)
  BY <1>1 DEF time, Set, Current, Own
<1>3. Base(r)' = Base(r) /\ Before(r)' = Before(r)
  BY <1>2 DEF Base, Before
<1>4. Tuned(r)' <=> Tuned(r)
  BY <1>2, <1>3 DEF Tuned
<1>5. Timed(r)' /\ Scaled(r)'
  BY <1>1, <1>2, <1>3, <1>4 DEF RankInv, Timed, Scaled
<1> QED BY <1>1, <1>2, <1>3, <1>4, <1>5

LEMMA CalmSending ==
  ASSUME NEW r \in Ranks, Sending(r), active' = active, sent' = sent, stage' = stage,
         Tuned(r)' <=> Tuned(r), Before(r)' = Before(r), \A i : Own(r, i)' = Own(r, i),
         \A i \in Sums : /\ Done(r, start_reduce(i))' <=> Done(r, start_reduce(i))
                         /\ Done(r, finish_reduce(i))' <=> Done(r, finish_reduce(i))
  PROVE  Sending(r)'
BY DEF Sending, Started

LEMMA CalmTotalled ==
  ASSUME NEW r \in Ranks, Totalled(r), totals' = totals, step' = step, stage' = stage,
         Tuned(r)' <=> Tuned(r), \A i : Own(r, i)' = Own(r, i),
         \A i \in Sums : /\ Done(r, sum_mdot(i))' <=> Done(r, sum_mdot(i))
                         /\ Done(r, finish_reduce(i))' <=> Done(r, finish_reduce(i))
  PROVE  Totalled(r)'
BY DEF Totalled

LEMMA CalmApplied ==
  ASSUME NEW r \in Ranks, Applied(r), step' = step, scale' = scale, Set(r)' <=> Set(r),
         field'[r][1].step = field[r][1].step, field'[r][1].scale = field[r][1].scale,
         Done(r, "update_netfield")' <=> Done(r, "update_netfield")
  PROVE  Applied(r)'
BY DEF Applied

LEMMA StepKeeps ==
  ASSUME BasicInv, TuningInv, NEW r \in Ranks, RankStep(r), RankInv(r)',
         step'[r] = step[r], Base(r)' = Base(r), Before(r)' = Before(r),
         Current(r)' \/ scale'[r] = scale[r],
         \/ field'[r][1].step = step[r]
         \/ field'[r][1].step = field[r][1].step /\ field'[r][1].scale = field[r][1].scale
  PROVE  TuningInv'
<1>1. \A q \in Ranks \ {r} : SameRank(q)
  BY BasicStep
<1>2. \A u, q \in Ranks : Alike(u, q)'
  BY <1>1, AlikeKept
<1>3. ASSUME NEW q \in Ranks PROVE RankInv(q)'
  BY <1>1, <1>3, OtherRank DEF TuningInv
<1> QED BY <1>2, <1>3 DEF TuningInv

LEMMA SumKeeps ==
  ASSUME NParts = 1, Punctual, BasicInv, TuningInv, NEW r \in Ranks, RankStep(r),
         NEW i \in Sums, SumMdotPhiForNetFieldScaling(r, 1, i)
  PROVE  TuningInv'
<1> DEFINE t == sum_mdot(i)
<1>1. /\ Run(r, t, 1) /\ UNCHANGED <<active, sent, next, scale, field>>
      /\ t \in EachList \union FirstList /\ t # "set_scale" /\ t # "update_netfield"
      /\ \A j \in Sums : t # start_reduce(j) /\ t # finish_reduce(j)
      /\ \A j \in Sums \ {i} : t # sum_mdot(j)
  BY TaskNames DEF SumMdotPhiForNetFieldScaling, sum_mdot, start_reduce, finish_reduce, Sums
<1>2. RankInv(r) /\ Ordered(r) /\ 1 \in Lists /\ (i = 1 \/ i = 2)
  BY DEF TuningInv, BasicInv, Lists, Sums
<1>3. /\ step' = step /\ stage' = stage /\ Timed(r)' /\ Scaled(r)'
      /\ (Tuned(r)' <=> Tuned(r)) /\ (Set(r)' <=> Set(r)) /\ (Current(r)' <=> Current(r))
      /\ Base(r)' = Base(r) /\ Before(r)' = Before(r)
      /\ \A j : Own(r, j)' = Own(r, j)
      /\ \A u : Done(r, u)' <=> (Done(r, u) \/ u = t)
      /\ ~Done(r, t) /\ WaitsFor(t, 1) \subseteq done[r]
  BY <1>1, <1>2, CalmTask
<1>4. Fiducial(r)'
  BY <1>2, FiducialStep DEF RankInv
<1>5. Sending(r)' /\ Applied(r)'
  BY <1>1, <1>2, <1>3, CalmSending, CalmApplied DEF RankInv
<1>6. \A j \in Sums : /\ Done(r, start_reduce(j)) => Done(r, sum_mdot(j))
                      /\ Done(r, finish_reduce(j)) => Done(r, start_reduce(j))
  BY <1>2, Order
<1>7. /\ ~Done(r, finish_reduce(i)) /\ ~Done(r, start_reduce(i))
  BY <1>3, <1>6
<1>8. ~Done(r, "set_scale") /\ ~Done(r, "mod_net_2")
  <2>1. /\ Done(r, "set_scale") => Done(r, "mod_net_2")
        /\ Done(r, "mod_net_2") => Done(r, finish_reduce(2))
        /\ Done(r, sum_mdot(2)) => Done(r, "mod_net")
        /\ Done(r, "mod_net") => Done(r, finish_reduce(1))
    BY <1>2, Order
  <2>2. /\ Done(r, finish_reduce(2)) => Done(r, sum_mdot(2))
        /\ Done(r, finish_reduce(1)) => Done(r, sum_mdot(1))
    BY <1>6 DEF Sums
  <2> QED BY <1>2, <1>3, <2>1, <2>2
<1>9. Done(r, "mod_net") <=> i = 2
  <2>1. Done(r, "mod_net") => Done(r, finish_reduce(1))
    BY <1>2, Order
  <2>2. WaitsFor("sum_mdot_2", 1) = {<<"mod_net", 1>>}
    BY DEF WaitsFor
  <2>3. CASE i = 1
    BY <1>7, <2>1, <2>3
  <2>4. CASE i = 2
    BY <1>3, <2>2, <2>4 DEF sum_mdot, Done
  <2> QED BY <1>2, <2>3, <2>4
<1>10. Totalled(r)'
  <2>1. SUFFICES ASSUME stage[r] = 1, Tuned(r), NEW j \in Sums
                 PROVE  totals'[r][j] = IF Done(r, finish_reduce(j))' THEN All(step[r], j - 1)
                                        ELSE IF Done(r, sum_mdot(j))' THEN {Own(r, j)} ELSE {}
    BY <1>3 DEF Totalled
  <2>2. totals[r][j] = IF Done(r, finish_reduce(j)) THEN All(step[r], j - 1)
                       ELSE IF Done(r, sum_mdot(j)) THEN {Own(r, j)} ELSE {}
    BY <1>2, <2>1 DEF RankInv, Totalled
  <2>3. Done(r, finish_reduce(j))' <=> Done(r, finish_reduce(j))
    BY <1>1, <1>3
  <2>4. CASE j # i
    <3>1. totals'[r][j] = totals[r][j]
      <4>1. \A l \in Sums \ {i} : totals'[r][l] = totals[r][l]
        BY <1>2, SumStep
      <4> QED BY <2>4, <4>1
    <3>2. Done(r, sum_mdot(j))' <=> Done(r, sum_mdot(j))
      BY <1>1, <1>3, <2>4
    <3> QED BY <2>2, <2>3, <3>1, <3>2
  <2>5. CASE j = i
    <3>1. Tuning(r) /\ Due(r)
      BY <1>2, <1>8, <2>1, DueNow DEF Set, RankInv
    <3>2. field[r][1].fid = i - 1
      <4>1. field[r][1].fid = IF i = 2 THEN 1 ELSE 0
        BY <1>2, <1>8, <1>9, <2>1, <3>1 DEF RankInv, Fiducial
      <4> QED BY <1>2, <4>1
    <3>3. totals[r][i] = {}
      BY <1>3, <1>7, <2>2, <2>5
    <3>4. totals'[r][i] = totals[r][i] \union {[rank |-> r, part |-> 1, step |-> step[r],
                                               fid |-> field[r][1].fid]}
      <4>1. totals'[r][i] = IF stage[r] = 1 /\ Tuning(r)
                              THEN totals[r][i] \union {[rank |-> r, part |-> 1, step |-> step[r],
                                                         fid |-> field[r][1].fid]}
                              ELSE totals[r][i]
        BY <1>2, SumStep
      <4> QED BY <2>1, <3>1, <4>1
    <3>5. totals'[r][i] = {Own(r, i)}
      BY <3>2, <3>3, <3>4 DEF Own
    <3> QED BY <1>3, <1>7, <2>3, <2>5, <3>5
  <2> QED BY <2>4, <2>5
<1> QED BY <1>1, <1>3, <1>4, <1>5, <1>10, StepKeeps DEF RankInv

LEMMA StartKeeps ==
  ASSUME NParts = 1, Punctual, BasicInv, TuningInv, NEW r \in Ranks, RankStep(r),
         NEW i \in Sums, NetFieldStartReduce(r, i)
  PROVE  TuningInv'
<1> DEFINE t == start_reduce(i)
<1>1. /\ Run(r, t, 1) /\ UNCHANGED <<totals, next, scale, field>>
      /\ t \in EachList \union FirstList /\ t # "set_scale" /\ t # "update_netfield"
      /\ \A j \in Sums : t # sum_mdot(j) /\ t # finish_reduce(j)
      /\ \A j \in Sums \ {i} : t # start_reduce(j)
  BY TaskNames DEF NetFieldStartReduce, sum_mdot, start_reduce, finish_reduce, Sums
<1>2. RankInv(r) /\ Ordered(r) /\ (i = 1 \/ i = 2)
  BY DEF TuningInv, BasicInv, Sums
<1>3. /\ step' = step /\ stage' = stage /\ Timed(r)' /\ Scaled(r)'
      /\ (Tuned(r)' <=> Tuned(r)) /\ (Set(r)' <=> Set(r)) /\ (Current(r)' <=> Current(r))
      /\ Base(r)' = Base(r) /\ Before(r)' = Before(r)
      /\ \A j : Own(r, j)' = Own(r, j)
      /\ \A u : Done(r, u)' <=> (Done(r, u) \/ u = t)
      /\ ~Done(r, t) /\ WaitsFor(t, 1) \subseteq done[r]
  BY <1>1, <1>2, CalmTask
<1>4. Fiducial(r)'
  BY <1>2, FiducialStep DEF RankInv
<1>5. Totalled(r)' /\ Applied(r)'
  BY <1>1, <1>2, <1>3, CalmTotalled, CalmApplied DEF RankInv
<1>6. \A j \in Sums : Done(r, finish_reduce(j)) => Done(r, start_reduce(j))
  BY <1>2, Order
<1>7. Done(r, sum_mdot(i)) /\ ~Done(r, finish_reduce(i))
  <2>1. WaitsFor(t, 1) = {sum_mdot(i)} \X Lists /\ 1 \in Lists
    BY <1>2, NetFieldAssumption DEF WaitsFor, start_reduce, sum_mdot, Lists
  <2> QED BY <1>3, <1>6, <2>1 DEF Done
<1>8. stage[r] = 1 => ~Set(r)
  <2>1. /\ Done(r, "set_scale") => Done(r, "mod_net_2")
        /\ Done(r, "mod_net_2") => Done(r, finish_reduce(2))
        /\ Done(r, sum_mdot(2)) => Done(r, "mod_net")
        /\ Done(r, "mod_net") => Done(r, finish_reduce(1))
    BY <1>2, Order
  <2>2. /\ Done(r, finish_reduce(2)) => Done(r, start_reduce(2))
        /\ Done(r, start_reduce(2)) => Done(r, sum_mdot(2))
        /\ Done(r, finish_reduce(1)) => Done(r, start_reduce(1))
    <3>1. \A j \in Sums : Done(r, start_reduce(j)) => Done(r, sum_mdot(j))
      BY <1>2, Order
    <3> QED BY <1>6, <3>1 DEF Sums
  <2>3. ~Done(r, "set_scale")
    BY <1>2, <1>3, <2>1, <2>2
  <2> QED BY <2>3 DEF Set
<1>9. Tuning(r) <=> Tuned(r) /\ stage[r] = 1
  <2>1. stage[r] >= 1 /\ stage[r] \in Nat
    BY DEF BasicInv, Types
  <2> QED BY <1>2, <1>8, <2>1, DueNow DEF RankInv, Set
<1>10. ~active[r][i]
  BY <1>2, <1>3 DEF RankInv, Sending
<1>11. Before(r) \in Nat /\ sent[r][i] \in Seq(SUBSET Measure)
  BY <1>2 DEF RankInv, Timed, BasicInv, Types
<1>12. Sending(r)'
  <2>1. ASSUME NEW j \in Sums
        PROVE  /\ Len(sent'[r][j]) = IF Tuned(r) /\ Started(r, j)' THEN Before(r) + 1 ELSE Before(r)
               /\ Tuned(r) /\ Started(r, j)' => sent'[r][j][Before(r) + 1] = {Own(r, j)}
               /\ active'[r][j] <=> /\ Tuned(r) /\ stage[r] = 1 /\ Done(r, start_reduce(j))'
                                    /\ ~Done(r, finish_reduce(j))'
    <3>1. /\ Len(sent[r][j]) = IF Tuned(r) /\ Started(r, j) THEN Before(r) + 1 ELSE Before(r)
          /\ Tuned(r) /\ Started(r, j) => sent[r][j][Before(r) + 1] = {Own(r, j)}
          /\ active[r][j] <=> /\ Tuned(r) /\ stage[r] = 1 /\ Done(r, start_reduce(j))
                              /\ ~Done(r, finish_reduce(j))
      BY <1>2 DEF RankInv, Sending
    <3>2. Done(r, finish_reduce(j))' <=> Done(r, finish_reduce(j))
      BY <1>1, <1>3
    <3>3. CASE j # i
      <4>1. active'[r][j] = active[r][j] /\ sent'[r][j] = sent[r][j]
        BY <3>3, StartStep
      <4>2. Done(r, start_reduce(j))' <=> Done(r, start_reduce(j))
        BY <1>1, <1>3, <3>3
      <4> QED BY <1>3, <3>1, <3>2, <4>1, <4>2 DEF Started
    <3>4. CASE j = i /\ Tuning(r)
      <4>1. active'[r][i] /\ sent'[r][i] = Append(sent[r][i], totals[r][i])
        BY <1>10, <3>4, StartStep
      <4>2. Len(sent[r][i]) = Before(r) /\ ~Started(r, i) /\ Started(r, i)'
        <5>1. ~Started(r, i) /\ Started(r, i)'
          BY <1>3, <1>9, <3>4 DEF Started
        <5> QED BY <3>1, <3>4, <5>1
      <4>3. totals[r][i] = {Own(r, i)}
        BY <1>2, <1>7, <1>9, <3>4 DEF RankInv, Totalled
      <4>4. Len(sent'[r][i]) = Before(r) + 1 /\ sent'[r][i][Before(r) + 1] = {Own(r, i)}
        BY <1>11, <4>1, <4>2, <4>3
      <4> QED BY <1>3, <1>7, <1>9, <3>2, <3>4, <4>1, <4>2, <4>4
    <3>5. CASE j = i /\ ~Tuning(r)
      <4>1. active' = active /\ sent' = sent
        BY <3>5, StartStep
      <4>2. stage[r] >= 1 /\ stage[r] \in Nat
        BY DEF BasicInv, Types
      <4>3. Tuned(r) => Started(r, i)
        BY <1>9, <3>5, <4>2 DEF Started
      <4>4. Started(r, i) => Started(r, i)'
        BY <1>3 DEF Started
      <4> QED BY <1>9, <1>10, <3>1, <3>5, <4>1, <4>3, <4>4
    <3> QED BY <3>3, <3>4, <3>5
  <2> QED BY <1>3, <2>1 DEF Sending
<1> QED BY <1>1, <1>3, <1>4, <1>5, <1>12, StepKeeps DEF RankInv

(* The reduction sums what each rank measured in the same step *)
LEMMA ReducedTotal ==
  ASSUME NParts = 1, BasicInv, TuningInv, NEW r \in Ranks, NEW i \in Sums,
         Tuned(r), Started(r, i), \A q \in Ranks : Len(sent[q][i]) >= Len(sent[r][i])
  PROVE  UNION {sent[q][i][Len(sent[r][i])] : q \in Ranks} = All(step[r], i - 1)
<1> DEFINE n == Before(r) + 1
           of(q) == [rank |-> q, part |-> 1, step |-> step[r], fid |-> i - 1]
<1>1. n \in Nat /\ Len(sent[r][i]) = n
  BY DEF TuningInv, RankInv, Sending, Timed
<1>2. ASSUME NEW q \in Ranks PROVE sent[q][i][n] = {of(q)}
  <2>1. /\ RankInv(q) /\ Before(q) = Before(r) /\ step[q] = step[r]
        /\ Before(r) \in Nat
    BY DEF TuningInv, Alike, RankInv, Timed
  <2>2. Len(sent[q][i]) >= n
    BY <1>1
  <2>3. Tuned(q) /\ Started(q, i)
    BY <2>1, <2>2 DEF RankInv, Sending
  <2>4. sent[q][i][n] = {Own(q, i)}
    BY <2>1, <2>3 DEF RankInv, Sending
  <2>5. Own(q, i) = of(q)
    BY <2>1 DEF Own
  <2> QED BY <2>4, <2>5
<1>3. ASSUME NEW x PROVE x \in All(step[r], i - 1) <=> \E q \in Ranks : x = of(q)
  BY DEF All, Lists
<1> HIDE DEF n, of
<1>4. UNION {sent[q][i][n] : q \in Ranks} = {of(q) : q \in Ranks}
  BY <1>2
<1> QED BY <1>1, <1>3, <1>4 DEF n

LEMMA CheckKeeps ==
  ASSUME NParts = 1, Punctual, BasicInv, TuningInv, NEW r \in Ranks, RankStep(r),
         NEW i \in Sums, NetFieldCheckReduce(r, i)
  PROVE  TuningInv'
<1> DEFINE t == finish_reduce(i)
<1>1. /\ Run(r, t, 1) /\ UNCHANGED <<sent, next, scale, field>>
      /\ t \in EachList \union FirstList /\ t # "set_scale" /\ t # "update_netfield"
      /\ \A j \in Sums : t # sum_mdot(j) /\ t # start_reduce(j)
      /\ \A j \in Sums \ {i} : t # finish_reduce(j)
  BY TaskNames DEF NetFieldCheckReduce, sum_mdot, start_reduce, finish_reduce, Sums
<1>2. RankInv(r) /\ Ordered(r) /\ (i = 1 \/ i = 2)
  BY DEF TuningInv, BasicInv, Sums
<1>3. /\ step' = step /\ stage' = stage /\ Timed(r)' /\ Scaled(r)'
      /\ (Tuned(r)' <=> Tuned(r)) /\ (Set(r)' <=> Set(r)) /\ (Current(r)' <=> Current(r))
      /\ Base(r)' = Base(r) /\ Before(r)' = Before(r)
      /\ \A j : Own(r, j)' = Own(r, j)
      /\ \A u : Done(r, u)' <=> (Done(r, u) \/ u = t)
      /\ ~Done(r, t) /\ WaitsFor(t, 1) \subseteq done[r]
  BY <1>1, <1>2, CalmTask
<1>4. Fiducial(r)'
  BY <1>2, FiducialStep DEF RankInv
<1>5. Applied(r)'
  BY <1>1, <1>2, <1>3, CalmApplied DEF RankInv
<1>6. Done(r, start_reduce(i))
  <2>1. WaitsFor(t, 1) = {<<start_reduce(i), 1>>}
    BY <1>2 DEF WaitsFor, start_reduce, finish_reduce
  <2> QED BY <1>3, <2>1 DEF Done
<1>7. stage[r] = 1 => ~Set(r)
  <2>1. /\ Done(r, "set_scale") => Done(r, "mod_net_2")
        /\ Done(r, "mod_net_2") => Done(r, finish_reduce(2))
        /\ Done(r, sum_mdot(2)) => Done(r, "mod_net")
        /\ Done(r, "mod_net") => Done(r, finish_reduce(1))
    BY <1>2, Order
  <2>2. /\ Done(r, finish_reduce(2)) => Done(r, start_reduce(2))
        /\ Done(r, start_reduce(2)) => Done(r, sum_mdot(2))
    <3>1. \A j \in Sums : /\ Done(r, start_reduce(j)) => Done(r, sum_mdot(j))
                          /\ Done(r, finish_reduce(j)) => Done(r, start_reduce(j))
      BY <1>2, Order
    <3> QED BY <3>1 DEF Sums
  <2>3. ~Done(r, "set_scale")
    BY <1>2, <1>3, <2>1, <2>2
  <2> QED BY <2>3 DEF Set
<1>8. stage[r] = 1 => (Tuning(r) <=> Tuned(r)) /\ (active[r][i] <=> Tuned(r))
  BY <1>2, <1>3, <1>6, <1>7, DueNow DEF RankInv, Sending
<1>9. \A j \in Sums \ {i} : /\ active'[r][j] = active[r][j] /\ totals'[r][j] = totals[r][j]
                            /\ Done(r, finish_reduce(j))' <=> Done(r, finish_reduce(j))
  <2>1. \A j \in Sums \ {i} : active'[r][j] = active[r][j] /\ totals'[r][j] = totals[r][j]
    BY CheckStep
  <2> QED BY <1>1, <1>3, <2>1
<1>10. \A j \in Sums : /\ Done(r, start_reduce(j))' <=> Done(r, start_reduce(j))
                       /\ Done(r, sum_mdot(j))' <=> Done(r, sum_mdot(j))
  BY <1>1, <1>3
<1>11. CASE stage[r] = 1 /\ Tuned(r)
  <2>1. /\ ~active'[r][i] /\ \A q \in Ranks : Len(sent[q][i]) >= Len(sent[r][i])
        /\ totals'[r][i] = UNION {sent[q][i][Len(sent[r][i])] : q \in Ranks}
    BY <1>8, <1>11, CheckStep
  <2>2. totals'[r][i] = All(step[r], i - 1)
    BY <1>6, <1>11, <2>1, ReducedTotal DEF Started
  <2>3. Done(r, t)'
    BY <1>3
  <2>4. Sending(r)'
    <3>1. ASSUME NEW j \in Sums
          PROVE  active'[r][j] <=> /\ Tuned(r) /\ stage[r] = 1 /\ Done(r, start_reduce(j))
                                   /\ ~Done(r, finish_reduce(j))'
      <4>1. CASE j = i
        BY <2>1, <2>3, <4>1
      <4>2. CASE j # i
        BY <1>2, <1>9, <4>2 DEF RankInv, Sending
      <4> QED BY <4>1, <4>2
    <3> QED BY <1>1, <1>2, <1>3, <1>10, <3>1 DEF RankInv, Sending, Started
  <2>5. Totalled(r)'
    <3>1. ASSUME NEW j \in Sums
          PROVE  totals'[r][j] = IF Done(r, finish_reduce(j))' THEN All(step[r], j - 1)
                                 ELSE IF Done(r, sum_mdot(j)) THEN {Own(r, j)} ELSE {}
      <4>1. CASE j = i
        BY <2>2, <2>3, <4>1
      <4>2. CASE j # i
        BY <1>2, <1>9, <1>11, <4>2 DEF RankInv, Totalled
      <4> QED BY <4>1, <4>2
    <3> QED BY <1>3, <1>10, <3>1 DEF Totalled
  <2> QED BY <1>1, <1>3, <1>4, <1>5, <2>4, <2>5, StepKeeps DEF RankInv
<1>12. CASE ~(stage[r] = 1 /\ Tuned(r))
  <2>1. active' = active /\ totals' = totals
    BY <1>8, <1>12, CheckStep
  <2>2. Sending(r)'
    BY <1>1, <1>2, <1>3, <1>10, <1>12, <2>1 DEF RankInv, Sending, Started
  <2>3. Totalled(r)'
    BY <1>3, <1>12 DEF Totalled
  <2> QED BY <1>1, <1>3, <1>4, <1>5, <2>2, <2>3, StepKeeps DEF RankInv
<1> QED BY <1>11, <1>12

LEMMA FieldKeeps ==
  ASSUME NParts = 1, Punctual, BasicInv, TuningInv, NEW r \in Ranks, RankStep(r),
         NEW t \in {"mod_net", "mod_net_2"}, NEW f \in Int, ModifyNetFieldFiducial(r, 1, t, f)
  PROVE  TuningInv'
<1>1. /\ Run(r, t, 1) /\ UNCHANGED <<totals, active, sent, next, scale>>
      /\ t \in EachList \union FirstList /\ t # "set_scale" /\ t # "update_netfield"
      /\ \A j \in Sums : t # sum_mdot(j) /\ t # start_reduce(j) /\ t # finish_reduce(j)
  BY TaskNames DEF ModifyNetFieldFiducial, sum_mdot, start_reduce, finish_reduce
<1>2. RankInv(r) /\ 1 \in Lists
  BY DEF TuningInv, Lists
<1>3. /\ step' = step /\ stage' = stage /\ Timed(r)' /\ Scaled(r)'
      /\ (Tuned(r)' <=> Tuned(r)) /\ (Set(r)' <=> Set(r)) /\ (Current(r)' <=> Current(r))
      /\ Base(r)' = Base(r) /\ Before(r)' = Before(r)
      /\ \A j : Own(r, j)' = Own(r, j)
      /\ \A u : Done(r, u)' <=> (Done(r, u) \/ u = t)
  BY <1>1, <1>2, CalmTask
<1>4. Fiducial(r)'
  BY <1>2, FiducialStep DEF RankInv
<1>5. Sending(r)' /\ Totalled(r)'
  BY <1>1, <1>2, <1>3, CalmSending, CalmTotalled DEF RankInv
<1>6. field'[r][1].step = field[r][1].step /\ field'[r][1].scale = field[r][1].scale
  <2>1. field'[r][1] = field[r][1]
        \/ field'[r][1] = [field[r][1] EXCEPT !.fid = field[r][1].fid + f]
    BY <1>2, ModifyStep
  <2>2. field[r][1] \in FieldType
    BY <1>2 DEF BasicInv, Types
  <2> QED BY <2>1, <2>2 DEF FieldType
<1>7. Applied(r)'
  BY <1>1, <1>2, <1>3, <1>6, CalmApplied DEF RankInv
<1> QED BY <1>1, <1>3, <1>4, <1>5, <1>6, <1>7, StepKeeps DEF RankInv

LEMMA ScaledKeeps ==
  ASSUME NParts = 1, Punctual, BasicInv, TuningInv, NEW r \in Ranks, RankStep(r),
         ModifyNetFieldScaled(r, 1)
  PROVE  TuningInv'
<1> DEFINE t == "update_netfield"
<1>1. /\ Run(r, t, 1) /\ UNCHANGED <<totals, active, sent, next, scale>>
      /\ t \in EachList \union FirstList
      /\ \A j \in Sums : t # sum_mdot(j) /\ t # start_reduce(j) /\ t # finish_reduce(j)
  BY TaskNames DEF ModifyNetFieldScaled, sum_mdot, start_reduce, finish_reduce
<1>2. RankInv(r) /\ 1 \in Lists
  BY DEF TuningInv, Lists
<1>3. /\ step' = step /\ stage' = stage /\ Timed(r)' /\ Scaled(r)'
      /\ (Tuned(r)' <=> Tuned(r)) /\ (Set(r)' <=> Set(r)) /\ (Current(r)' <=> Current(r))
      /\ Base(r)' = Base(r) /\ Before(r)' = Before(r)
      /\ \A j : Own(r, j)' = Own(r, j)
      /\ \A u : Done(r, u)' <=> (Done(r, u) \/ u = t)
      /\ WaitsFor(t, 1) \subseteq done[r]
  BY <1>1, <1>2, CalmTask
<1>4. Fiducial(r)'
  BY <1>2, FiducialStep DEF RankInv
<1>5. Sending(r)' /\ Totalled(r)'
  BY <1>1, <1>2, <1>3, CalmSending, CalmTotalled DEF RankInv
<1>6. field'[r][1].step = step[r] /\ field'[r][1].scale = scale[r]
  <2>1. field'[r][1] = [fid |-> field[r][1].fid, step |-> step[r],
                        stage |-> stage[r], scale |-> scale[r]]
    BY <1>2, ScaledStep
  <2> QED BY <2>1
<1>7. Set(r)
  <2>1. WaitsFor(t, 1) = {<<"set_scale", 1>>}
    BY DEF WaitsFor
  <2> QED BY <1>3, <2>1 DEF Set, Done
<1>8. Applied(r)'
  <2>1. step[r] \in Nat
    BY DEF BasicInv, Types
  <2> QED BY <1>1, <1>3, <1>6, <1>7, <2>1 DEF Applied
<1> QED BY <1>1, <1>3, <1>4, <1>5, <1>6, <1>8, StepKeeps DEF RankInv

LEMMA SetScaleKeeps ==
  ASSUME NParts = 1, Punctual, BasicInv, TuningInv, NEW r \in Ranks, RankStep(r),
         UpdateNetFieldScaleControls(r, 1)
  PROVE  TuningInv'
<1>1. Run(r, "set_scale", 1) /\ UNCHANGED <<totals, active, sent, field>>
  BY DEF UpdateNetFieldScaleControls
<1>2. RankInv(r) /\ Ordered(r)
  BY DEF TuningInv, BasicInv
<1>3. /\ step' = step /\ stage' = stage /\ ~Done(r, "set_scale")
      /\ WaitsFor("set_scale", 1) \subseteq done[r]
      /\ \A u : Done(r, u)' <=> (Done(r, u) \/ u = "set_scale")
  BY <1>1, TaskOf, TaskNames
<1>4. Set(r)' /\ ~Done(r, "update_netfield") /\ ~Done(r, "update_netfield")'
  <2>1. Done(r, "update_netfield") => Done(r, "set_scale")
    BY <1>2, Order
  <2> QED BY <1>3, <2>1 DEF Set
<1>5. time(r)' = time(r) /\ \A i : Own(r, i)' = Own(r, i)
  BY <1>3 DEF time, Own
<1>6. /\ time(r) \in Int /\ step[r] \in Nat /\ step[r] >= 1 /\ next[r] \in Nat /\ Cadence \in Nat
      /\ scale[r] \in ScaleType /\ stage[r] \in Nat /\ stage[r] >= 1
  <2>1. step[r] \in 1 .. NSteps /\ stage[r] \in 1 .. NStages /\ NSteps \in Nat /\ NStages \in Nat
    BY RankTypes, NetFieldAssumption
  <2> QED BY <2>1, RankTypes, TimeType, NetFieldAssumption
<1>7. Fiducial(r)'
  BY <1>2, FiducialStep DEF RankInv
<1>8. /\ Base(r)' = Base(r) /\ Before(r)' = Before(r) /\ Timed(r)' /\ Scaled(r)'
      /\ Applied(r)' /\ (Current(r)' \/ scale' = scale)
  <2>1. CASE stage[r] = 1 /\ Due(r)
    <3>1. Tuned(r) /\ ~Set(r) /\ ~Current(r)
      BY <1>2, <2>1, DueNow DEF RankInv, Timed
    <3>2. /\ next'[r] = next[r] + Cadence
          /\ scale'[r] = [at |-> step[r], before |-> totals[r][1],
                          after |-> totals[r][2], updates |-> scale[r].updates + 1]
      BY <2>1, SetScaleStep
    <3>3. /\ scale'[r].at = step[r] /\ scale'[r].updates = scale[r].updates + 1
          /\ scale'[r].before = totals[r][1] /\ scale'[r].after = totals[r][2]
      BY <3>2
    <3>4. Current(r)'
      BY <1>3, <3>3 DEF Current
    <3>5. Base(r)' = Base(r) /\ Before(r)' = Before(r)
      BY <1>6, <3>1, <3>2, <3>3, <3>4 DEF Base, Before, ScaleType
    <3>6. Tuned(r)'
      BY <1>5, <3>1, <3>5 DEF Tuned
    <3>7. Timed(r)'
      BY <1>2, <1>3, <1>4, <1>5, <1>6, <3>3, <3>4, <3>5, <3>6 DEF RankInv, Timed
    <3>8. Done(r, finish_reduce(1)) /\ Done(r, finish_reduce(2))
      <4>1. WaitsFor("set_scale", 1) = {<<"mod_net_2", 1>>}
        BY DEF WaitsFor
      <4>2. Done(r, "mod_net_2")
        BY <1>3, <4>1 DEF Done
      <4>3. /\ Done(r, "mod_net_2") => Done(r, finish_reduce(2))
            /\ Done(r, sum_mdot(2)) => Done(r, "mod_net")
            /\ Done(r, "mod_net") => Done(r, finish_reduce(1))
        BY <1>2, Order
      <4>4. \A j \in Sums : /\ Done(r, start_reduce(j)) => Done(r, sum_mdot(j))
                            /\ Done(r, finish_reduce(j)) => Done(r, start_reduce(j))
        BY <1>2, Order
      <4>5. Done(r, finish_reduce(2)) => Done(r, sum_mdot(2))
        BY <4>4 DEF Sums
      <4> QED BY <4>2, <4>3, <4>5
    <3>9. totals[r][1] = All(step[r], 0) /\ totals[r][2] = All(step[r], 1)
      <4>1. \A i \in Sums : Done(r, finish_reduce(i)) => totals[r][i] = All(step[r], i - 1)
        BY <1>2, <2>1, <3>1 DEF RankInv, Totalled
      <4>2. totals[r][1] = All(step[r], 1 - 1) /\ totals[r][2] = All(step[r], 2 - 1)
        BY <3>8, <4>1 DEF Sums
      <4> QED BY <4>2
    <3>10. Scaled(r)'
      BY <3>3, <3>9 DEF Scaled, All
    <3>11. Applied(r)'
      BY <1>1, <1>2, <1>3, <1>4, <3>1 DEF RankInv, Applied
    <3> QED BY <3>4, <3>5, <3>7, <3>10, <3>11
  <2>2. CASE ~(stage[r] = 1 /\ Due(r))
    <3>1. scale' = scale /\ next' = next
      BY <2>2, SetScaleStep
    <3>2. /\ (Current(r)' <=> Current(r)) /\ Base(r)' = Base(r) /\ Before(r)' = Before(r)
      BY <1>3, <3>1 DEF Current, Base, Before
    <3>3. Tuned(r)' <=> Tuned(r)
      BY <1>5, <3>2 DEF Tuned
    <3>4. Tuned(r) => Set(r)
      BY <1>2, <1>3, <1>6, <2>2, DueNow DEF RankInv, Set
    <3>5. Timed(r)'
      BY <1>2, <1>3, <1>4, <1>5, <3>1, <3>2, <3>3, <3>4 DEF RankInv, Timed
    <3>6. Scaled(r)' /\ Applied(r)'
      BY <1>1, <1>2, <1>3, <1>4, <3>1 DEF RankInv, Scaled, Applied
    <3> QED BY <3>1, <3>2, <3>5, <3>6
  <2> QED BY <2>1, <2>2
<1>9. Tuned(r)' <=> Tuned(r)
  BY <1>5, <1>8 DEF Tuned
<1>10. \A j \in Sums : /\ Done(r, start_reduce(j))' <=> Done(r, start_reduce(j))
                       /\ Done(r, finish_reduce(j))' <=> Done(r, finish_reduce(j))
                       /\ Done(r, sum_mdot(j))' <=> Done(r, sum_mdot(j))
  BY <1>3 DEF start_reduce, finish_reduce, sum_mdot
<1>11. Sending(r)' /\ Totalled(r)'
  BY <1>1, <1>2, <1>3, <1>5, <1>8, <1>9, <1>10, CalmSending, CalmTotalled DEF RankInv
<1> QED BY <1>1, <1>3, <1>7, <1>8, <1>11, StepKeeps DEF RankInv

LEMMA StageKeeps ==
  ASSUME NParts = 1, Punctual, BasicInv, TuningInv, NEW r \in Ranks, RankStep(r),
         NextStage(r)
  PROVE  TuningInv'
<1>1. /\ UNCHANGED <<step, active, sent, next, scale, field>>
      /\ stage'[r] = stage[r] + 1 /\ done'[r] = {}
      /\ \A t \in EachList \union FirstList : Done(r, t)
      /\ stage[r] \in Nat /\ stage[r] >= 1
  BY StageStep DEF BasicInv, Types
<1>2. RankInv(r)
  BY DEF TuningInv
<1>3. Set(r) /\ Set(r)' /\ (Current(r)' <=> Current(r))
  BY <1>1, TaskNames DEF Set, Current
<1>4. /\ Base(r)' = Base(r) /\ Before(r)' = Before(r) /\ time(r)' = time(r)
      /\ \A i : Own(r, i)' = Own(r, i)
  BY <1>1, <1>3 DEF Base, Before, time, Own
<1>5. Tuned(r)' <=> Tuned(r)
  BY <1>4 DEF Tuned
<1>6. Timed(r)' /\ Scaled(r)'
  BY <1>1, <1>2, <1>3, <1>4, <1>5 DEF RankInv, Timed, Scaled
<1>7. Fiducial(r)'
  BY <1>2, FiducialStep DEF RankInv
<1>8. Sending(r)'
  <2>1. \A i \in Sums : /\ Started(r, i) /\ Started(r, i)' /\ Done(r, finish_reduce(i))
    BY <1>1, TaskNames DEF Started
  <2> QED BY <1>1, <1>2, <1>4, <1>5, <2>1 DEF RankInv, Sending
<1>9. Totalled(r)'
  BY <1>1 DEF Totalled
<1>10. Applied(r)'
  BY <1>1, <1>2, <1>3 DEF RankInv, Applied, Done
<1> QED BY <1>1, <1>4, <1>6, <1>7, <1>8, <1>9, <1>10, StepKeeps DEF RankInv

LEMMA NextStepKeeps ==
  ASSUME NParts = 1, Punctual, BasicInv, TuningInv, NextStep
  PROVE  TuningInv'
<1>1. UNCHANGED <<active, sent, next, scale, field>>
  BY NextStepStep
<1>2. ASSUME NEW r \in Ranks
      PROVE  /\ RankInv(r)' /\ Base(r)' = next[r] /\ Before(r)' = scale[r].updates
             /\ ~Current(r)' /\ field'[r][1].step < step'[r]
             /\ field[r][1].scale = scale[r] /\ (Current(r) <=> Tuned(r))
             /\ step'[r] = step[r] + 1
  <2>1. /\ step'[r] = step[r] + 1 /\ stage'[r] = 1 /\ done'[r] = {} /\ step[r] \in Nat
        /\ \A i \in Sums : totals'[r][i] = {}
        /\ \A t \in EachList \union FirstList : Done(r, t)
    BY NextStepStep
  <2>2. RankInv(r)
    BY DEF TuningInv
  <2>3. Set(r) /\ ~Set(r)' /\ (Current(r) <=> Tuned(r)) /\ \A t : ~Done(r, t)'
    BY <2>1, <2>2, TaskNames DEF Set, RankInv, Timed, Done
  <2>4. /\ time(r) \in Int /\ next[r] \in Nat /\ StartTime \in Nat /\ Dt \in Nat /\ Cadence \in Nat
        /\ scale[r].at \in Nat /\ scale[r].updates \in Nat
    <3>1. scale[r] \in ScaleType /\ next[r] \in Nat /\ time(r) \in Int
      BY RankTypes, TimeType
    <3>2. scale[r].at \in Nat /\ scale[r].updates \in Nat
      BY <3>1, NetFieldAssumption DEF ScaleType
    <3> QED BY <3>1, <3>2, NetFieldAssumption
  <2>5. time(r)' = time(r) + Dt
    <3>1. time(r)' = InitialTime + (step[r] + 1 - 1) * Dt /\ time(r) = InitialTime + (step[r] - 1) * Dt
      BY <2>1 DEF time
    <3>2. InitialTime \in Nat
      BY NetFieldAssumption
    <3> QED BY <2>1, <2>4, <3>1, <3>2
  <2>6. ~Current(r)'
    BY <1>1, <2>1, <2>2, <2>4 DEF RankInv, Timed, Current
  <2>7. Base(r)' = next[r] /\ Before(r)' = scale[r].updates
    BY <1>1, <2>6 DEF Base, Before
  <2>8. next[r] >= StartTime /\ time(r) < next[r]
    <3>1. ~Due(r)
      BY <2>2, <2>3, DueNow DEF RankInv
    <3>2. next[r] >= Base(r)
      BY <2>4 DEF Base
    <3> QED BY <2>2, <2>4, <3>1, <3>2 DEF Due, RankInv, Timed, Base
  <2>9. Timed(r)'
    BY <1>1, <2>1, <2>2, <2>3, <2>4, <2>5, <2>6, <2>7, <2>8 DEF RankInv, Timed
  <2>10. field[r][1].step = step[r] /\ field[r][1].scale = scale[r]
    BY <2>1, <2>2, TaskNames DEF RankInv, Applied
  <2>11. field'[r][1].step < step'[r]
    BY <1>1, <2>1, <2>10
  <2>12. Applied(r)'
    BY <1>1, <2>1, <2>3, <2>10 DEF Applied
  <2>13. Fiducial(r)' /\ Scaled(r)'
    <3>1. Done(r, "mod_net_2")
      BY <2>1, TaskNames
    <3> QED BY <1>1, <2>2, <2>3, <3>1 DEF RankInv, Fiducial, Scaled
  <2>14. Totalled(r)'
    BY <2>1, <2>3 DEF Totalled
  <2>15. Sending(r)'
    <3>1. \A i \in Sums : Started(r, i) /\ ~Started(r, i)' /\ Done(r, finish_reduce(i))
      BY <2>1, <2>3, TaskNames DEF Started
    <3>2. \A i \in Sums : Len(sent[r][i]) = scale[r].updates /\ ~active[r][i]
      BY <2>2, <2>3, <2>4, <3>1 DEF RankInv, Sending, Before
    <3> QED BY <1>1, <2>3, <2>7, <3>1, <3>2 DEF Sending
  <2> QED BY <2>1, <2>3, <2>6, <2>7, <2>9, <2>10, <2>11, <2>12, <2>13, <2>14, <2>15 DEF RankInv
<1>3. ASSUME NEW u \in Ranks, NEW q \in Ranks PROVE Alike(u, q)'
  <2>1. Alike(u, q) /\ RankInv(u) /\ RankInv(q)
    BY DEF TuningInv
  <2>2. Tuned(u) <=> Tuned(q)
    BY <2>1 DEF Alike, Tuned, time
  <2>3. /\ Current(u) <=> Current(q)
        /\ next[u] \in Nat /\ next[q] \in Nat /\ Cadence \in Nat
        /\ scale[u] \in ScaleType /\ scale[q] \in ScaleType
    BY <1>2, <2>2, NetFieldAssumption DEF BasicInv, Types
  <2>4. scale[u].updates = scale[q].updates /\ next[u] = next[q]
    BY <2>1, <2>3 DEF Alike, Base, Before, ScaleType
  <2>5. scale[u] = scale[q]
    <3>1. CASE ~Current(u)
      BY <2>1, <2>3, <3>1 DEF Alike
    <3>2. CASE Current(u)
      <4>1. scale[u].at = step[u] /\ scale[q].at = step[u] /\ step[u] > 0
        BY <2>1, <2>3, <3>2 DEF Alike, Current, BasicInv, Types
      <4>2. scale[u].before = scale[q].before /\ scale[u].after = scale[q].after
        BY <2>1, <4>1 DEF RankInv, Scaled
      <4> QED BY <2>3, <2>4, <4>1, <4>2 DEF ScaleType
    <3> QED BY <3>1, <3>2
  <2>6. step'[u] = step'[q]
    BY <1>2, <2>1 DEF Alike
  <2> QED BY <1>1, <1>2, <2>4, <2>5, <2>6 DEF Alike
<1> QED BY <1>2, <1>3 DEF TuningInv

----------------------------------------------------------------------------
(* The specification keeps the invariant                                   *)

LEMMA TuningInit ==
  ASSUME NParts = 1, Punctual, Init PROVE TuningInv
<1>1. BasicInv
  BY BasicInit
<1>2. ASSUME NEW r \in Ranks PROVE RankInv(r) /\ ~Current(r)
  <2>1. /\ step[r] = 1 /\ stage[r] = 1 /\ done[r] = {} /\ next[r] = StartTime
        /\ scale[r] = NoScale /\ field[r][1] = NoField
        /\ \A i \in Sums : totals[r][i] = {} /\ ~active[r][i] /\ sent[r][i] = <<>>
    BY DEF Init, Lists
  <2>2. scale[r].at = 0 /\ scale[r].updates = 0 /\ field[r][1].step = 0 /\ field[r][1].fid = 0
    BY <2>1 DEF NoScale, NoField
  <2>3. time(r) = InitialTime
    <3>1. time(r) = InitialTime + (1 - 1) * Dt
      BY <2>1 DEF time
    <3> QED BY <3>1, NetFieldAssumption
  <2>4. ~Current(r) /\ ~Set(r) /\ \A t : ~Done(r, t)
    BY <2>1, <2>2 DEF Current, Set, Done
  <2>5. Base(r) = StartTime /\ Before(r) = 0
    BY <2>1, <2>2, <2>4 DEF Base, Before
  <2>6. Timed(r)
    BY <2>1, <2>2, <2>3, <2>4, <2>5, NetFieldAssumption DEF Timed, Punctual
  <2>7. Fiducial(r) /\ Scaled(r) /\ Applied(r) /\ Totalled(r)
    <3>1. Fiducial(r)
      BY <2>2, <2>4 DEF Fiducial
    <3>2. Scaled(r)
      BY <2>2 DEF Scaled
    <3>3. Applied(r)
      BY <2>1, <2>2, <2>4 DEF Applied
    <3>4. Totalled(r)
      BY <2>1, <2>4 DEF Totalled
    <3> QED BY <3>1, <3>2, <3>3, <3>4
  <2>8. Sending(r)
    BY <2>1, <2>4, <2>5 DEF Sending, Started
  <2> QED BY <2>4, <2>6, <2>7, <2>8 DEF RankInv
<1>3. ASSUME NEW r \in Ranks, NEW q \in Ranks PROVE Alike(r, q)
  BY <1>2 DEF Alike, Init, Base, Before, Lists
<1> QED BY <1>2, <1>3 DEF TuningInv

LEMMA TuningNext ==
  ASSUME NParts = 1, Punctual, BasicInv, TuningInv, [Next]_vars PROVE TuningInv'
<1>1. ASSUME NEW r \in Ranks, RankStep(r) PROVE TuningInv'
  BY <1>1, OneList, SumKeeps, StartKeeps, CheckKeeps, FieldKeeps, ScaledKeeps,
     SetScaleKeeps, StageKeeps
<1>2. ASSUME UNCHANGED vars PROVE TuningInv'
  <2>1. \A q \in Ranks : SameRank(q)
    BY <1>2 DEF vars, SameRank
  <2>2. \A q \in Ranks : RankInv(q)'
    BY <2>1, OtherRank DEF TuningInv
  <2>3. ASSUME NEW u \in Ranks, NEW q \in Ranks PROVE Alike(u, q)'
    <3>1. Alike(u, q)
      BY DEF TuningInv
    <3> QED BY <1>2, <3>1 DEF vars, Alike, Base, Before, Current
  <2> QED BY <2>2, <2>3 DEF TuningInv
<1> QED BY <1>1, <1>2, NextStepKeeps DEF Next, Finish

(* All ranks tune in the same steps, each knows how far it is, and what    *)
(* they send, sum and set belongs to that step.  For runs that start       *)
(* before the first update has been due for a step, and time steps no      *)
(* longer than the cadence; a restart breaks the first (NetFieldRestart).  *)
THEOREM TuningInvariant ==
  ASSUME NParts = 1, Punctual PROVE Spec => [](BasicInv /\ TuningInv)
<1>1. Init => BasicInv /\ TuningInv
  BY BasicInit, TuningInit
<1>2. BasicInv /\ TuningInv /\ [Next]_vars => (BasicInv /\ TuningInv)'
  BY BasicNext, TuningNext
<1> QED BY <1>1, <1>2, PTL DEF Spec

(* The scale factors come from one measurement of every rank, all of the   *)
(* step that sets them: the first total without the artificial field, the  *)
(* second with it (NetFieldStartReduce, NetFieldCheckReduce and            *)
(* UpdateNetFieldScaleControls).                                           *)
THEOREM TotalsCurrent ==
  ASSUME NParts = 1, Punctual PROVE Spec => []TotalsOfTheStep
<1>1. TuningInv => TotalsOfTheStep
  BY DEF TuningInv, RankInv, Scaled, All, TotalsOfTheStep
<1> QED BY <1>1, TuningInvariant, PTL

(* No reduction of the tuning outlives its region: a later step would be   *)
(* refused its own (NetFieldStartReduce starts none while one is active).  *)
THEOREM ReductionsOver ==
  ASSUME NParts = 1, Punctual PROVE Spec => []NoReductionLeftActive
<1>1. TuningInv => NoReductionLeftActive
  <2> SUFFICES ASSUME TuningInv, NEW r \in Ranks, RegionComplete(r), NEW i \in Sums
               PROVE  ~active[r][i]
    BY DEF NoReductionLeftActive
  <2>1. Done(r, finish_reduce(i))
    BY TaskNames, NetFieldAssumption DEF RegionComplete, RegionTasks, Done
  <2> QED BY <2>1 DEF TuningInv, RankInv, Sending
<1> QED BY <1>1, TuningInvariant, PTL

(* Blocks whose field was last scaled in the same stage have it by the     *)
(* same factors, on whichever ranks they are: the net field has no jumps.  *)
THEOREM ScaleUniform ==
  ASSUME NParts = 1, Punctual PROVE Spec => []SameScaleEverywhere
<1>1. BasicInv /\ TuningInv => SameScaleEverywhere
  <2> SUFFICES ASSUME BasicInv, TuningInv, NEW r \in Ranks, NEW q \in Ranks,
                      field[r][1].step = field[q][1].step
               PROVE  field[r][1].scale = field[q][1].scale
    BY DEF SameScaleEverywhere, Lists
  <2>1. /\ Alike(r, q) /\ RankInv(r) /\ RankInv(q) /\ step[r] \in Nat /\ step[q] = step[r]
        /\ step[r] >= 1 /\ 1 \in Lists
    BY DEF TuningInv, Alike, BasicInv, Types, Lists
  <2>2. field[r][1].step \in Nat /\ field[r][1].step <= step[r]
    BY <2>1 DEF BasicInv, Types, FieldType, RankInv, Applied
  <2>3. CASE field[r][1].step < step[r]
    BY <2>1, <2>3 DEF Alike
  <2>4. CASE field[r][1].step = step[r]
    <3>1. /\ Set(r) /\ Set(q) /\ field[r][1].scale = scale[r] /\ field[q][1].scale = scale[q]
      BY <2>1, <2>4 DEF RankInv, Applied
    <3>2. Tuned(r) <=> Tuned(q)
      BY <2>1 DEF Alike, Tuned, time
    <3>3. Current(r) <=> Current(q)
      BY <2>1, <3>1, <3>2 DEF RankInv, Timed
    <3>4. CASE ~Current(r)
      BY <2>1, <3>1, <3>3, <3>4 DEF Alike
    <3>5. CASE Current(r)
      <4>1. scale[r].at = step[r] /\ scale[q].at = step[r]
        BY <2>1, <3>3, <3>5 DEF Current
      <4>2. scale[r] \in ScaleType /\ scale[q] \in ScaleType
        BY DEF BasicInv, Types
      <4>3. scale[r].updates = scale[q].updates
        BY <2>1, <3>3, <3>5, <4>2 DEF Alike, Before, ScaleType
      <4>4. scale[r].before = scale[q].before /\ scale[r].after = scale[q].after
        BY <2>1, <4>1 DEF RankInv, Scaled
      <4> QED BY <3>1, <4>1, <4>2, <4>3, <4>4 DEF ScaleType
    <3> QED BY <3>4, <3>5
  <2> QED BY <2>2, <2>1, <2>3, <2>4
<1> QED BY <1>1, TuningInvariant, PTL

=============================================================================
