---------------------------- MODULE MonopoleProofs -----------------------------
(* The properties of Monopole for any number of ranks, stages and calls of *)
(* the solver.  The invariant follows one call of the solver through the   *)
(* tasks of its region: what each task leaves is a function of the buffers *)
(* all ranks gave to the reductions of that call, and those never change.  *)
EXTENDS Monopole, TLAPS

(* Time for the provers on a machine with other work to do *)
USE SMTT(20), ZenonT(40)

Done(r, t) == <<t, 1>> \in done[r]

(* What the reductions of a call return, and the solution of that call *)
Given(v, n) == \A q \in Ranks : n <= Len(sent[q][v])
Sum(v, n) == IF n = 0 THEN AllPieces(0) ELSE UNION {sent[q][v][n] : q \in Ranks}
Sums(n) == [v \in Values |-> Sum(v, n)]

(* The call whose solution rank r has made the current spacetime *)
Spacetime(r) == ~(running[r] /\ ~Done(r, "spacetime_to_device"))

----------------------------------------------------------------------------
(* The invariant                                                           *)

Pieces == [rank : Ranks, part : Lists, stage : Nat]
SumType == [Values -> SUBSET Pieces]
LapseType == [call : Int, from : SumType \union {{}}]

Types ==
  /\ k \in [Ranks -> Nat]
  /\ nth \in [Ranks -> Nat]
  /\ running \in [Ranks -> BOOLEAN]
  /\ done \in [Ranks -> SUBSET RegionTasks]
  /\ cells \in [Ranks -> SumType]
  /\ hostSum \in [Ranks -> SumType]
  /\ sent \in [Ranks -> [Values -> Seq(SUBSET Pieces)]]
  /\ matter \in [Ranks -> SumType]
  /\ hyper \in [Ranks -> SumType]
  /\ mem \in [Ranks -> [Arrays \union {"mirror"} -> LapseType]]
  /\ lapse \in [Ranks -> Arrays]
  /\ rate \in [Ranks -> {<<>>} \union (Int \X Int)]
  /\ calls \in [Ranks -> Nat]

(* The solver runs in the first RunNTimes + 1 stages, or in all of them *)
Counted(r) ==
  /\ nth[r] = calls[r]
  /\ calls[r] = IF RunNTimes < 0 \/ k[r] <= RunNTimes + 1 THEN k[r]
                ELSE RunNTimes + 1
  /\ running[r] => k[r] = calls[r] /\ k[r] >= 1

(* The tasks of the region complete in the order of the graph *)
Ordered(r) ==
  /\ ~running[r] => done[r] = {}
  /\ \A t \in EachList \union FirstList : Done(r, t) => WaitsFor(t) \subseteq done[r]

(* One buffer for each call, the present one's once its reduction started *)
Sending(r) ==
  \A v \in Values :
    Len(sent[r][v]) = IF running[r] /\ ~Done(r, start_reduce(v))
                      THEN calls[r] - 1 ELSE calls[r]

(* What the tasks of the present call have left *)
Reduced(r) ==
  \A v \in Values : Done(r, finish_reduce(v)) =>
    Given(v, calls[r]) /\ hostSum[r][v] = Sum(v, calls[r])
Integrated(r) ==
  /\ Done(r, "divide_vols") => matter[r] = Sums(calls[r])
  /\ Done(r, "integrate_hypersurface") => hyper[r] = Sums(calls[r])
  /\ Done(r, "lin_solve_for_lapse") =>
       mem[r][lapse_h] = Solution(calls[r], Sums(calls[r]))
Current(r) ==
  Spacetime(r) =>
    /\ \A v \in Values : Given(v, calls[r])
    /\ mem[r][lapse[r]] = Solution(calls[r], Sums(calls[r]))

RankInv(r) ==
  Counted(r) /\ Ordered(r) /\ Sending(r) /\ Reduced(r) /\ Integrated(r) /\ Current(r)
SolverInv == Types /\ \A r \in Ranks : RankInv(r)

(* With one partition the buffers are the matter of the rank's stage *)
OwnMatter(r) ==
  /\ Done(r, "interp_to_monopole") =>
       cells[r] = [v \in Values |-> {Piece(r, 1, k[r])}]
  /\ Done(r, "matter_to_host") =>
       \A v \in Values : ~Done(r, finish_reduce(v)) =>
         hostSum[r][v] = {Piece(r, 1, k[r])}
  /\ \A v \in Values : \A n \in 1 .. Len(sent[r][v]) :
       sent[r][v][n] = {Piece(r, 1, n)}
MatterInv == \A r \in Ranks : OwnMatter(r)

(* Away from the host's memory the array swapped out keeps the last call *)
TwoLapses(r) ==
  /\ mem[r][lapse[r]].call =
       IF Spacetime(r) THEN calls[r] ELSE calls[r] - 1
  /\ Done(r, "spacetime_to_device") =>
       mem[r][other(lapse[r])].call = calls[r] - 1
  /\ rate[r] # <<>> => rate[r][1] = rate[r][2] + 1
LapseInv == \A r \in Ranks : TwoLapses(r)

----------------------------------------------------------------------------
(* Types                                                                   *)

LEMMA PieceSets ==
  /\ \A r \in Ranks, p \in Lists, s \in Nat : Piece(r, p, s) \in Pieces
  /\ \A s \in Nat : AllPieces(s) \subseteq Pieces
BY DEF Piece, Pieces, AllPieces

LEMMA LapseMemory == lapse_h \in Arrays \union {"mirror"}
BY DEF lapse_h, Arrays

LEMMA TypesInit == Init => Types
<1> SUFFICES ASSUME Init PROVE Types
  OBVIOUS
<1> DEFINE star == [v \in Values |-> AllPieces(0)]
<1>1. star \in SumType
  BY PieceSets DEF SumType
<1>2. Solution(0, star) \in LapseType /\ Flat \in LapseType
  BY <1>1 DEF LapseType, Solution, Flat
<1> HIDE DEF star
<1>3. /\ k = [r \in Ranks |-> 0] /\ nth = [r \in Ranks |-> 0]
      /\ running = [r \in Ranks |-> FALSE] /\ done = [r \in Ranks |-> {}]
      /\ calls = [r \in Ranks |-> 0] /\ rate = [r \in Ranks |-> <<>>]
      /\ lapse = [r \in Ranks |-> "alpha_last"]
  BY DEF Init
<1>4. /\ cells = [r \in Ranks |-> [v \in Values |-> {}]]
      /\ hostSum = [r \in Ranks |-> [v \in Values |-> {}]]
      /\ sent = [r \in Ranks |-> [v \in Values |-> <<>>]]
      /\ matter = [r \in Ranks |-> star] /\ hyper = [r \in Ranks |-> star]
  BY DEF Init, star
<1>5. mem = [r \in Ranks |->
              [m \in Arrays \union {"mirror"} |->
                 IF m = lapse_h \/ m = "alpha_last" THEN Solution(0, star) ELSE Flat]]
  BY DEF Init, star
<1>6. mem \in [Ranks -> [Arrays \union {"mirror"} -> LapseType]]
  BY <1>2, <1>5
<1>7. /\ cells \in [Ranks -> SumType] /\ hostSum \in [Ranks -> SumType]
      /\ sent \in [Ranks -> [Values -> Seq(SUBSET Pieces)]]
  BY <1>4 DEF SumType
<1> QED
  BY <1>1, <1>3, <1>4, <1>6, <1>7 DEF Types, Arrays

LEMMA RunTypes ==
  ASSUME Types, NEW r \in Ranks, NEW t, NEW p, Run(r, t, p)
  PROVE  /\ k' = k /\ nth' = nth /\ running' = running /\ calls' = calls
         /\ done' \in [Ranks -> SUBSET RegionTasks]
BY DEF Run, Types

LEMMA SumOfBuffers ==
  ASSUME Types, NEW r \in Ranks, NEW v \in Values, Len(sent[r][v]) >= 1,
         \A q \in Ranks : Len(sent[q][v]) >= Len(sent[r][v])
  PROVE  UNION {sent[q][v][Len(sent[r][v])] : q \in Ranks} \in SUBSET Pieces
<1> DEFINE n == Len(sent[r][v])
<1>1. sent[r][v] \in Seq(SUBSET Pieces)
  BY DEF Types
<1>2. n \in Nat /\ n >= 1
  BY <1>1
<1> HIDE DEF n
<1>3. ASSUME NEW q \in Ranks PROVE sent[q][v][n] \in SUBSET Pieces
  <2>1. sent[q][v] \in Seq(SUBSET Pieces)
    BY DEF Types
  <2>2. Len(sent[q][v]) >= n
    BY DEF n
  <2> QED BY <1>2, <2>1, <2>2
<1>4. UNION {sent[q][v][n] : q \in Ranks} \in SUBSET Pieces
  BY <1>3
<1> QED BY <1>4 DEF n

----------------------------------------------------------------------------
(* The order of the tasks                                                  *)

LEMMA Order ==
  ASSUME NEW r \in Ranks, Ordered(r)
  PROVE  /\ \A v \in Values :
              /\ Done(r, finish_reduce(v)) => Done(r, start_reduce(v))
              /\ Done(r, start_reduce(v)) => Done(r, "matter_to_host")
         /\ Done(r, "matter_to_host") => \A p \in Lists : <<"interp_to_monopole", p>> \in done[r]
         /\ Done(r, "divide_vols") => \A v \in Values : Done(r, finish_reduce(v))
         /\ Done(r, "integrate_hypersurface") => Done(r, "divide_vols")
         /\ Done(r, "lin_solve_for_lapse") => Done(r, "integrate_hypersurface")
         /\ Done(r, "spacetime_to_device") => Done(r, "lin_solve_for_lapse")
         /\ Done(r, "check_monopole_dt") => Done(r, "spacetime_to_device")
<1>1. \A t \in EachList \union FirstList : Done(r, t) => WaitsFor(t) \subseteq done[r]
  BY DEF Ordered
<1>2. ASSUME NEW v \in Values
      PROVE  /\ Done(r, finish_reduce(v)) => Done(r, start_reduce(v))
             /\ Done(r, start_reduce(v)) => Done(r, "matter_to_host")
  <2>1. CASE v = "matter"
    <3>1. WaitsFor("finish_reduce_matter") = {<<"start_reduce_matter", 1>>}
          /\ WaitsFor("start_reduce_matter") = {<<"matter_to_host", 1>>}
      BY DEF WaitsFor
    <3> QED BY <1>1, <2>1, <3>1 DEF FirstList, EachList, Done, start_reduce, finish_reduce
  <2>2. CASE v = "volumes"
    <3>1. WaitsFor("finish_reduce_vols") = {<<"start_reduce_vols", 1>>}
          /\ WaitsFor("start_reduce_vols") = {<<"matter_to_host", 1>>}
      BY DEF WaitsFor
    <3> QED BY <1>1, <2>2, <3>1 DEF FirstList, EachList, Done, start_reduce, finish_reduce
  <2> QED BY <2>1, <2>2 DEF Values
<1>3. Done(r, "matter_to_host") => \A p \in Lists : <<"interp_to_monopole", p>> \in done[r]
  <2>1. WaitsFor("matter_to_host") = {"interp_to_monopole"} \X Lists
    BY DEF WaitsFor
  <2> QED BY <1>1, <2>1 DEF FirstList
<1>4. Done(r, "divide_vols") => \A v \in Values : Done(r, finish_reduce(v))
  <2>1. WaitsFor("divide_vols") = {<<"finish_reduce_matter", 1>>, <<"finish_reduce_vols", 1>>}
    BY DEF WaitsFor
  <2> QED BY <1>1, <2>1 DEF FirstList, Values, Done, finish_reduce
<1>5. /\ WaitsFor("integrate_hypersurface") = {<<"divide_vols", 1>>}
      /\ WaitsFor("lin_solve_for_lapse") = {<<"integrate_hypersurface", 1>>}
      /\ WaitsFor("spacetime_to_device") = {<<"lin_solve_for_lapse", 1>>}
      /\ WaitsFor("check_monopole_dt") = {<<"spacetime_to_device", 1>>}
  BY DEF WaitsFor
<1> QED
  BY <1>1, <1>2, <1>3, <1>4, <1>5 DEF FirstList, Done

LEMMA RunOrder ==
  ASSUME SolverInv, NEW r \in Ranks, NEW t, NEW p, Run(r, t, p)
  PROVE  /\ running[r] /\ k[r] = calls[r] /\ calls[r] \in Nat
         /\ done'[r] = done[r] \union {<<t, p>>}
         /\ \A q \in Ranks : Counted(q)' /\ Ordered(q)'
         /\ \A q \in Ranks \ {r} : done'[q] = done[q]
         /\ \A u : Done(r, u)' <=> (Done(r, u) \/ <<u, 1>> = <<t, p>>)
<1>1. /\ k' = k /\ nth' = nth /\ running' = running /\ calls' = calls
      /\ done \in [Ranks -> SUBSET RegionTasks] /\ running[r]
      /\ done' = [done EXCEPT ![r] = done[r] \union {<<t, p>>}]
      /\ WaitsFor(t) \subseteq done[r]
  BY DEF Run, SolverInv, Types
<1>2. \A q \in Ranks : Counted(q) /\ Ordered(q)
  BY DEF SolverInv, RankInv
<1>3. \A q \in Ranks : Counted(q)'
  BY <1>1, <1>2 DEF Counted
<1>4. /\ done'[r] = done[r] \union {<<t, p>>}
      /\ \A q \in Ranks \ {r} : done'[q] = done[q]
  BY <1>1
<1>5. \A u : Done(r, u)' <=> (Done(r, u) \/ <<u, 1>> = <<t, p>>)
  BY <1>4 DEF Done
<1>6. ASSUME NEW q \in Ranks PROVE Ordered(q)'
  <2>1. CASE q = r
    <3>1. ASSUME NEW u \in EachList \union FirstList, Done(r, u)'
          PROVE  WaitsFor(u) \subseteq done'[r]
      <4>1. Done(r, u) \/ u = t
        BY <1>5, <3>1
      <4> QED BY <4>1, <1>1, <1>2, <1>4 DEF Ordered
    <3> QED BY <2>1, <3>1, <1>1 DEF Ordered
  <2>2. CASE q # r
    BY <2>2, <1>1, <1>2, <1>4 DEF Ordered, Done
  <2> QED BY <2>1, <2>2
<1>7. k[r] = calls[r] /\ calls[r] \in Nat
  BY <1>1, <1>2 DEF Counted, SolverInv, Types
<1> QED BY <1>1, <1>3, <1>4, <1>5, <1>6, <1>7

----------------------------------------------------------------------------
(* What a step leaves alone                                                *)

(* No step changes what a reduction all ranks have entered returns *)
Grown ==
  \A v \in Values : \A n \in Nat :
    Given(v, n) => Given(v, n)' /\ Sum(v, n)' = Sum(v, n)

SameRank(q) ==
  /\ k'[q] = k[q] /\ nth'[q] = nth[q] /\ (running'[q] <=> running[q])
  /\ done'[q] = done[q] /\ cells'[q] = cells[q] /\ hostSum'[q] = hostSum[q]
  /\ sent'[q] = sent[q] /\ matter'[q] = matter[q] /\ hyper'[q] = hyper[q]
  /\ mem'[q] = mem[q] /\ lapse'[q] = lapse[q] /\ calls'[q] = calls[q]
  /\ rate'[q] = rate[q]

LEMMA SentKept == sent' = sent => Grown
BY DEF Grown, Given, Sum

LEMMA SentGrown ==
  ASSUME Types, NEW r \in Ranks, NEW w \in Values, NEW b \in SUBSET Pieces,
         sent' = [sent EXCEPT ![r][w] = Append(@, b)]
  PROVE  Grown
<1> SUFFICES ASSUME NEW v \in Values, NEW n \in Nat, Given(v, n)
             PROVE  Given(v, n)' /\ Sum(v, n)' = Sum(v, n)
  BY DEF Grown
<1>1. ASSUME NEW q \in Ranks
      PROVE  n <= Len(sent'[q][v]) /\ (n # 0 => sent'[q][v][n] = sent[q][v][n])
  <2>1. sent[q][v] \in Seq(SUBSET Pieces) /\ n <= Len(sent[q][v])
    <3>1. sent \in [Ranks -> [Values -> Seq(SUBSET Pieces)]]
      BY DEF Types
    <3>2. n <= Len(sent[q][v])
      BY DEF Given
    <3> QED BY <3>1, <3>2
  <2>2. CASE q = r /\ v = w
    <3>1. sent'[q][v] = Append(sent[q][v], b)
      BY <2>2 DEF Types
    <3> QED BY <2>1, <3>1
  <2>3. CASE ~(q = r /\ v = w)
    <3>1. sent'[q][v] = sent[q][v]
      BY <2>3 DEF Types
    <3> QED BY <2>1, <3>1
  <2> QED BY <2>2, <2>3
<1>2. Given(v, n)'
  BY <1>1 DEF Given
<1>3. CASE n = 0
  BY <1>2, <1>3 DEF Sum
<1>4. CASE n # 0
  <2>1. {sent'[q][v][n] : q \in Ranks} = {sent[q][v][n] : q \in Ranks}
    BY <1>1, <1>4
  <2> QED BY <1>2, <1>4, <2>1 DEF Sum
<1> QED BY <1>3, <1>4

(* What Reduced and the order of the tasks say of the later tasks *)
LEMMA AllGiven ==
  ASSUME NEW r \in Ranks, Ordered(r), Reduced(r), Done(r, "divide_vols")
  PROVE  \A v \in Values : Given(v, calls[r])
BY Order DEF Reduced

LEMMA SumsKept ==
  ASSUME Grown, NEW n \in Nat, \A v \in Values : Given(v, n)
  PROVE  Sums(n)' = Sums(n)
BY DEF Grown, Sums

LEMMA OtherRank ==
  ASSUME SolverInv, Grown, NEW q \in Ranks, SameRank(q)
  PROVE  RankInv(q)'
<1>1. /\ Counted(q) /\ Ordered(q) /\ Sending(q) /\ Reduced(q) /\ Integrated(q)
      /\ Current(q) /\ calls[q] \in Nat
  BY DEF SolverInv, RankInv, Types
<1>2. \A u : Done(q, u)' <=> Done(q, u)
  BY DEF SameRank, Done
<1>3. Counted(q)' /\ Ordered(q)' /\ Sending(q)'
  BY <1>1, <1>2 DEF SameRank, Counted, Ordered, Sending
<1>4. Reduced(q)'
  BY <1>1, <1>2 DEF Reduced, Grown, SameRank
<1>5. Integrated(q)'
  <2>1. Done(q, "divide_vols") => Sums(calls[q])' = Sums(calls[q])
    BY <1>1, AllGiven, SumsKept DEF SameRank
  <2>2. /\ Done(q, "integrate_hypersurface") => Done(q, "divide_vols")
        /\ Done(q, "lin_solve_for_lapse") => Done(q, "integrate_hypersurface")
    BY <1>1, Order
  <2>3. lapse_h' = lapse_h
    BY DEF lapse_h
  <2> QED BY <1>1, <1>2, <2>1, <2>2, <2>3 DEF Integrated, SameRank, Solution
<1>6. Current(q)'
  <2>1. SUFFICES ASSUME Spacetime(q)' PROVE Current(q)'
    BY DEF Current
  <2>2. Spacetime(q)
    BY <1>2, <2>1 DEF Spacetime, SameRank
  <2>3. \A v \in Values : Given(v, calls[q])
    BY <1>1, <2>2 DEF Current
  <2>4. Sums(calls[q])' = Sums(calls[q]) /\ calls'[q] = calls[q]
    BY <1>1, <2>3, SumsKept DEF SameRank
  <2> QED BY <1>1, <2>2, <2>3, <2>4 DEF Current, SameRank, Solution, Grown
<1> QED BY <1>3, <1>4, <1>5, <1>6 DEF RankInv

----------------------------------------------------------------------------
(* Steps of the region                                                     *)

(* The next stage of a rank, in words of each rank *)
LEMMA StageRank ==
  ASSUME Types, NEW r \in Ranks, RungeKuttaStage(r)
  PROVE  /\ Types' /\ Grown /\ k'[r] = k[r] + 1 /\ done'[r] = {}
         /\ (running'[r] <=> Active(nth[r]))
         /\ Active(nth[r]) => nth'[r] = nth[r] + 1 /\ calls'[r] = calls[r] + 1
         /\ ~Active(nth[r]) => nth'[r] = nth[r] /\ calls'[r] = calls[r]
         /\ sent' = sent /\ mem' = mem /\ lapse' = lapse /\ rate' = rate
         /\ \A q \in Ranks \ {r} : SameRank(q)
<1>1. /\ k' = [k EXCEPT ![r] = k[r] + 1]
      /\ running' = [running EXCEPT ![r] = Active(nth[r])]
      /\ nth' = IF Active(nth[r]) THEN [nth EXCEPT ![r] = nth[r] + 1] ELSE nth
      /\ calls' = IF Active(nth[r]) THEN [calls EXCEPT ![r] = calls[r] + 1] ELSE calls
      /\ done' = [done EXCEPT ![r] = {}]
      /\ UNCHANGED <<cells, hostSum, sent, matter, hyper, mem, lapse, rate>>
  BY DEF RungeKuttaStage
<1>2. Active(nth[r]) \in BOOLEAN
  BY DEF Active
<1>9. /\ k \in [Ranks -> Nat] /\ nth \in [Ranks -> Nat] /\ calls \in [Ranks -> Nat]
      /\ done \in [Ranks -> SUBSET RegionTasks]
  BY DEF Types
<1>3. /\ k' \in [Ranks -> Nat] /\ nth' \in [Ranks -> Nat] /\ calls' \in [Ranks -> Nat]
      /\ done' \in [Ranks -> SUBSET RegionTasks]
  <2>1. k' \in [Ranks -> Nat] /\ done' \in [Ranks -> SUBSET RegionTasks]
    BY <1>1, <1>9
  <2>2. nth' \in [Ranks -> Nat]
    BY <1>1, <1>9
  <2>3. calls' \in [Ranks -> Nat]
    BY <1>1, <1>9
  <2> QED BY <2>1, <2>2, <2>3
<1>4. running' \in [Ranks -> BOOLEAN] /\ (running'[r] <=> Active(nth[r]))
      /\ \A q \in Ranks \ {r} : running'[q] = running[q]
  BY <1>1, <1>2 DEF Types
<1>5. Types'
  BY <1>1, <1>3, <1>4 DEF Types
<1>6. \A q \in Ranks \ {r} : SameRank(q)
  BY <1>1, <1>4 DEF Types, SameRank
<1>7. Grown
  BY <1>1, SentKept
<1>8. k'[r] = k[r] + 1 /\ done'[r] = {}
  BY <1>1, <1>9
<1>10. /\ Active(nth[r]) => nth'[r] = nth[r] + 1 /\ calls'[r] = calls[r] + 1
       /\ ~Active(nth[r]) => nth'[r] = nth[r] /\ calls'[r] = calls[r]
  BY <1>1, <1>9
<1> QED BY <1>1, <1>4, <1>5, <1>6, <1>7, <1>8, <1>10

(* A step of one rank leaves what belongs to the others *)
LEMMA OthersKept ==
  ASSUME Types, NEW r \in Ranks, RankStep(r)
  PROVE  \A q \in Ranks \ {r} : SameRank(q)
<1>1. ASSUME NEW t, NEW p, Run(r, t, p)
      PROVE  /\ k' = k /\ nth' = nth /\ running' = running /\ calls' = calls
             /\ \A q \in Ranks \ {r} : done'[q] = done[q]
  BY <1>1 DEF Run, Types
<1>2. ASSUME NEW p \in Lists, InterpolateMatterTo1D(r, p)
      PROVE  \A q \in Ranks \ {r} : SameRank(q)
  BY <1>1, <1>2 DEF InterpolateMatterTo1D, SameRank, Types
<1>3. CASE MatterToHost(r)
  BY <1>1, <1>3 DEF MatterToHost, SameRank, Types
<1>4. ASSUME NEW v \in Values, StartReduce(r, v) \/ CheckReduce(r, v)
      PROVE  \A q \in Ranks \ {r} : SameRank(q)
  BY <1>1, <1>4 DEF StartReduce, CheckReduce, SameRank, Types
<1>5. CASE DivideVols(r) \/ IntegrateHypersurface(r)
  BY <1>1, <1>5 DEF DivideVols, IntegrateHypersurface, SameRank, Types
<1>6. CASE LinearSolveForAlpha(r) \/ SpacetimeToDevice(r)
  BY <1>1, <1>6 DEF LinearSolveForAlpha, SpacetimeToDevice, SameRank, Types
<1>7. CASE CheckRateOfChange(r)
  BY <1>1, <1>7 DEF CheckRateOfChange, SameRank, Types
<1>8. CASE RungeKuttaStage(r)
  BY <1>8, StageRank
<1> QED BY <1>2, <1>3, <1>4, <1>5, <1>6, <1>7, <1>8 DEF RankStep

LEMMA OtherRanks ==
  ASSUME SolverInv, Grown, NEW r \in Ranks, \A q \in Ranks \ {r} : SameRank(q),
         Types', RankInv(r)'
  PROVE  SolverInv'
BY OtherRank DEF SolverInv

(* A task that sends nothing *)
LEMMA LocalTask ==
  ASSUME SolverInv, NEW r \in Ranks, NEW t, NEW p, Run(r, t, p), sent' = sent,
         \A v \in Values : t # start_reduce(v)
  PROVE  /\ Grown
         /\ \A n : Sums(n)' = Sums(n)
         /\ \A v, n : Given(v, n)' <=> Given(v, n)
         /\ \A v, n : Sum(v, n)' = Sum(v, n)
         /\ Sending(r)'
<1>1. Grown /\ \A n : Sums(n)' = Sums(n)
  BY SentKept DEF Sums, Sum
<1>2. /\ \A v, n : Given(v, n)' <=> Given(v, n)
      /\ \A v, n : Sum(v, n)' = Sum(v, n)
  BY DEF Given, Sum
<1>3. \A v \in Values : Done(r, start_reduce(v))' <=> Done(r, start_reduce(v))
  BY RunOrder
<1>4. Sending(r) /\ running' = running /\ calls' = calls
  BY DEF SolverInv, RankInv, Run
<1> QED BY <1>1, <1>2, <1>3, <1>4 DEF Sending

LEMMA InterpolateStep ==
  ASSUME SolverInv, NEW r \in Ranks, NEW p \in Lists, InterpolateMatterTo1D(r, p)
  PROVE  SolverInv'
<1> USE DEF InterpolateMatterTo1D
<1>1. Run(r, "interp_to_monopole", p) /\ Types
  BY DEF SolverInv
<1>2. Types'
  <2>1. Piece(r, p, k[r]) \in Pieces
    BY <1>1, PieceSets DEF Types
  <2>2. cells' \in [Ranks -> SumType]
    BY <1>1, <2>1 DEF Types, SumType
  <2> QED BY <1>1, <2>2, RunTypes DEF Types
<1>3. /\ Grown /\ Sending(r)' /\ \A n : Sums(n)' = Sums(n)
      /\ \A v, n : Given(v, n)' <=> Given(v, n)
      /\ \A v, n : Sum(v, n)' = Sum(v, n)
  BY <1>1, LocalTask DEF start_reduce
<1>4. /\ Counted(r)' /\ Ordered(r)' /\ \A q \in Ranks \ {r} : done'[q] = done[q]
      /\ \A u : u # "interp_to_monopole" => (Done(r, u)' <=> Done(r, u))
  BY <1>1, RunOrder
<1>5. RankInv(r)'
  <2>1. RankInv(r) /\ running' = running /\ calls' = calls
    BY DEF SolverInv, Run
  <2>2. Reduced(r)'
    BY <1>3, <1>4, <2>1 DEF Reduced, RankInv, finish_reduce
  <2>3. Integrated(r)'
    BY <1>3, <1>4, <2>1 DEF Integrated, RankInv, lapse_h
  <2>4. Current(r)'
    BY <1>3, <1>4, <2>1 DEF Current, Spacetime, RankInv
  <2> QED BY <1>3, <1>4, <2>2, <2>3, <2>4 DEF RankInv
<1>6. \A q \in Ranks \ {r} : SameRank(q)
  BY OthersKept DEF RankStep, SolverInv
<1> QED BY <1>2, <1>3, <1>5, <1>6, OtherRanks

LEMMA MatterToHostStep ==
  ASSUME SolverInv, NEW r \in Ranks, MatterToHost(r)
  PROVE  SolverInv'
<1> USE DEF MatterToHost
<1>1. Run(r, "matter_to_host", 1) /\ Types
  BY DEF SolverInv
<1>2. Types'
  <2>1. hostSum' \in [Ranks -> SumType]
    BY <1>1 DEF Types
  <2> QED BY <1>1, <2>1, RunTypes DEF Types
<1>3. /\ Grown /\ Sending(r)' /\ \A n : Sums(n)' = Sums(n)
      /\ \A v, n : Given(v, n)' <=> Given(v, n)
      /\ \A v, n : Sum(v, n)' = Sum(v, n)
  BY <1>1, LocalTask DEF start_reduce
<1>4. /\ Counted(r)' /\ Ordered(r)' /\ \A q \in Ranks \ {r} : done'[q] = done[q]
      /\ \A u : u # "matter_to_host" => (Done(r, u)' <=> Done(r, u))
  BY <1>1, RunOrder
<1>5. RankInv(r)'
  <2>1. RankInv(r) /\ running' = running /\ calls' = calls
    BY DEF SolverInv, Run
  <2>2. Reduced(r)'
    <3>1. ~Done(r, "matter_to_host")
      BY <1>1 DEF Run, Done
    <3>2. \A v \in Values : ~Done(r, finish_reduce(v))
      BY <2>1, <3>1, Order DEF RankInv
    <3> QED BY <3>2, <1>4 DEF Reduced, finish_reduce
  <2>3. Integrated(r)'
    BY <1>3, <1>4, <2>1 DEF Integrated, RankInv, lapse_h
  <2>4. Current(r)'
    BY <1>3, <1>4, <2>1 DEF Current, Spacetime, RankInv
  <2> QED BY <1>3, <1>4, <2>2, <2>3, <2>4 DEF RankInv
<1>6. \A q \in Ranks \ {r} : SameRank(q)
  BY OthersKept DEF RankStep, SolverInv
<1> QED BY <1>2, <1>3, <1>5, <1>6, OtherRanks

LEMMA StartReduceStep ==
  ASSUME SolverInv, NEW r \in Ranks, NEW v \in Values, StartReduce(r, v)
  PROVE  SolverInv'
<1> DEFINE t == start_reduce(v)
<1>1. Run(r, t, 1) /\ Types
  BY DEF SolverInv, StartReduce
<1>2. /\ sent' = [sent EXCEPT ![r] = [sent[r] EXCEPT ![v] = Append(sent[r][v], hostSum[r][v])]]
      /\ UNCHANGED <<cells, hostSum, matter, hyper, mem, lapse, rate>>
  BY DEF StartReduce
<1>3. hostSum[r][v] \in SUBSET Pieces /\ sent[r] \in [Values -> Seq(SUBSET Pieces)]
  BY <1>1 DEF Types, SumType
<1>4. Types'
  <2>1. [sent[r] EXCEPT ![v] = Append(sent[r][v], hostSum[r][v])] \in [Values -> Seq(SUBSET Pieces)]
    BY <1>3
  <2>2. sent' \in [Ranks -> [Values -> Seq(SUBSET Pieces)]]
    BY <1>1, <1>2, <2>1 DEF Types
  <2> QED BY <1>1, <1>2, <2>2, RunTypes DEF Types
<1>5. Grown
  BY <1>1, <1>2, <1>3, SentGrown
<1>6. /\ Counted(r)' /\ Ordered(r)' /\ \A q \in Ranks \ {r} : done'[q] = done[q]
      /\ \A u : Done(r, u)' <=> (Done(r, u) \/ u = t)
      /\ running[r] /\ calls[r] \in Nat
  BY <1>1, RunOrder
<1>7. RankInv(r) /\ running' = running /\ calls' = calls /\ ~Done(r, t)
  BY <1>1 DEF SolverInv, Run, Done
<1>8. Sending(r)'
  <2>1. ASSUME NEW w \in Values
        PROVE  Len(sent'[r][w]) = IF running[r] /\ ~Done(r, start_reduce(w))'
                                  THEN calls[r] - 1 ELSE calls[r]
    <3>1. Len(sent[r][w]) = IF running[r] /\ ~Done(r, start_reduce(w))
                            THEN calls[r] - 1 ELSE calls[r]
      BY <1>7 DEF RankInv, Sending
    <3>2. CASE w = v
      <4>1. sent'[r][w] = Append(sent[r][v], hostSum[r][v])
        BY <1>1, <1>2, <1>3, <3>2 DEF Types
      <4>2. Len(sent'[r][w]) = Len(sent[r][v]) + 1
        BY <4>1, <1>3
      <4> QED BY <3>1, <3>2, <4>2, <1>6, <1>7
    <3>3. CASE w # v
      <4>1. sent'[r][w] = sent[r][w]
        BY <1>1, <1>2, <1>3, <3>3 DEF Types
      <4>2. start_reduce(w) # t
        BY <3>3 DEF start_reduce, Values
      <4> QED BY <3>1, <4>1, <4>2, <1>6
    <3> QED BY <3>2, <3>3
  <2> QED BY <2>1, <1>7 DEF Sending
<1>9. /\ \A w \in Values : Done(r, finish_reduce(w))' <=> Done(r, finish_reduce(w))
      /\ \A u \in {"divide_vols", "integrate_hypersurface", "lin_solve_for_lapse",
                   "spacetime_to_device"} : Done(r, u)' <=> Done(r, u)
  BY <1>6 DEF start_reduce, finish_reduce
<1>10. Reduced(r)'
  BY <1>2, <1>5, <1>6, <1>7, <1>9 DEF Reduced, RankInv, Grown
<1>11. Integrated(r)'
  <2>1. Done(r, "divide_vols") => Sums(calls[r])' = Sums(calls[r])
    BY <1>5, <1>6, <1>7, AllGiven, SumsKept DEF RankInv
  <2>2. /\ Done(r, "integrate_hypersurface") => Done(r, "divide_vols")
        /\ Done(r, "lin_solve_for_lapse") => Done(r, "integrate_hypersurface")
    BY <1>7, Order DEF RankInv
  <2> QED BY <1>2, <1>7, <1>9, <2>1, <2>2 DEF Integrated, RankInv, lapse_h
<1>12. Current(r)'
  <2>1. SUFFICES ASSUME Spacetime(r)' PROVE Current(r)'
    BY DEF Current
  <2>2. Spacetime(r)
    BY <2>1, <1>7, <1>9 DEF Spacetime
  <2>3. Done(r, "divide_vols")
    BY <2>2, <1>6, <1>7, Order DEF Spacetime, RankInv
  <2>4. Sums(calls[r])' = Sums(calls[r]) /\ \A w \in Values : Given(w, calls[r])
    BY <1>5, <1>6, <1>7, <2>3, AllGiven, SumsKept DEF RankInv
  <2> QED BY <1>2, <1>5, <1>6, <1>7, <2>2, <2>4 DEF Current, RankInv, Grown
<1>13. \A q \in Ranks \ {r} : SameRank(q)
  BY OthersKept DEF RankStep, SolverInv
<1> QED BY <1>4, <1>5, <1>6, <1>8, <1>10, <1>11, <1>12, <1>13, OtherRanks DEF RankInv

LEMMA CheckReduceStep ==
  ASSUME SolverInv, NEW r \in Ranks, NEW v \in Values, CheckReduce(r, v)
  PROVE  SolverInv'
<1> DEFINE t == finish_reduce(v)
           n == Len(sent[r][v])
           total == UNION {sent[q][v][n] : q \in Ranks}
<1>1. /\ Run(r, t, 1) /\ Types /\ \A q \in Ranks : Len(sent[q][v]) >= n
      /\ hostSum' = [hostSum EXCEPT ![r] = [hostSum[r] EXCEPT ![v] = total]]
      /\ UNCHANGED <<cells, sent, matter, hyper, mem, lapse, rate>>
  BY DEF SolverInv, CheckReduce
<1>2. RankInv(r) /\ running[r] /\ running' = running /\ calls' = calls /\ ~Done(r, t)
  BY <1>1 DEF SolverInv, Run, Done
<1>3. n = calls[r] /\ k[r] = calls[r] /\ calls[r] \in Nat
  <2>1. WaitsFor(t) = {<<start_reduce(v), 1>>}
    BY DEF WaitsFor, finish_reduce, start_reduce, Values
  <2>2. Done(r, start_reduce(v))
    BY <1>1, <2>1 DEF Run, Done
  <2> QED BY <1>1, <1>2, <2>2, RunOrder DEF RankInv, Sending
<1>4. n >= 1
  BY <1>2, <1>3 DEF RankInv, Counted
<1>5. total \in SUBSET Pieces
  BY <1>1, <1>4, SumOfBuffers
<1>6. total = Sum(v, calls[r]) /\ Given(v, calls[r])
  BY <1>1, <1>3, <1>4 DEF Sum, Given
<1> HIDE DEF total, n
<1>7. hostSum[r] \in SumType
  BY <1>1 DEF Types
<1>8. Types'
  <2>1. [hostSum[r] EXCEPT ![v] = total] \in SumType
    BY <1>5, <1>7 DEF SumType
  <2>2. hostSum' \in [Ranks -> SumType]
    BY <1>1, <2>1 DEF Types
  <2> QED BY <1>1, <2>2, RunTypes DEF Types
<1>9. /\ Grown /\ Sending(r)' /\ \A m : Sums(m)' = Sums(m)
      /\ \A w, m : Given(w, m)' <=> Given(w, m)
      /\ \A w, m : Sum(w, m)' = Sum(w, m)
  BY <1>1, LocalTask DEF start_reduce, finish_reduce
<1>10. /\ Counted(r)' /\ Ordered(r)' /\ \A q \in Ranks \ {r} : done'[q] = done[q]
       /\ \A u : Done(r, u)' <=> (Done(r, u) \/ u = t)
  BY <1>1, RunOrder
<1>11. Reduced(r)'
  <2>1. ASSUME NEW w \in Values, Done(r, finish_reduce(w))'
        PROVE  Given(w, calls[r]) /\ hostSum'[r][w] = Sum(w, calls[r])
    <3>1. CASE w = v
      <4>1. hostSum'[r][w] = total
        BY <1>1, <1>7, <3>1 DEF Types, SumType
      <4> QED BY <3>1, <4>1, <1>6
    <3>2. CASE w # v
      <4>1. hostSum'[r][w] = hostSum[r][w]
        BY <1>1, <1>7, <3>2 DEF Types, SumType
      <4>2. Done(r, finish_reduce(w))
        BY <2>1, <1>10, <3>2 DEF finish_reduce, Values
      <4> QED BY <4>1, <4>2, <1>2 DEF RankInv, Reduced
    <3> QED BY <3>1, <3>2
  <2> QED BY <2>1, <1>2, <1>9 DEF Reduced
<1>12. \A u \in {"divide_vols", "integrate_hypersurface", "lin_solve_for_lapse",
                 "spacetime_to_device"} : Done(r, u)' <=> Done(r, u)
  BY <1>10 DEF finish_reduce
<1>13. Integrated(r)' /\ Current(r)'
  BY <1>1, <1>2, <1>9, <1>12 DEF Integrated, Current, Spacetime, RankInv, lapse_h
<1>14. \A q \in Ranks \ {r} : SameRank(q)
  BY OthersKept DEF RankStep, SolverInv
<1> QED BY <1>8, <1>9, <1>10, <1>11, <1>13, <1>14, OtherRanks DEF RankInv

LEMMA DivideVolsStep ==
  ASSUME SolverInv, NEW r \in Ranks, DivideVols(r)
  PROVE  SolverInv'
<1> USE DEF DivideVols
<1>1. Run(r, "divide_vols", 1) /\ Types
  BY DEF SolverInv
<1>2. Types'
  <2>1. matter' \in [Ranks -> SumType]
    BY <1>1 DEF Types
  <2> QED BY <1>1, <2>1, RunTypes DEF Types
<1>3. /\ Grown /\ Sending(r)' /\ \A n : Sums(n)' = Sums(n)
      /\ \A v, n : Given(v, n)' <=> Given(v, n)
      /\ \A v, n : Sum(v, n)' = Sum(v, n)
  BY <1>1, LocalTask DEF start_reduce
<1>4. /\ Counted(r)' /\ Ordered(r)' /\ \A q \in Ranks \ {r} : done'[q] = done[q]
      /\ \A u : Done(r, u)' <=> (Done(r, u) \/ u = "divide_vols")
  BY <1>1, RunOrder
<1>5. RankInv(r)'
  <2>1. RankInv(r) /\ running' = running /\ calls' = calls /\ ~Done(r, "divide_vols")
    BY <1>1 DEF SolverInv, Run, Done
  <2>2. Reduced(r)'
    BY <1>3, <1>4, <2>1 DEF Reduced, RankInv, finish_reduce
  <2>3. Integrated(r)'
    <3>1. WaitsFor("divide_vols") = {<<finish_reduce("matter"), 1>>, <<finish_reduce("volumes"), 1>>}
      BY DEF WaitsFor, finish_reduce
    <3>2. \A v \in Values : Done(r, finish_reduce(v))
      BY <1>1, <3>1 DEF Run, Done, Values
    <3>3. hostSum[r] = Sums(calls[r])
      <4>1. \A v \in Values : hostSum[r][v] = Sum(v, calls[r])
        BY <2>1, <3>2 DEF RankInv, Reduced
      <4>2. hostSum[r] = [v \in Values |-> hostSum[r][v]]
        BY <1>1 DEF Types, SumType
      <4> QED BY <4>1, <4>2 DEF Sums
    <3>4. matter'[r] = hostSum[r]
      BY <1>1 DEF Types
    <3> QED BY <1>3, <1>4, <2>1, <3>3, <3>4 DEF Integrated, RankInv, lapse_h
  <2>4. Current(r)'
    BY <1>3, <1>4, <2>1 DEF Current, Spacetime, RankInv
  <2> QED BY <1>3, <1>4, <2>2, <2>3, <2>4 DEF RankInv
<1>6. \A q \in Ranks \ {r} : SameRank(q)
  BY OthersKept DEF RankStep, SolverInv
<1> QED BY <1>2, <1>3, <1>5, <1>6, OtherRanks

LEMMA IntegrateStep ==
  ASSUME SolverInv, NEW r \in Ranks, IntegrateHypersurface(r)
  PROVE  SolverInv'
<1> USE DEF IntegrateHypersurface
<1>1. Run(r, "integrate_hypersurface", 1) /\ Types
  BY DEF SolverInv
<1>2. Types'
  <2>1. hyper' \in [Ranks -> SumType]
    BY <1>1 DEF Types
  <2> QED BY <1>1, <2>1, RunTypes DEF Types
<1>3. /\ Grown /\ Sending(r)' /\ \A n : Sums(n)' = Sums(n)
      /\ \A v, n : Given(v, n)' <=> Given(v, n)
      /\ \A v, n : Sum(v, n)' = Sum(v, n)
  BY <1>1, LocalTask DEF start_reduce
<1>4. /\ Counted(r)' /\ Ordered(r)' /\ \A q \in Ranks \ {r} : done'[q] = done[q]
      /\ \A u : Done(r, u)' <=> (Done(r, u) \/ u = "integrate_hypersurface")
  BY <1>1, RunOrder
<1>5. RankInv(r)'
  <2>1. RankInv(r) /\ running' = running /\ calls' = calls /\ ~Done(r, "integrate_hypersurface")
    BY <1>1 DEF SolverInv, Run, Done
  <2>2. Reduced(r)'
    BY <1>3, <1>4, <2>1 DEF Reduced, RankInv, finish_reduce
  <2>3. Integrated(r)'
    <3>1. Done(r, "divide_vols")
      BY <1>1 DEF Run, Done, WaitsFor
    <3>2. hyper'[r] = matter[r]
      BY <1>1 DEF Types
    <3> QED BY <1>3, <1>4, <2>1, <3>1, <3>2 DEF Integrated, RankInv, lapse_h
  <2>4. Current(r)'
    BY <1>3, <1>4, <2>1 DEF Current, Spacetime, RankInv
  <2> QED BY <1>3, <1>4, <2>2, <2>3, <2>4 DEF RankInv
<1>6. \A q \in Ranks \ {r} : SameRank(q)
  BY OthersKept DEF RankStep, SolverInv
<1> QED BY <1>2, <1>3, <1>5, <1>6, OtherRanks

LEMMA LinearSolveStep ==
  ASSUME SolverInv, NEW r \in Ranks, LinearSolveForAlpha(r)
  PROVE  SolverInv'
<1> DEFINE sol == Solution(calls[r], hyper[r])
           M == Arrays \union {"mirror"}
<1>1. /\ Run(r, "lin_solve_for_lapse", 1) /\ Types
      /\ mem' = [mem EXCEPT ![r] = [mem[r] EXCEPT ![lapse_h] = sol]]
      /\ UNCHANGED <<cells, hostSum, sent, matter, hyper, lapse, rate>>
  BY DEF SolverInv, LinearSolveForAlpha
<1>2. sol \in LapseType
  BY <1>1 DEF Types, LapseType, Solution
<1> HIDE DEF sol
<1>3. lapse_h \in M /\ mem[r] \in [M -> LapseType] /\ mem \in [Ranks -> [M -> LapseType]]
  BY <1>1, LapseMemory DEF Types
<1> HIDE DEF M
<1>4. Types'
  <2>1. [mem[r] EXCEPT ![lapse_h] = sol] \in [M -> LapseType]
    BY <1>2, <1>3
  <2>2. mem' \in [Ranks -> [M -> LapseType]]
    BY <1>1, <1>3, <2>1
  <2> QED BY <1>1, <2>2, RunTypes DEF Types, M
<1>5. /\ Grown /\ Sending(r)' /\ \A n : Sums(n)' = Sums(n)
      /\ \A v, n : Given(v, n)' <=> Given(v, n)
      /\ \A v, n : Sum(v, n)' = Sum(v, n)
  BY <1>1, LocalTask DEF start_reduce
<1>6. /\ Counted(r)' /\ Ordered(r)' /\ \A q \in Ranks \ {r} : done'[q] = done[q]
      /\ \A u : Done(r, u)' <=> (Done(r, u) \/ u = "lin_solve_for_lapse")
      /\ running[r]
  BY <1>1, RunOrder
<1>7. RankInv(r) /\ running' = running /\ calls' = calls /\ ~Done(r, "lin_solve_for_lapse")
  BY <1>1 DEF SolverInv, Run, Done
<1>8. mem'[r][lapse_h] = sol
  BY <1>1, <1>3
<1>9. Done(r, "integrate_hypersurface")
  BY <1>1 DEF Run, Done, WaitsFor
<1>10. Reduced(r)'
  BY <1>1, <1>5, <1>6, <1>7 DEF Reduced, RankInv, finish_reduce
<1>11. Integrated(r)'
  <2>1. sol = Solution(calls[r], Sums(calls[r]))
    BY <1>7, <1>9 DEF sol, RankInv, Integrated
  <2> QED BY <1>1, <1>5, <1>6, <1>7, <1>8, <2>1 DEF Integrated, RankInv, lapse_h
<1>12. Current(r)'
  <2>1. ~Done(r, "spacetime_to_device")
    BY <1>7, Order DEF RankInv
  <2> QED BY <2>1, <1>6, <1>7 DEF Current, Spacetime
<1>13. \A q \in Ranks \ {r} : SameRank(q)
  BY OthersKept DEF RankStep, SolverInv
<1> QED BY <1>4, <1>5, <1>6, <1>10, <1>11, <1>12, <1>13, OtherRanks DEF RankInv

(* The swap: the array that was not current takes the host's lapse, and    *)
(* the memory the host solved in keeps it.                                 *)
LEMMA SwapLapse ==
  ASSUME Types, NEW r \in Ranks, SpacetimeToDevice(r)
  PROVE  /\ lapse'[r] = other(lapse[r]) /\ lapse' \in [Ranks -> Arrays]
         /\ mem'[r][lapse'[r]] = mem[r][lapse_h]
         /\ mem'[r][other(lapse'[r])] = mem[r][lapse[r]]
         /\ mem'[r][lapse_h] = mem[r][lapse_h]
         /\ mem' \in [Ranks -> [Arrays \union {"mirror"} -> LapseType]]
         /\ \A q \in Ranks \ {r} : mem'[q] = mem[q] /\ lapse'[q] = lapse[q]
<1> DEFINE new == other(lapse[r])
           M == Arrays \union {"mirror"}
<1>1. /\ lapse' = [lapse EXCEPT ![r] = new]
      /\ mem' = [mem EXCEPT ![r] = [mem[r] EXCEPT ![new] = mem[r][lapse_h]]]
  BY DEF SpacetimeToDevice
<1>2. /\ lapse[r] \in Arrays /\ new \in Arrays /\ other(new) = lapse[r] /\ new # lapse[r]
      /\ lapse \in [Ranks -> Arrays]
  BY DEF Types, Arrays, other
<1>3. lapse_h \in M /\ mem[r] \in [M -> LapseType] /\ mem \in [Ranks -> [M -> LapseType]]
      /\ new \in M /\ lapse[r] \in M
  BY <1>2, LapseMemory DEF Types
<1> HIDE DEF M, new
<1>4. lapse'[r] = new /\ lapse' \in [Ranks -> Arrays]
  BY <1>1, <1>2
<1>5. [mem[r] EXCEPT ![new] = mem[r][lapse_h]] \in [M -> LapseType]
  BY <1>3
<1>6. mem' \in [Ranks -> [M -> LapseType]]
      /\ mem'[r] = [mem[r] EXCEPT ![new] = mem[r][lapse_h]]
  BY <1>1, <1>3, <1>5
<1>7. /\ mem'[r][new] = mem[r][lapse_h]
      /\ \A m \in M : m # new => mem'[r][m] = mem[r][m]
  BY <1>3, <1>6
<1>8. \A q \in Ranks \ {r} : mem'[q] = mem[q] /\ lapse'[q] = lapse[q]
  BY <1>1, <1>2, <1>3
<1> QED BY <1>2, <1>3, <1>4, <1>6, <1>7, <1>8 DEF M, new

LEMMA SpacetimeStep ==
  ASSUME SolverInv, NEW r \in Ranks, SpacetimeToDevice(r)
  PROVE  SolverInv'
<1>1. /\ Run(r, "spacetime_to_device", 1) /\ Types
      /\ UNCHANGED <<cells, hostSum, sent, matter, hyper, rate>>
  BY DEF SolverInv, SpacetimeToDevice
<1>2. Types'
  BY <1>1, SwapLapse, RunTypes DEF Types
<1>3. /\ Grown /\ Sending(r)' /\ \A n : Sums(n)' = Sums(n)
      /\ \A v, n : Given(v, n)' <=> Given(v, n)
      /\ \A v, n : Sum(v, n)' = Sum(v, n)
  BY <1>1, LocalTask DEF start_reduce
<1>4. /\ Counted(r)' /\ Ordered(r)' /\ \A q \in Ranks \ {r} : done'[q] = done[q]
      /\ \A u : Done(r, u)' <=> (Done(r, u) \/ u = "spacetime_to_device")
  BY <1>1, RunOrder
<1>5. RankInv(r) /\ running' = running /\ calls' = calls
  BY <1>1 DEF SolverInv, Run
<1>6. Done(r, "lin_solve_for_lapse")
  BY <1>1 DEF Run, Done, WaitsFor
<1>7. Reduced(r)'
  BY <1>1, <1>3, <1>4, <1>5 DEF Reduced, RankInv, finish_reduce
<1>8. mem'[r][lapse_h] = mem[r][lapse_h] /\ mem'[r][lapse'[r]] = mem[r][lapse_h]
  BY <1>1, SwapLapse
<1>9. Integrated(r)'
  BY <1>1, <1>3, <1>4, <1>5, <1>8 DEF Integrated, RankInv, lapse_h
<1>10. Current(r)'
  <2>1. mem'[r][lapse'[r]] = Solution(calls[r], Sums(calls[r]))
    BY <1>5, <1>6, <1>8 DEF RankInv, Integrated
  <2>2. \A v \in Values : Given(v, calls[r])
    BY <1>5, <1>6, Order, AllGiven DEF RankInv
  <2> QED BY <1>3, <1>5, <2>1, <2>2 DEF Current
<1>11. \A q \in Ranks \ {r} : SameRank(q)
  BY OthersKept DEF RankStep, SolverInv
<1> QED BY <1>2, <1>3, <1>4, <1>7, <1>9, <1>10, <1>11, OtherRanks DEF RankInv

LEMMA CheckRateStep ==
  ASSUME SolverInv, NEW r \in Ranks, CheckRateOfChange(r)
  PROVE  SolverInv'
<1>1. /\ Run(r, "check_monopole_dt", 1) /\ Types
      /\ rate' = IF r = Root THEN [rate EXCEPT ![r] = <<mem[r][lapse[r]].call,
                                                      mem[r][other(lapse[r])].call>>]
                 ELSE rate
      /\ UNCHANGED <<cells, hostSum, sent, matter, hyper, mem, lapse>>
  BY DEF SolverInv, CheckRateOfChange
<1>2. Types'
  <2>1. /\ mem[r] \in [Arrays \union {"mirror"} -> LapseType] /\ lapse[r] \in Arrays
        /\ other(lapse[r]) \in Arrays
    BY <1>1 DEF Types, Arrays, other
  <2>2. mem[r][lapse[r]] \in LapseType /\ mem[r][other(lapse[r])] \in LapseType
    BY <2>1
  <2>3. mem[r][lapse[r]].call \in Int /\ mem[r][other(lapse[r])].call \in Int
    BY <2>2 DEF LapseType
  <2>4. rate' \in [Ranks -> {<<>>} \union (Int \X Int)]
    BY <1>1, <2>3 DEF Types
  <2> QED BY <1>1, <2>4, RunTypes DEF Types
<1>3. /\ Grown /\ Sending(r)' /\ \A n : Sums(n)' = Sums(n)
      /\ \A v, n : Given(v, n)' <=> Given(v, n)
      /\ \A v, n : Sum(v, n)' = Sum(v, n)
  BY <1>1, LocalTask DEF start_reduce
<1>4. /\ Counted(r)' /\ Ordered(r)' /\ \A q \in Ranks \ {r} : done'[q] = done[q]
      /\ \A u : Done(r, u)' <=> (Done(r, u) \/ u = "check_monopole_dt")
  BY <1>1, RunOrder
<1>5. RankInv(r) /\ running' = running /\ calls' = calls
  BY <1>1 DEF SolverInv, Run
<1>6. Reduced(r)'
  BY <1>1, <1>3, <1>4, <1>5 DEF Reduced, RankInv, finish_reduce
<1>7. Integrated(r)'
  BY <1>1, <1>3, <1>4, <1>5 DEF Integrated, RankInv, lapse_h
<1>8. Current(r)'
  BY <1>1, <1>3, <1>4, <1>5 DEF Current, Spacetime, RankInv
<1>9. \A q \in Ranks \ {r} : rate'[q] = rate[q]
  BY <1>1 DEF Types
<1>10. \A q \in Ranks \ {r} : SameRank(q)
  BY OthersKept DEF RankStep, SolverInv
<1> QED BY <1>2, <1>3, <1>4, <1>6, <1>7, <1>8, <1>10, OtherRanks DEF RankInv

----------------------------------------------------------------------------
(* The next stage                                                          *)

LEMMA StageStep ==
  ASSUME SolverInv, NEW r \in Ranks, RungeKuttaStage(r)
  PROVE  SolverInv'
<1>1. /\ Types /\ RankInv(r) /\ k[r] \in Nat /\ nth[r] \in Nat /\ calls[r] \in Nat
  BY DEF SolverInv, Types
<1>2. /\ Types' /\ Grown /\ k'[r] = k[r] + 1 /\ done'[r] = {}
      /\ (running'[r] <=> Active(nth[r]))
      /\ Active(nth[r]) => nth'[r] = nth[r] + 1 /\ calls'[r] = calls[r] + 1
      /\ ~Active(nth[r]) => nth'[r] = nth[r] /\ calls'[r] = calls[r]
      /\ sent' = sent /\ mem' = mem /\ lapse' = lapse
      /\ \A q \in Ranks \ {r} : SameRank(q)
  BY <1>1, StageRank
<1>3. Counted(r)'
  BY <1>1, <1>2, MonopoleAssumption DEF RankInv, Counted, Active
<1>4. \A u : ~Done(r, u)'
  BY <1>2 DEF Done
<1>5. Ordered(r)'
  BY <1>2, <1>4 DEF Ordered
<1>6. running[r] => /\ Done(r, "spacetime_to_device")
                    /\ \A v \in Values : Done(r, start_reduce(v))
  BY DEF RungeKuttaStage, RegionComplete, RegionTasks, FirstList, Done, start_reduce
<1>7. Sending(r)'
  <2>1. \A v \in Values : Len(sent[r][v]) = calls[r]
    BY <1>1, <1>6 DEF RankInv, Sending
  <2>2. \A v \in Values : ~Done(r, start_reduce(v))'
    BY <1>4
  <2>3. calls'[r] - 1 = IF Active(nth[r]) THEN calls[r] ELSE calls[r] - 1
    BY <1>1, <1>2
  <2>4. \A v \in Values : Len(sent'[r][v]) = IF running'[r] THEN calls'[r] - 1 ELSE calls'[r]
    BY <1>1, <1>2, <2>1, <2>3
  <2> QED BY <2>2, <2>4 DEF Sending
<1>8. Reduced(r)' /\ Integrated(r)'
  BY <1>4 DEF Reduced, Integrated
<1>9. Current(r)'
  <2>1. SUFFICES ASSUME Spacetime(r)' PROVE Current(r)'
    BY DEF Current
  <2>2. calls'[r] = calls[r]
    BY <2>1, <1>2, <1>4 DEF Spacetime
  <2>3. Spacetime(r)
    BY <1>6 DEF Spacetime
  <2>4. Sums(calls[r])' = Sums(calls[r]) /\ \A v \in Values : Given(v, calls[r])
    BY <1>1, <1>2, <2>2, <2>3, SumsKept DEF RankInv, Current
  <2> QED BY <1>1, <1>2, <2>2, <2>3, <2>4 DEF Current, RankInv, Grown
<1> QED BY <1>2, <1>3, <1>5, <1>7, <1>8, <1>9, OtherRanks DEF RankInv

----------------------------------------------------------------------------
(* The specification keeps the invariant                                   *)

LEMMA SolverInvInit == Init => SolverInv
<1> SUFFICES ASSUME Init PROVE SolverInv
  OBVIOUS
<1>1. Types
  BY TypesInit
<1> SUFFICES ASSUME NEW r \in Ranks PROVE RankInv(r)
  BY <1>1 DEF SolverInv
<1> DEFINE star == [v \in Values |-> AllPieces(0)]
<1>2. /\ k[r] = 0 /\ nth[r] = 0 /\ ~running[r] /\ done[r] = {} /\ calls[r] = 0
      /\ \A v \in Values : sent[r][v] = <<>>
      /\ \A v \in Values : \A q \in Ranks : sent[q][v] = <<>>
  BY DEF Init
<1>3. lapse[r] = "alpha_last" /\ mem[r]["alpha_last"] = Solution(0, star)
  BY DEF Init, Arrays
<1>4. Sums(0) = star
  BY DEF Sums, Sum
<1>5. Counted(r) /\ Ordered(r) /\ Reduced(r) /\ Integrated(r)
  BY <1>2, MonopoleAssumption DEF Counted, Ordered, Done, Reduced, Integrated
<1>6. Sending(r)
  BY <1>2 DEF Sending
<1>7. Current(r)
  BY <1>2, <1>3, <1>4 DEF Current, Given
<1> QED BY <1>5, <1>6, <1>7 DEF RankInv

LEMMA Stutter == SolverInv /\ UNCHANGED vars => SolverInv'
<1> SUFFICES ASSUME SolverInv, UNCHANGED vars PROVE SolverInv'
  OBVIOUS
<1>1. Types'
  BY DEF SolverInv, Types, vars
<1>2. Grown
  BY SentKept DEF vars
<1>3. \A q \in Ranks : SameRank(q)
  BY DEF vars, SameRank
<1> QED BY <1>1, <1>2, <1>3, OtherRank DEF SolverInv

LEMMA SolverInvNext == SolverInv /\ [Next]_vars => SolverInv'
<1> SUFFICES ASSUME SolverInv, [Next]_vars PROVE SolverInv'
  OBVIOUS
<1>1. ASSUME NEW r \in Ranks, RankStep(r) PROVE SolverInv'
  BY <1>1, InterpolateStep, MatterToHostStep, StartReduceStep, CheckReduceStep,
     DivideVolsStep, IntegrateStep, LinearSolveStep, SpacetimeStep, CheckRateStep,
     StageStep DEF RankStep
<1> QED BY <1>1, Stutter DEF Next, Finish

(* The calls of the solver, their reductions and what each task keeps of   *)
(* them agree in every reachable state: any ranks, partitions and stages.  *)
THEOREM SolverInvariant == Spec => []SolverInv
BY SolverInvInit, SolverInvNext, PTL DEF Spec

(* Ranks that have finished the same stage hold the same spacetime, also   *)
(* after the solver has stopped (divide_vols .. spacetime_to_device run on *)
(* every rank on its own): however many ranks and partitions there are.    *)
THEOREM SpacetimeAgrees == Spec => []SameSpacetime
<1>1. SolverInv => SameSpacetime
  <2> SUFFICES ASSUME SolverInv, NEW r \in Ranks, NEW q \in Ranks,
                      k[r] = k[q], RegionComplete(r), RegionComplete(q)
               PROVE  mem[r][lapse[r]] = mem[q][lapse[q]]
    BY DEF SameSpacetime
  <2>1. ASSUME NEW u \in {r, q}
        PROVE  mem[u][lapse[u]] = Solution(calls[u], Sums(calls[u]))
    <3>1. RankInv(u) /\ Spacetime(u)
      BY DEF SolverInv, RegionComplete, RegionTasks, FirstList, Done, Spacetime
    <3> QED BY <3>1 DEF RankInv, Current
  <2>2. calls[r] = calls[q]
    BY DEF SolverInv, RankInv, Counted
  <2> QED BY <2>1, <2>2
<1> QED BY <1>1, SolverInvariant, PTL

----------------------------------------------------------------------------
(* One partition: the solution is for all the matter of the stage          *)

LEMMA MatterInvStep ==
  ASSUME NParts = 1, SolverInv, MatterInv, NEW r \in Ranks, RankStep(r)
  PROVE  OwnMatter(r)'
<1>1. /\ Types /\ RankInv(r) /\ OwnMatter(r) /\ Lists = {1}
      /\ Done(r, "matter_to_host") => Done(r, "interp_to_monopole")
      /\ \A v \in Values : /\ Done(r, start_reduce(v)) => Done(r, "matter_to_host")
                           /\ Done(r, finish_reduce(v)) => Done(r, start_reduce(v))
  BY Order DEF SolverInv, MatterInv, RankInv, Lists, Done
<1> DEFINE own == {Piece(r, 1, k[r])}
<1>2. ASSUME NEW t, NEW p, Run(r, t, p)
      PROVE  /\ k' = k /\ \A u : Done(r, u)' <=> (Done(r, u) \/ <<u, 1>> = <<t, p>>)
             /\ k[r] = calls[r] /\ running[r] /\ <<t, p>> \notin done[r] /\ WaitsFor(t) \subseteq done[r]
  BY <1>2, RunOrder DEF Run
<1>3. CASE \E p \in Lists : InterpolateMatterTo1D(r, p)
  <2>1. /\ Run(r, "interp_to_monopole", 1) /\ UNCHANGED <<hostSum, sent>>
        /\ cells' = [cells EXCEPT ![r] = [v \in Values |-> own]]
    BY <1>1, <1>3 DEF InterpolateMatterTo1D
  <2>2. cells'[r] = [v \in Values |-> own]
    BY <1>1, <2>1 DEF Types
  <2>3. \A u : Done(r, u)' <=> (Done(r, u) \/ u = "interp_to_monopole")
    BY <1>2, <2>1
  <2>4. k' = k
    BY <1>2, <2>1
  <2> QED BY <1>1, <2>1, <2>2, <2>3, <2>4 DEF OwnMatter, finish_reduce
<1>4. CASE MatterToHost(r)
  <2>1. /\ Run(r, "matter_to_host", 1) /\ UNCHANGED <<cells, sent>>
        /\ hostSum'[r] = cells[r]
    BY <1>1, <1>4 DEF MatterToHost, Types
  <2>2. k' = k /\ \A u : Done(r, u)' <=> (Done(r, u) \/ u = "matter_to_host")
    BY <1>2, <2>1
  <2>3. Done(r, "interp_to_monopole")
    BY <1>1, <1>2, <2>1 DEF WaitsFor, Done
  <2>4. cells[r] = [v \in Values |-> own]
    BY <1>1, <2>3 DEF OwnMatter
  <2> QED BY <1>1, <2>1, <2>2, <2>4 DEF OwnMatter
<1>5. ASSUME NEW v \in Values, StartReduce(r, v)
      PROVE  OwnMatter(r)'
  <2>1. /\ Run(r, start_reduce(v), 1) /\ UNCHANGED <<cells, hostSum>>
        /\ sent' = [sent EXCEPT ![r] = [sent[r] EXCEPT ![v] = Append(sent[r][v], hostSum[r][v])]]
    BY <1>5 DEF StartReduce
  <2>2. k' = k /\ \A u : Done(r, u)' <=> (Done(r, u) \/ u = start_reduce(v))
    BY <1>2, <2>1
  <2>3. WaitsFor(start_reduce(v)) = {<<"matter_to_host", 1>>}
    BY DEF WaitsFor, start_reduce
  <2>4. Done(r, "matter_to_host") /\ ~Done(r, start_reduce(v))
    BY <1>2, <2>1, <2>3 DEF Done
  <2>5. hostSum[r][v] = own
    BY <1>1, <2>4 DEF OwnMatter
  <2>6. ASSUME NEW w \in Values, NEW n \in 1 .. Len(sent'[r][w])
        PROVE  sent'[r][w][n] = {Piece(r, 1, n)}
    <3>1. sent[r] \in [Values -> Seq(SUBSET Pieces)] /\ sent[r][w] \in Seq(SUBSET Pieces)
      BY <1>1 DEF Types
    <3>2. CASE w # v
      <4>1. sent'[r][w] = sent[r][w]
        BY <1>1, <2>1, <3>1, <3>2 DEF Types
      <4> QED BY <1>1, <2>6, <4>1 DEF OwnMatter
    <3>3. CASE w = v
      <4>1. sent'[r][w] = Append(sent[r][w], own)
        BY <1>1, <2>1, <2>5, <3>1, <3>3 DEF Types
      <4>2. Len(sent[r][w]) = k[r] - 1 /\ k[r] \in Nat
        BY <1>1, <1>2, <2>1, <2>4, <3>3 DEF RankInv, Sending, Types
      <4>3. CASE n = k[r]
        BY <3>1, <4>1, <4>2, <4>3
      <4>4. CASE n # k[r]
        <5>1. n \in 1 .. Len(sent[r][w]) /\ sent'[r][w][n] = sent[r][w][n]
          <6>1. Len(sent'[r][w]) = Len(sent[r][w]) + 1
            BY <3>1, <4>1
          <6> QED BY <3>1, <4>1, <4>2, <4>4, <6>1
        <5> QED BY <1>1, <5>1 DEF OwnMatter
      <4> QED BY <4>3, <4>4
    <3> QED BY <3>2, <3>3
  <2>7. /\ Done(r, "interp_to_monopole")' <=> Done(r, "interp_to_monopole")
        /\ Done(r, "matter_to_host")' <=> Done(r, "matter_to_host")
        /\ \A w \in Values : Done(r, finish_reduce(w))' <=> Done(r, finish_reduce(w))
    BY <2>2 DEF start_reduce, finish_reduce
  <2> QED BY <1>1, <2>1, <2>2, <2>6, <2>7 DEF OwnMatter
<1>6. ASSUME NEW v \in Values, CheckReduce(r, v)
      PROVE  OwnMatter(r)'
  <2>1. Run(r, finish_reduce(v), 1) /\ UNCHANGED <<cells, sent>>
    BY <1>6 DEF CheckReduce
  <2>2. k' = k /\ \A u : Done(r, u)' <=> (Done(r, u) \/ u = finish_reduce(v))
    BY <1>2, <2>1
  <2>3. \A w \in Values : w # v => hostSum'[r][w] = hostSum[r][w]
    BY <1>1, <1>6 DEF CheckReduce, Types, SumType
  <2> QED BY <1>1, <2>1, <2>2, <2>3 DEF OwnMatter, finish_reduce
<1>7. CASE DivideVols(r) \/ IntegrateHypersurface(r) \/ LinearSolveForAlpha(r)
           \/ SpacetimeToDevice(r) \/ CheckRateOfChange(r)
  <2>1. PICK t \in {"divide_vols", "integrate_hypersurface", "lin_solve_for_lapse",
                   "spacetime_to_device", "check_monopole_dt"} : Run(r, t, 1)
    BY <1>7 DEF DivideVols, IntegrateHypersurface, LinearSolveForAlpha,
                SpacetimeToDevice, CheckRateOfChange
  <2>2. UNCHANGED <<cells, hostSum, sent>>
    BY <1>7 DEF DivideVols, IntegrateHypersurface, LinearSolveForAlpha,
                SpacetimeToDevice, CheckRateOfChange
  <2>3. k' = k /\ \A u : Done(r, u)' <=> (Done(r, u) \/ u = t)
    BY <1>2, <2>1
  <2>4. /\ Done(r, "interp_to_monopole")' <=> Done(r, "interp_to_monopole")
        /\ Done(r, "matter_to_host")' <=> Done(r, "matter_to_host")
        /\ \A w \in Values : Done(r, finish_reduce(w))' <=> Done(r, finish_reduce(w))
    BY <2>3 DEF finish_reduce
  <2> QED BY <1>1, <2>2, <2>3, <2>4 DEF OwnMatter
<1>8. CASE RungeKuttaStage(r)
  <2>1. done'[r] = {} /\ sent' = sent
    BY <1>1, <1>8, StageRank
  <2> QED BY <1>1, <2>1 DEF OwnMatter, Done
<1> QED BY <1>3, <1>4, <1>5, <1>6, <1>7, <1>8, <1>1 DEF RankStep

(* Each buffer holds the matter of the rank and stage that gave it, so a   *)
(* spacetime that is current is that of all ranks' matter of the stage,    *)
(* summed with the volumes of the same cells.  For the one partition per   *)
(* rank of the default; any number of ranks and calls.                     *)
THEOREM StarIsWhole ==
  ASSUME NParts = 1 PROVE Spec => []WholeStar
<1>1. Init => MatterInv
  <2> SUFFICES ASSUME Init, NEW r \in Ranks PROVE OwnMatter(r)
    BY DEF MatterInv
  <2>1. done[r] = {} /\ \A v \in Values : sent[r][v] = <<>>
    BY DEF Init
  <2> QED BY <2>1 DEF OwnMatter, Done
<1>2. SolverInv /\ MatterInv /\ [Next]_vars => MatterInv'
  <2> SUFFICES ASSUME SolverInv, MatterInv, [Next]_vars, NEW q \in Ranks
               PROVE  OwnMatter(q)'
    BY DEF MatterInv
  <2>1. ASSUME SameRank(q) PROVE OwnMatter(q)'
    <3>1. \A u : Done(q, u)' <=> Done(q, u)
      BY <2>1 DEF SameRank, Done
    <3>2. OwnMatter(q)
      BY DEF MatterInv
    <3>3. k'[q] = k[q] /\ cells'[q] = cells[q] /\ hostSum'[q] = hostSum[q] /\ sent'[q] = sent[q]
      BY <2>1 DEF SameRank
    <3> QED BY <3>1, <3>2, <3>3 DEF OwnMatter
  <2>2. ASSUME NEW r \in Ranks, RankStep(r) PROVE OwnMatter(q)'
    <3>1. CASE q = r
      BY <2>2, <3>1, MatterInvStep
    <3>2. CASE q # r
      BY <2>1, <2>2, <3>2, OthersKept DEF SolverInv
    <3> QED BY <3>1, <3>2
  <2>3. ASSUME UNCHANGED vars PROVE OwnMatter(q)'
    <3>1. SameRank(q)
      BY <2>3 DEF vars, SameRank
    <3> QED BY <2>1, <3>1
  <2> QED BY <2>2, <2>3 DEF Next, Finish
<1>3. SolverInv /\ MatterInv => WholeStar
  <2> SUFFICES ASSUME SolverInv, MatterInv, NEW r \in Ranks, Solved(r)
               PROVE  mem[r][lapse[r]].from = [v \in Values |-> AllPieces(k[r])]
    BY DEF WholeStar
  <2>1. /\ RankInv(r) /\ Spacetime(r) /\ running[r] /\ k[r] = calls[r]
        /\ k[r] \in Nat /\ k[r] >= 1
    BY DEF SolverInv, RankInv, Counted, Solved, Spacetime, Done, Types
  <2>2. /\ mem[r][lapse[r]].from = Sums(k[r])
        /\ \A v \in Values : Given(v, k[r])
    BY <2>1 DEF RankInv, Current, Solution
  <2>3. ASSUME NEW v \in Values PROVE Sum(v, k[r]) = AllPieces(k[r])
    <3>1. \A q \in Ranks : sent[q][v][k[r]] = {Piece(q, 1, k[r])}
      BY <2>1, <2>2 DEF MatterInv, OwnMatter, Given, SolverInv, Types
    <3>2. Sum(v, k[r]) = UNION {{Piece(q, 1, k[r])} : q \in Ranks}
      BY <2>1, <3>1 DEF Sum
    <3>3. ASSUME NEW x PROVE x \in AllPieces(k[r]) <=> \E q \in Ranks : x = Piece(q, 1, k[r])
      <4>1. x \in AllPieces(k[r]) <=>
              \E q \in Ranks : x = [rank |-> q, part |-> 1, stage |-> k[r]]
        BY DEF AllPieces, Lists
      <4> QED BY <4>1 DEF Piece
    <3> QED BY <3>2, <3>3
  <2> QED BY <2>2, <2>3 DEF Sums
<1> QED BY <1>1, <1>2, <1>3, SolverInvariant, PTL DEF Spec

----------------------------------------------------------------------------
(* The two copies of the lapse                                             *)

LEMMA LapseInvStep ==
  ASSUME ~HostBuild, SolverInv, LapseInv, NEW r \in Ranks, RankStep(r)
  PROVE  TwoLapses(r)'
<1>1. /\ Types /\ RankInv(r) /\ TwoLapses(r) /\ lapse_h = "mirror"
      /\ lapse[r] \in Arrays /\ other(lapse[r]) \in Arrays /\ calls[r] \in Nat
  BY DEF SolverInv, LapseInv, lapse_h, Types, Arrays, other
<1>2. ASSUME NEW t, NEW p, Run(r, t, p)
      PROVE  /\ (running'[r] <=> running[r]) /\ calls' = calls /\ running[r]
             /\ Done(r, "spacetime_to_device")' <=>
                  (Done(r, "spacetime_to_device") \/ <<"spacetime_to_device", 1>> = <<t, p>>)
  BY <1>2, RunOrder DEF Run
<1>3. ASSUME UNCHANGED <<mem, lapse, rate>>, NEW t, NEW p, Run(r, t, p),
             t # "spacetime_to_device"
      PROVE  TwoLapses(r)'
  <2>1. /\ (running'[r] <=> running[r]) /\ calls' = calls
        /\ Done(r, "spacetime_to_device")' <=> Done(r, "spacetime_to_device")
    BY <1>2, <1>3
  <2> QED BY <1>1, <1>3, <2>1 DEF TwoLapses, Spacetime
<1>4. ASSUME NEW p \in Lists, InterpolateMatterTo1D(r, p) PROVE TwoLapses(r)'
  BY <1>3, <1>4 DEF InterpolateMatterTo1D
<1>5. CASE MatterToHost(r) \/ DivideVols(r) \/ IntegrateHypersurface(r)
  BY <1>3, <1>5 DEF MatterToHost, DivideVols, IntegrateHypersurface
<1>6. ASSUME NEW v \in Values, StartReduce(r, v) \/ CheckReduce(r, v)
      PROVE  TwoLapses(r)'
  BY <1>3, <1>6 DEF StartReduce, CheckReduce, start_reduce, finish_reduce
<1>7. CASE LinearSolveForAlpha(r)
  <2>1. /\ Run(r, "lin_solve_for_lapse", 1) /\ UNCHANGED <<lapse, rate>>
        /\ mem' = [mem EXCEPT ![r] = [mem[r] EXCEPT !["mirror"] = Solution(calls[r], hyper[r])]]
    BY <1>1, <1>7 DEF LinearSolveForAlpha
  <2>2. mem[r] \in [Arrays \union {"mirror"} -> LapseType]
    BY <1>1 DEF Types
  <2>3. \A m \in Arrays : mem'[r][m] = mem[r][m]
    BY <1>1, <2>1, <2>2 DEF Types, Arrays
  <2>4. /\ (running'[r] <=> running[r]) /\ calls' = calls
        /\ Done(r, "spacetime_to_device")' <=> Done(r, "spacetime_to_device")
    BY <1>2, <2>1
  <2> QED BY <1>1, <2>1, <2>3, <2>4 DEF TwoLapses, Spacetime, other
<1>8. CASE SpacetimeToDevice(r)
  <2>1. Run(r, "spacetime_to_device", 1) /\ rate' = rate
    BY <1>8 DEF SpacetimeToDevice
  <2>2. /\ mem'[r][lapse'[r]] = mem[r][lapse_h]
        /\ mem'[r][other(lapse'[r])] = mem[r][lapse[r]]
    BY <1>1, <1>8, SwapLapse
  <2>3. Done(r, "lin_solve_for_lapse") /\ ~Done(r, "spacetime_to_device")
    BY <2>1 DEF Run, WaitsFor, Done
  <2>4. mem[r][lapse_h].call = calls[r]
    BY <1>1, <2>3 DEF RankInv, Integrated, Solution
  <2>5. mem[r][lapse[r]].call = calls[r] - 1
    BY <1>1, <1>2, <2>1, <2>3 DEF TwoLapses, Spacetime
  <2>6. calls' = calls /\ Done(r, "spacetime_to_device")'
    BY <1>2, <2>1
  <2> QED BY <1>1, <2>1, <2>2, <2>4, <2>5, <2>6 DEF TwoLapses, Spacetime
<1>9. CASE CheckRateOfChange(r)
  <2>1. Run(r, "check_monopole_dt", 1) /\ mem' = mem /\ lapse' = lapse
    BY <1>9 DEF CheckRateOfChange
  <2>2. Done(r, "spacetime_to_device")
    BY <2>1 DEF Run, WaitsFor, Done
  <2>3. rate'[r] = rate[r] \/ rate'[r] = <<mem[r][lapse[r]].call, mem[r][other(lapse[r])].call>>
    BY <1>1, <1>9 DEF CheckRateOfChange, Types
  <2>4. mem[r][lapse[r]].call = calls[r] /\ mem[r][other(lapse[r])].call = calls[r] - 1
    BY <1>1, <2>2 DEF TwoLapses, Spacetime
  <2>5. rate'[r] # <<>> => rate'[r][1] = rate'[r][2] + 1
    BY <1>1, <2>3, <2>4 DEF TwoLapses
  <2>6. /\ (running'[r] <=> running[r]) /\ calls' = calls
        /\ Done(r, "spacetime_to_device")' <=> Done(r, "spacetime_to_device")
    BY <1>2, <2>1
  <2> QED BY <1>1, <2>1, <2>5, <2>6 DEF TwoLapses, Spacetime
<1>10. CASE RungeKuttaStage(r)
  <2>1. /\ done'[r] = {} /\ mem' = mem /\ lapse' = lapse /\ rate' = rate
        /\ (running'[r] <=> Active(nth[r]))
        /\ Active(nth[r]) => calls'[r] = calls[r] + 1
        /\ ~Active(nth[r]) => calls'[r] = calls[r]
    BY <1>1, <1>10, StageRank
  <2>2. Spacetime(r)
    BY <1>10 DEF RungeKuttaStage, RegionComplete, RegionTasks, FirstList, Spacetime, Done
  <2> QED BY <1>1, <2>1, <2>2 DEF TwoLapses, Spacetime, Done
<1> QED BY <1>4, <1>5, <1>6, <1>7, <1>8, <1>9, <1>10 DEF RankStep

(* The copy of the lapse from the last cycle is one call of the solver     *)
(* older than the present one (SpacetimeToDevice, CheckRateOfChange): on a *)
(* build whose device memory is its own, for any ranks, partitions and     *)
(* calls, the runs that stop the solver included.                          *)
THEOREM LapseKept ==
  ASSUME ~HostBuild PROVE Spec => []LapseOfLastCycle
<1>1. Init => LapseInv
  <2> SUFFICES ASSUME Init, NEW r \in Ranks PROVE TwoLapses(r)
    BY DEF LapseInv
  <2>1. /\ done[r] = {} /\ ~running[r] /\ calls[r] = 0 /\ rate[r] = <<>>
        /\ lapse[r] = "alpha_last"
    BY DEF Init
  <2>2. mem[r]["alpha_last"].call = 0
    BY DEF Init, Arrays, Solution
  <2> QED BY <2>1, <2>2 DEF TwoLapses, Spacetime, Done
<1>2. SolverInv /\ LapseInv /\ [Next]_vars => LapseInv'
  <2> SUFFICES ASSUME SolverInv, LapseInv, [Next]_vars, NEW q \in Ranks
               PROVE  TwoLapses(q)'
    BY DEF LapseInv
  <2>1. ASSUME SameRank(q) PROVE TwoLapses(q)'
    <3>1. \A u : Done(q, u)' <=> Done(q, u)
      BY <2>1 DEF SameRank, Done
    <3>2. TwoLapses(q)
      BY DEF LapseInv
    <3>3. /\ mem'[q] = mem[q] /\ lapse'[q] = lapse[q] /\ rate'[q] = rate[q]
          /\ calls'[q] = calls[q] /\ (running'[q] <=> running[q])
      BY <2>1 DEF SameRank
    <3> QED BY <3>1, <3>2, <3>3 DEF TwoLapses, Spacetime
  <2>2. ASSUME NEW r \in Ranks, RankStep(r) PROVE TwoLapses(q)'
    <3>1. CASE q = r
      BY <2>2, <3>1, LapseInvStep
    <3>2. CASE q # r
      BY <2>1, <2>2, <3>2, OthersKept DEF SolverInv
    <3> QED BY <3>1, <3>2
  <2>3. ASSUME UNCHANGED vars PROVE TwoLapses(q)'
    <3>1. SameRank(q)
      BY <2>3 DEF vars, SameRank
    <3> QED BY <2>1, <3>1
  <2> QED BY <2>2, <2>3 DEF Next, Finish
<1>3. LapseInv => LapseOfLastCycle
  BY DEF LapseInv, TwoLapses, LapseOfLastCycle
<1> QED BY <1>1, <1>2, <1>3, SolverInvariant, PTL DEF Spec

=============================================================================
