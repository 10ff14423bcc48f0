------------------------------ MODULE Monopole ------------------------------
(***************************************************************************)
(* The monopole spacetime solver within the stages of RungeKuttaStage:     *)
(* sync_region_2 and the functions of monopole_gr it runs.                 *)
(*                                                                         *)
(* Matter is summed onto one radial grid by every partition of every rank  *)
(* and reduced; each rank then solves for the same spacetime on its host.  *)
(* The lapse lives in two device arrays that are swapped, and in a host    *)
(* array that is a mirror view: on a build whose device is the host it is  *)
(* the memory of the first device array.                                   *)
(*                                                                         *)
(* Sums are abstracted to the set of what was added, a solution to the     *)
(* call that computed it and the sums it was computed from.                *)
(***************************************************************************)
EXTENDS Integers, Sequences

CONSTANTS
  Ranks,       \* MPI ranks
  NParts,      \* DefaultNumPartitions of every rank
  LastStage,   \* bound: stages since the start
  RunNTimes,   \* monopole_gr/run_n_times, negative: always
  HostBuild    \* device memory is host memory: mirror views alias

ASSUME MonopoleAssumption ==
  /\ NParts \in Nat \ {0} /\ LastStage \in Nat \ {0}
  /\ RunNTimes \in Int /\ HostBuild \in BOOLEAN

VARIABLES
  k,         \* k[r]: stage rank r executes, counted from the start
  nth,       \* nth[r]: nth_call
  running,   \* running[r]: monopole_gr_active of this stage
  done,      \* done[r]: <<task, list>> pairs completed in the region
  cells,     \* cells[r][v]: device sums of v, matter_cells and volumes
  hostSum,   \* hostSum[r][v]: host copies, reduced in place
  sent,      \* sent[r][v]: buffers given to the successive reductions
  matter,    \* matter[r]: matter_h, the sums divided by the volumes
  hyper,     \* hyper[r]: what the hypersurface was integrated from
  mem,       \* mem[r][m]: solution held in lapse memory m
  lapse,     \* lapse[r]: the array that is "lapse"; the other is "lapse_last"
  rate,      \* rate[r]: calls whose lapses CheckRateOfChange compared
  calls      \* history: calls[r], stages in which the solver ran

vars == <<k, nth, running, done, cells, hostSum, sent, matter, hyper, mem,
          lapse, rate, calls>>

Lists == 1 .. NParts
Root == CHOOSE r \in Ranks : TRUE
Values == {"matter", "volumes"}
Arrays == {"alpha", "alpha_last"}
other(m) == IF m = "alpha" THEN "alpha_last" ELSE "alpha"
lapse_h == IF HostBuild THEN "alpha" ELSE "mirror"

Piece(r, p, s) == [rank |-> r, part |-> p, stage |-> s]
AllPieces(s) == [rank : Ranks, part : Lists, stage : {s}]
Solution(n, from) == [call |-> n, from |-> from]
Flat == Solution(-1, {})

----------------------------------------------------------------------------
(* The task graph of the region                                            *)

EachList == {"interp_to_monopole"}
FirstList == {"matter_to_host", "start_reduce_matter", "start_reduce_vols",
              "finish_reduce_matter", "finish_reduce_vols", "divide_vols",
              "integrate_hypersurface", "lin_solve_for_lapse",
              "spacetime_to_device", "check_monopole_dt"}
RegionTasks == (EachList \X Lists) \union (FirstList \X {1})
start_reduce(v) == IF v = "matter" THEN "start_reduce_matter" ELSE "start_reduce_vols"
finish_reduce(v) == IF v = "matter" THEN "finish_reduce_matter" ELSE "finish_reduce_vols"

WaitsForMatterOnly(t) ==
  CASE t = "matter_to_host" -> {"interp_to_monopole"} \X Lists
    [] t \in {"start_reduce_matter", "start_reduce_vols"} ->
         {<<"matter_to_host", 1>>}
    [] t = "finish_reduce_matter" -> {<<"start_reduce_matter", 1>>}
    [] t = "finish_reduce_vols" -> {<<"start_reduce_vols", 1>>}
    [] t = "divide_vols" -> {<<"finish_reduce_matter", 1>>}
    [] t = "integrate_hypersurface" -> {<<"divide_vols", 1>>}
    [] t = "lin_solve_for_lapse" -> {<<"integrate_hypersurface", 1>>}
    [] t = "spacetime_to_device" -> {<<"lin_solve_for_lapse", 1>>}
    [] t = "check_monopole_dt" -> {<<"spacetime_to_device", 1>>}
    [] OTHER -> {}

(* interp_to_monopole is local_sync: the copy to the host waits for every  *)
(* partition.  All other tasks are the first list's.                       *)
WaitsFor(t) ==
  CASE t = "matter_to_host" -> {"interp_to_monopole"} \X Lists
    [] t \in {"start_reduce_matter", "start_reduce_vols"} ->
         {<<"matter_to_host", 1>>}
    [] t = "finish_reduce_matter" -> {<<"start_reduce_matter", 1>>}
    [] t = "finish_reduce_vols" -> {<<"start_reduce_vols", 1>>}
    [] t = "divide_vols" ->
         {<<"finish_reduce_matter", 1>>, <<"finish_reduce_vols", 1>>}
    [] t = "integrate_hypersurface" -> {<<"divide_vols", 1>>}
    [] t = "lin_solve_for_lapse" -> {<<"integrate_hypersurface", 1>>}
    [] t = "spacetime_to_device" -> {<<"lin_solve_for_lapse", 1>>}
    [] t = "check_monopole_dt" -> {<<"spacetime_to_device", 1>>}
    [] OTHER -> {}

Run(r, t, p) ==
  /\ running[r]
  /\ <<t, p>> \in RegionTasks \ done[r]
  /\ WaitsFor(t) \subseteq done[r]
  /\ done' = [done EXCEPT ![r] = @ \union {<<t, p>>}]
  /\ UNCHANGED <<k, nth, running, calls>>

----------------------------------------------------------------------------
(* The tasks                                                               *)

(* Zeroes the arrays all partitions share, then adds the partition's cells *)
InterpolateMatterTo1D(r, p) ==
  /\ Run(r, "interp_to_monopole", p)
  /\ cells' = [cells EXCEPT ![r] = [v \in Values |-> {Piece(r, p, k[r])}]]
  /\ UNCHANGED <<hostSum, sent, matter, hyper, mem, lapse, rate>>

MatterToHost(r) ==
  /\ Run(r, "matter_to_host", 1)
  /\ hostSum' = [hostSum EXCEPT ![r] = cells[r]]
  /\ UNCHANGED <<cells, sent, matter, hyper, mem, lapse, rate>>

StartReduce(r, v) ==
  /\ Run(r, start_reduce(v), 1)
  /\ sent' = [sent EXCEPT ![r][v] = Append(@, hostSum[r][v])]
  /\ UNCHANGED <<cells, hostSum, matter, hyper, mem, lapse, rate>>

CheckReduceOwn(r, v) ==
  /\ Run(r, finish_reduce(v), 1)
  /\ UNCHANGED <<cells, hostSum, sent, matter, hyper, mem, lapse, rate>>

(* Finished once every rank has given its buffer to the reduction *)
CheckReduce(r, v) ==
  LET n == Len(sent[r][v]) IN
  /\ Run(r, finish_reduce(v), 1)
  /\ \A q \in Ranks : Len(sent[q][v]) >= n
  /\ hostSum' = [hostSum EXCEPT ![r][v] = UNION {sent[q][v][n] : q \in Ranks}]
  /\ UNCHANGED <<cells, sent, matter, hyper, mem, lapse, rate>>

DivideVols(r) ==
  /\ Run(r, "divide_vols", 1)
  /\ matter' = [matter EXCEPT ![r] = hostSum[r]]
  /\ UNCHANGED <<cells, hostSum, sent, hyper, mem, lapse, rate>>

IntegrateHypersurface(r) ==
  /\ Run(r, "integrate_hypersurface", 1)
  /\ hyper' = [hyper EXCEPT ![r] = matter[r]]
  /\ UNCHANGED <<cells, hostSum, sent, matter, mem, lapse, rate>>

LinearSolveForAlpha(r) ==
  /\ Run(r, "lin_solve_for_lapse", 1)
  /\ mem' = [mem EXCEPT ![r][lapse_h] = Solution(calls[r], hyper[r])]
  /\ UNCHANGED <<cells, hostSum, sent, matter, hyper, lapse, rate>>

SpacetimeToDeviceNoSwap(r) ==
  /\ Run(r, "spacetime_to_device", 1)
  /\ mem' = [mem EXCEPT ![r][lapse[r]] = mem[r][lapse_h]]
  /\ UNCHANGED <<cells, hostSum, sent, matter, hyper, lapse, rate>>

(* Swaps the two arrays, then copies the host's lapse to the current one *)
SpacetimeToDevice(r) ==
  LET new == other(lapse[r]) IN
  /\ Run(r, "spacetime_to_device", 1)
  /\ lapse' = [lapse EXCEPT ![r] = new]
  /\ mem' = [mem EXCEPT ![r][new] = mem[r][lapse_h]]
  /\ UNCHANGED <<cells, hostSum, sent, matter, hyper, rate>>

(* With warn_on_dt, rank 0 compares the two lapses; other ranks do nothing *)
CheckRateOfChange(r) ==
  /\ Run(r, "check_monopole_dt", 1)
  /\ rate' = IF r = Root
             THEN [rate EXCEPT ![r] = <<mem[r][lapse[r]].call,
                                        mem[r][other(lapse[r])].call>>]
             ELSE rate
  /\ UNCHANGED <<cells, hostSum, sent, matter, hyper, mem, lapse>>

----------------------------------------------------------------------------
(* Stages                                                                  *)

Active(n) == RunNTimes < 0 \/ n <= RunNTimes

RegionComplete(r) == running[r] => done[r] = RegionTasks

RungeKuttaStageRootCounts(r) ==
  /\ k[r] < LastStage /\ RegionComplete(r)
  /\ k' = [k EXCEPT ![r] = @ + 1]
  /\ running' = [running EXCEPT ![r] = Active(nth[r])]
  /\ nth' = IF Active(nth[r]) /\ r = Root
            THEN [nth EXCEPT ![r] = @ + 1] ELSE nth
  /\ calls' = IF Active(nth[r]) THEN [calls EXCEPT ![r] = @ + 1] ELSE calls
  /\ done' = [done EXCEPT ![r] = {}]
  /\ UNCHANGED <<cells, hostSum, sent, matter, hyper, mem, lapse, rate>>

(* Sets up the next stage: counts the call, and skips the region when the  *)
(* solver has run often enough                                             *)
RungeKuttaStage(r) ==
  /\ k[r] < LastStage /\ RegionComplete(r)
  /\ k' = [k EXCEPT ![r] = @ + 1]
  /\ running' = [running EXCEPT ![r] = Active(nth[r])]
  /\ nth' = IF Active(nth[r]) THEN [nth EXCEPT ![r] = @ + 1] ELSE nth
  /\ calls' = IF Active(nth[r]) THEN [calls EXCEPT ![r] = @ + 1] ELSE calls
  /\ done' = [done EXCEPT ![r] = {}]
  /\ UNCHANGED <<cells, hostSum, sent, matter, hyper, mem, lapse, rate>>

Finished == \A r \in Ranks : k[r] = LastStage /\ RegionComplete(r)

Finish == Finished /\ UNCHANGED vars

(* ProcessPackages has solved once for the initial star, call 0 *)
Init ==
  LET star == [v \in Values |-> AllPieces(0)]
      solved == Solution(0, star) IN
  /\ k = [r \in Ranks |-> 0]
  /\ nth = [r \in Ranks |-> 0]
  /\ running = [r \in Ranks |-> FALSE]
  /\ done = [r \in Ranks |-> {}]
  /\ cells = [r \in Ranks |-> [v \in Values |-> {}]]
  /\ hostSum = [r \in Ranks |-> [v \in Values |-> {}]]
  /\ sent = [r \in Ranks |-> [v \in Values |-> <<>>]]
  /\ matter = [r \in Ranks |-> star]
  /\ hyper = [r \in Ranks |-> star]
  /\ mem = [r \in Ranks |->
              [m \in Arrays \union {"mirror"} |->
                 IF m = lapse_h \/ m = "alpha_last" THEN solved ELSE Flat]]
  /\ lapse = [r \in Ranks |-> "alpha_last"]
  /\ rate = [r \in Ranks |-> <<>>]
  /\ calls = [r \in Ranks |-> 0]

RankStep(r) ==
  \/ \E p \in Lists : InterpolateMatterTo1D(r, p)
  \/ MatterToHost(r)
  \/ \E v \in Values : StartReduce(r, v) \/ CheckReduce(r, v)
  \/ DivideVols(r) \/ IntegrateHypersurface(r) \/ LinearSolveForAlpha(r)
  \/ SpacetimeToDevice(r) \/ CheckRateOfChange(r)
  \/ RungeKuttaStage(r)

Next == (\E r \in Ranks : RankStep(r)) \/ Finish

(* Ranks keep polling their task lists *)
Fairness == \A r \in Ranks : WF_vars(RankStep(r))

Spec == Init /\ [][Next]_vars /\ Fairness

----------------------------------------------------------------------------
(* Properties                                                              *)

Solved(r) == running[r] /\ <<"spacetime_to_device", 1>> \in done[r]

(* The spacetime of a stage is solved for all the matter of that stage,    *)
(* and the matter is divided by the volumes it was summed over.            *)
WholeStar ==
  \A r \in Ranks : Solved(r) =>
    mem[r][lapse[r]].from = [v \in Values |-> AllPieces(k[r])]

(* Every rank solves on its own and ends up with the same spacetime, also  *)
(* when the solver has stopped.                                            *)
SameSpacetime ==
  \A r, q \in Ranks :
    (k[r] = k[q] /\ RegionComplete(r) /\ RegionComplete(q)) =>
      mem[r][lapse[r]] = mem[q][lapse[q]]

(* The rate of change of the lapse is taken between this solution and the  *)
(* one before (monopole_gr.cpp: "Keep two copies of alpha around... one    *)
(* from this cycle and one from the last").                                *)
LapseOfLastCycle ==
  \A r \in Ranks : rate[r] # <<>> => rate[r][1] = rate[r][2] + 1

(* No rank waits for a reduction that another rank, having stopped the     *)
(* solver, never starts.                                                   *)
StagesComplete == <>Finished

=============================================================================
