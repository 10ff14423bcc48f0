------------------------------ MODULE MCRKStage ------------------------------
(* Instances of RKStage for model checking.                                *)
EXTENDS RKStageStates, TLC

CONSTANTS r1, r2, b1, b2, b3

(* Two ranks: b1 on r1 is coarse, its neighbours b2 and b3 on r2 are fine  *)
AmrBlocks == {b1, b2, b3}
AmrRankOf == b1 :> r1 @@ b2 :> r2 @@ b3 :> r2
AmrPartitions == {{b1}, {b2, b3}}
AmrNeighbors == b1 :> {b2, b3} @@ b2 :> {b1, b3} @@ b3 :> {b1, b2}
AmrFiner == b1 :> {b2, b3} @@ b2 :> {} @@ b3 :> {}

(* One rank, two partitions of one block *)
PairBlocks == {b1, b2}
PairRankOf == b1 :> r1 @@ b2 :> r1
PairPartitions == {{b1}, {b2}}
PairNeighbors == b1 :> {b2} @@ b2 :> {b1}
PairFiner == b1 :> {} @@ b2 :> {}

(* Two ranks with a block each, b2 finer than b1 *)
TwoRankOf == b1 :> r1 @@ b2 :> r2
TwoFiner == b1 :> {b2} @@ b2 :> {}

=============================================================================
