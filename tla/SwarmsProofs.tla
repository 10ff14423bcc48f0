---------------------------- MODULE SwarmsProofs -----------------------------
(* Swarms carries out what ParticleStep promises, for Monte Carlo and      *)
(* tracers, any number of blocks, ranks, particles and steps, and every    *)
(* order of the task lists: particles are neither lost nor doubled on      *)
(* their way between blocks, and none is advanced twice or not at all.     *)
(* MOCMC, whose ranks do not meet between the stages they move samples in, *)
(* is here for its reconstruction only.                                    *)
EXTENDS Swarms, TLAPS, SequenceTheorems, FiniteSetTheorems

(* Time for the provers on a machine with other work to do *)
USE SMTT(20), ZenonT(40)

----------------------------------------------------------------------------
(* The lists that move, send and receive the particles of a block          *)

ResetAlone(r) == PerRank(1, r, <<"ResetCommunication">>)
Tune3(r) == PerRank(3, r, Tuning)
Force4(r) == PerRank(4, r, <<"ApplyRadiationFourForce">>)
Packets(b) == PerBlock(2, b, <<"SourceParticles", "Transport", "Send", "Receive">>)
Advection(r) == PerRank(1, r, <<"ResetCommunication", "AdvectTracers", "PurgeParticles", "Send",
                                "Receive", "Defrag">>)
Samples(n, r) ==
  PerRank(2 * n - 1, r, <<"ResetCommunication", "MOCMCTransport", "Send", "Receive">>)
Grid(n, r) == PerRank(2 * n - 1, r, <<"SampleBoundaries", "Reconstruction", "Eddington">>)
Source(n, r) == PerRank(2 * n, r, <<"FluidSource", "Eddington">>)

MC == set.method = "monte_carlo"
Mover(b) == IF MC THEN Packets(b) ELSE Advection(RankOf[b])
Resetter(b) == IF MC THEN ResetAlone(RankOf[b]) ELSE Mover(b)
SendAt == IF set.method = "tracers" THEN 4 ELSE 3

(* How far a block is in the step                                          *)
WasReset(b) == at[Resetter(b)] > 1
Moved(b) == at[Mover(b)] > 2
Sent(b) == at[Mover(b)] > SendAt
Received(b) == at[Mover(b)] > SendAt + 1

OneOfThree == set.method \in {"monte_carlo", "tracers", "mocmc"}
Lined ==
  /\ OneOfThree
  /\ round \in Nat \ {0} /\ region \in [Ranks -> Nat \ {0}] /\ at \in [Lists -> Nat \ {0}]
  /\ \A l \in Lists : /\ region[l.rank] < l.region => at[l] = 1
                      /\ region[l.rank] > l.region => at[l] > Len(l.chain)
(* ... and ranks meet after all that particles do *)
Ordered == Lined /\ set.method # "mocmc"

LEMMA MethodLists ==
  ASSUME OneOfThree, NEW l \in Lists
  PROVE  /\ l.rank \in Ranks /\ l.blocks \subseteq BlocksOf(l.rank)
         /\ \/ /\ MC
               /\ \/ \E r \in Ranks : l = ResetAlone(r) \/ l = Tune3(r) \/ l = Force4(r)
                  \/ \E b \in Blocks : l = Packets(b)
            \/ /\ set.method = "tracers"
               /\ \E r \in Ranks : l = Advection(r)
            \/ /\ set.method = "mocmc"
               /\ \E n \in 1 .. NStages, r \in Ranks :
                    l = Samples(n, r) \/ l = Grid(n, r) \/ l = Source(n, r)
<1>1. CASE MC
  <2>1. l \in MonteCarloStep
    BY <1>1 DEF MC, Lists
  <2>2. \/ \E r \in Ranks : l = ResetAlone(r) \/ l = Tune3(r) \/ l = Force4(r)
        \/ \E b \in Blocks : l = Packets(b)
    BY <2>1 DEF MonteCarloStep, ResetAlone, Tune3, Force4, Packets
  <2>3. CASE \E r \in Ranks : l = ResetAlone(r) \/ l = Tune3(r) \/ l = Force4(r)
    <3>1. PICK r \in Ranks : l = ResetAlone(r) \/ l = Tune3(r) \/ l = Force4(r)
      BY <2>3
    <3>2. l.rank = r /\ l.blocks = BlocksOf(r)
      BY <3>1 DEF ResetAlone, Tune3, Force4, PerRank
    <3> QED BY <1>1, <2>3, <3>2
  <2>4. CASE \E b \in Blocks : l = Packets(b)
    <3>1. PICK b \in Blocks : l = Packets(b)
      BY <2>4
    <3>2. l.rank = RankOf[b] /\ l.blocks = {b}
      BY <3>1 DEF Packets, PerBlock
    <3> QED BY <1>1, <2>4, <3>2 DEF BlocksOf, Ranks
  <2> QED BY <2>2, <2>3, <2>4
<1>2. CASE set.method = "tracers"
  <2>1. l \in TracerRegion
    BY <1>2 DEF Lists
  <2>2. \E r \in Ranks : l = Advection(r)
    BY <2>1 DEF TracerRegion, Advection
  <2>3. PICK r \in Ranks : l = Advection(r)
    BY <2>2
  <2>4. l.rank = r /\ l.blocks = BlocksOf(r)
    BY <2>3 DEF Advection, PerRank
  <2> QED BY <1>2, <2>2, <2>4
<1>3. CASE set.method = "mocmc"
  <2>1. l \in MocmcRegions
    BY <1>3 DEF Lists
  <2>2. PICK n \in 1 .. NStages : l \in MocmcStage(n)
    BY <2>1 DEF MocmcRegions
  <2>3. \E r \in Ranks : l = Samples(n, r) \/ l = Grid(n, r) \/ l = Source(n, r)
    BY <2>2 DEF MocmcStage, Samples, Grid, Source
  <2>4. PICK r \in Ranks : l = Samples(n, r) \/ l = Grid(n, r) \/ l = Source(n, r)
    BY <2>3
  <2>5. l.rank = r /\ l.blocks = BlocksOf(r)
    BY <2>4 DEF Samples, Grid, Source, PerRank
  <2> QED BY <1>3, <2>3, <2>5
<1> QED BY <1>1, <1>2, <1>3 DEF OneOfThree, MC

LEMMA OneMethod ==
  ASSUME Ordered, NEW l \in Lists
  PROVE  /\ l.rank \in Ranks /\ l.blocks \subseteq BlocksOf(l.rank)
         /\ \/ /\ MC
               /\ \/ \E r \in Ranks : l = ResetAlone(r) \/ l = Tune3(r) \/ l = Force4(r)
                  \/ \E b \in Blocks : l = Packets(b)
            \/ /\ set.method = "tracers"
               /\ \E r \in Ranks : l = Advection(r)
BY MethodLists DEF Ordered, Lined

LEMMA Movers ==
  ASSUME Ordered, NEW b \in Blocks
  PROVE  /\ Mover(b) \in Lists /\ Resetter(b) \in Lists /\ b \in Mover(b).blocks
         /\ b \in Resetter(b).blocks
         /\ Mover(b).rank = RankOf[b] /\ RankOf[b] \in Ranks
         /\ Resetter(b).rank = RankOf[b] /\ Resetter(b).region = 1
         /\ Mover(b).region = IF MC THEN 2 ELSE 1
         /\ \A c \in Mover(b).blocks : c \in Blocks /\ Mover(c) = Mover(b)
         /\ \A c \in Resetter(b).blocks : c \in Blocks /\ Resetter(c) = Resetter(b)
<1>1. RankOf[b] \in Ranks
  BY DEF Ranks
<1>2. CASE MC
  <2>1. Mover(b) = Packets(b) /\ Resetter(b) = ResetAlone(RankOf[b])
        /\ Lists = MonteCarloStep
    BY <1>2 DEF Mover, Resetter, Lists, MC
  <2>2. Mover(b) \in Lists /\ Resetter(b) \in Lists
    BY <1>1, <2>1 DEF MonteCarloStep, Packets, ResetAlone
  <2>3. /\ Mover(b).rank = RankOf[b] /\ Mover(b).region = 2 /\ Mover(b).blocks = {b}
        /\ Resetter(b).rank = RankOf[b] /\ Resetter(b).region = 1
        /\ Resetter(b).blocks = BlocksOf(RankOf[b])
    BY <2>1 DEF Packets, ResetAlone, PerRank, PerBlock
  <2>4. \A c \in BlocksOf(RankOf[b]) : c \in Blocks /\ Resetter(c) = Resetter(b)
    BY <1>2 DEF BlocksOf, Resetter
  <2>5. b \in BlocksOf(RankOf[b])
    BY DEF BlocksOf
  <2> QED BY <1>1, <1>2, <2>2, <2>3, <2>4, <2>5
<1>3. CASE set.method = "tracers"
  <2>1. Mover(b) = Advection(RankOf[b]) /\ Resetter(b) = Mover(b) /\ Lists = TracerRegion /\ ~MC
    BY <1>3 DEF Mover, Resetter, Lists, MC
  <2>2. Mover(b) \in Lists
    BY <1>1, <2>1 DEF TracerRegion, Advection
  <2> QED BY <1>1, <1>3, <2>1, <2>2 DEF Advection, PerRank, BlocksOf, Mover, Resetter
<1> QED BY <1>2, <1>3 DEF Ordered, Lined, OneOfThree, MC

(* Which list a task belongs to, and how far the list has come.            *)
LEMMA ChainOf ==
  ASSUME Ordered, NEW l \in Lists, NEW task, Pending(l, task)
  PROVE  /\ at[l] \in Nat \ {0} /\ at[l] <= Len(l.chain) /\ task = l.chain[at[l]]
         /\ region[l.rank] = l.region /\ round <= NRounds
BY SwarmsAssumption DEF Over, Pending, Ordered, Lined

LEMMA MoverTask ==
  ASSUME Ordered, NEW b \in Blocks, NEW task, Pending(Mover(b), task)
  PROVE  LET n == at[Mover(b)] IN
         /\ n = 1 => task = IF MC THEN "SourceParticles" ELSE "ResetCommunication"
         /\ n = 2 => task \in {"Transport", "AdvectTracers"}
         /\ n = 3 /\ set.method = "tracers" => task = "PurgeParticles"
         /\ n = SendAt => task = "Send"
         /\ n = SendAt + 1 => task = "Receive"
         /\ n = SendAt + 2 => task = "Defrag"
         /\ n \in 1 .. SendAt + 2
         /\ MC => n <= 4
<1>1. Mover(b) \in Lists
  BY Movers
<1> DEFINE n == at[Mover(b)]
<1>2. n \in Nat \ {0} /\ n <= Len(Mover(b).chain) /\ task = Mover(b).chain[n]
  BY <1>1, ChainOf
<1> HIDE DEF n
<1>3. CASE MC
  <2>1. Mover(b).chain = <<"SourceParticles", "Transport", "Send", "Receive">> /\ SendAt = 3
    BY <1>3 DEF Mover, Packets, PerBlock, MC, SendAt
  <2>2. n \in {1, 2, 3, 4}
    BY <1>2, <2>1
  <2>3. set.method # "tracers"
    BY <1>3 DEF MC
  <2> QED BY <1>2, <1>3, <2>1, <2>2, <2>3 DEF n
<1>4. CASE set.method = "tracers"
  <2>1. Mover(b).chain = <<"ResetCommunication", "AdvectTracers", "PurgeParticles", "Send",
                           "Receive", "Defrag">> /\ SendAt = 4 /\ ~MC
    BY <1>4 DEF Mover, Advection, PerRank, MC, SendAt
  <2>2. n \in {1, 2, 3, 4, 5, 6}
    BY <1>2, <2>1
  <2> QED BY <1>2, <1>4, <2>1, <2>2 DEF n
<1> QED BY <1>3, <1>4 DEF Ordered, Lined, OneOfThree, MC

(* The tasks that move, send, receive and forget particles run in the      *)
(* lists that are named after them only.                                   *)
LEMMA TaskOfMover ==
  ASSUME Ordered, NEW l \in Lists, NEW task, Pending(l, task),
         task \in {"Transport", "AdvectTracers", "MOCMCTransport", "SourceParticles",
                   "PurgeParticles", "Send", "Receive"}
  PROVE  /\ l.blocks \subseteq Blocks /\ \A b \in Blocks : b \in l.blocks <=> Mover(b) = l
         /\ task \in {"Transport", "SourceParticles"} => MC
         /\ MC => \E b \in Blocks : l.blocks = {b}
         /\ \E b \in Blocks : Mover(b) = l
<1>1. /\ at[l] \in Nat \ {0} /\ at[l] <= Len(l.chain) /\ task = l.chain[at[l]]
  BY ChainOf
<1> DEFINE n == at[l]
<1> HIDE DEF n
<1>2. CASE MC
  <2>1. ASSUME NEW r \in Ranks, l = ResetAlone(r) PROVE FALSE
    <3>1. l.chain = <<"ResetCommunication">>
      BY <2>1 DEF ResetAlone, PerRank
    <3>2. n = 1
      BY <1>1, <3>1 DEF n
    <3> QED BY <1>1, <3>1, <3>2 DEF n
  <2>2. ASSUME NEW r \in Ranks, l = Tune3(r) PROVE FALSE
    <3>1. l.chain = <<"UpdateParticleResolution", "TotalEmissivity", "StartReduce", "CheckReduce",
                      "UpdateTuning">>
      BY <2>2 DEF Tune3, PerRank, Tuning
    <3>2. n \in {1, 2, 3, 4, 5}
      BY <1>1, <3>1 DEF n
    <3> QED BY <1>1, <3>1, <3>2 DEF n
  <2>3. ASSUME NEW r \in Ranks, l = Force4(r) PROVE FALSE
    <3>1. l.chain = <<"ApplyRadiationFourForce">>
      BY <2>3 DEF Force4, PerRank
    <3>2. n = 1
      BY <1>1, <3>1 DEF n
    <3> QED BY <1>1, <3>1, <3>2 DEF n
  <2>4. PICK b \in Blocks : l = Packets(b)
    BY <1>2, <2>1, <2>2, <2>3, OneMethod DEF MC
  <2>5. l.blocks = {b} /\ \A c \in Blocks : Mover(c) = Packets(c) /\ Mover(c).blocks = {c}
    BY <1>2, <2>4 DEF Packets, PerBlock, Mover
  <2> QED BY <1>2, <2>4, <2>5
<1>3. CASE set.method = "tracers"
  <2>1. ~MC
    BY <1>3 DEF MC
  <2>2. PICK r \in Ranks : l = Advection(r)
    BY <1>3, <2>1, OneMethod
  <2>3. /\ l.blocks = BlocksOf(r) /\ l.rank = r
        /\ l.chain = <<"ResetCommunication", "AdvectTracers", "PurgeParticles", "Send",
                       "Receive", "Defrag">>
    BY <2>2 DEF Advection, PerRank
  <2>4. n \in {1, 2, 3, 4, 5, 6}
    BY <1>1, <2>3 DEF n
  <2>5. task \notin {"Transport", "SourceParticles"}
    BY <1>1, <2>3, <2>4 DEF n
  <2>6. \A b \in Blocks : Mover(b) = Advection(RankOf[b]) /\ Mover(b).rank = RankOf[b]
    BY <1>3, <2>1 DEF Mover, Advection, PerRank
  <2>7. \A b \in Blocks : b \in l.blocks <=> Mover(b) = l
    BY <2>2, <2>3, <2>6 DEF BlocksOf
  <2>8. \E b \in Blocks : Mover(b) = l
    BY <2>2, <2>6 DEF Ranks
  <2> QED BY <2>1, <2>3, <2>5, <2>7, <2>8 DEF BlocksOf
<1> QED BY <1>2, <1>3 DEF Ordered, Lined, OneOfThree, MC

LEMMA TaskOfResetter ==
  ASSUME Ordered, NEW l \in Lists, Pending(l, "ResetCommunication")
  PROVE  /\ l.blocks = BlocksOf(l.rank) /\ at[l] = 1
         /\ region[l.rank] = 1
         /\ \A b \in Blocks : b \in l.blocks <=> Resetter(b) = l
<1>1. /\ at[l] \in Nat \ {0} /\ at[l] <= Len(l.chain) /\ "ResetCommunication" = l.chain[at[l]]
      /\ region[l.rank] = l.region
  BY ChainOf
<1> DEFINE n == at[l]
<1> HIDE DEF n
<1>2. CASE MC
  <2>1. ASSUME NEW r \in Ranks, l = Tune3(r) PROVE FALSE
    <3>1. l.chain = <<"UpdateParticleResolution", "TotalEmissivity", "StartReduce", "CheckReduce",
                      "UpdateTuning">>
      BY <2>1 DEF Tune3, PerRank, Tuning
    <3>2. n \in {1, 2, 3, 4, 5}
      BY <1>1, <3>1 DEF n
    <3> QED BY <1>1, <3>1, <3>2 DEF n
  <2>2. ASSUME NEW r \in Ranks, l = Force4(r) PROVE FALSE
    <3>1. l.chain = <<"ApplyRadiationFourForce">>
      BY <2>2 DEF Force4, PerRank
    <3>2. n = 1
      BY <1>1, <3>1 DEF n
    <3> QED BY <1>1, <3>1, <3>2 DEF n
  <2>3. ASSUME NEW b \in Blocks, l = Packets(b) PROVE FALSE
    <3>1. l.chain = <<"SourceParticles", "Transport", "Send", "Receive">>
      BY <2>3 DEF Packets, PerBlock
    <3>2. n \in {1, 2, 3, 4}
      BY <1>1, <3>1 DEF n
    <3> QED BY <1>1, <3>1, <3>2 DEF n
  <2>4. PICK r \in Ranks : l = ResetAlone(r)
    BY <1>2, <2>1, <2>2, <2>3, OneMethod DEF MC
  <2>5. l.blocks = BlocksOf(r) /\ l.rank = r /\ l.region = 1 /\ Len(l.chain) = 1
    BY <2>4 DEF ResetAlone, PerRank
  <2>6. \A b \in Blocks : Resetter(b) = ResetAlone(RankOf[b]) /\ Resetter(b).rank = RankOf[b]
    BY <1>2 DEF Resetter, ResetAlone, PerRank
  <2> QED BY <1>1, <2>4, <2>5, <2>6 DEF BlocksOf
<1>3. CASE set.method = "tracers"
  <2>1. ~MC
    BY <1>3 DEF MC
  <2>2. PICK r \in Ranks : l = Advection(r)
    BY <1>3, <2>1, OneMethod
  <2>3. /\ l.blocks = BlocksOf(r) /\ l.rank = r /\ l.region = 1
        /\ l.chain = <<"ResetCommunication", "AdvectTracers", "PurgeParticles", "Send",
                       "Receive", "Defrag">>
    BY <2>2 DEF Advection, PerRank
  <2>4. n \in {1, 2, 3, 4, 5, 6}
    BY <1>1, <2>3 DEF n
  <2>5. n = 1
    BY <1>1, <2>3, <2>4 DEF n
  <2>6. \A b \in Blocks : Resetter(b) = Advection(RankOf[b]) /\ Resetter(b).rank = RankOf[b]
    BY <1>3, <2>1 DEF Mover, Resetter, Advection, PerRank
  <2> QED BY <1>1, <2>2, <2>3, <2>5, <2>6 DEF BlocksOf, n
<1> QED BY <1>2, <1>3 DEF Ordered, Lined, OneOfThree, MC

Moves == {"Transport", "AdvectTracers", "MOCMCTransport"}

(* What a task finds done of the blocks it works on.                       *)
LEMMA Before ==
  ASSUME Ordered, NEW l \in Lists, NEW task, Pending(l, task), NEW b \in l.blocks
  PROVE  /\ task \in Moves => b \in Blocks /\ ~Moved(b) /\ ~Sent(b)
         /\ task = "SourceParticles" => b \in Blocks /\ ~Moved(b)
         /\ task = "Send" => b \in Blocks /\ Moved(b) /\ ~Sent(b)
         /\ task = "Receive" => b \in Blocks /\ Sent(b) /\ WasReset(b)
         /\ task = "ResetCommunication" =>
              \A a \in Blocks : RankOf[a] = RankOf[b] => ~Sent(a)
<1>1. ASSUME task \in Moves \union {"SourceParticles", "Send", "Receive"}
      PROVE  /\ task \in Moves => b \in Blocks /\ ~Moved(b) /\ ~Sent(b)
             /\ task = "SourceParticles" => b \in Blocks /\ ~Moved(b)
             /\ task = "Send" => b \in Blocks /\ Moved(b) /\ ~Sent(b)
             /\ task = "Receive" => b \in Blocks /\ Sent(b) /\ WasReset(b)
  <2>1. b \in Blocks /\ l = Mover(b)
    BY <1>1, TaskOfMover DEF Moves
  <2> DEFINE n == at[Mover(b)]
  <2>2. /\ n = 1 => task = IF MC THEN "SourceParticles" ELSE "ResetCommunication"
        /\ n = 2 => task \in Moves
        /\ n = 3 /\ set.method = "tracers" => task = "PurgeParticles"
        /\ n = SendAt => task = "Send"
        /\ n = SendAt + 1 => task = "Receive"
        /\ n = SendAt + 2 => task = "Defrag"
        /\ n \in 1 .. SendAt + 2
    BY <2>1, MoverTask DEF Moves
  <2>3. SendAt = IF set.method = "tracers" THEN 4 ELSE 3
    BY DEF SendAt
  <2>4. WasReset(b) \/ n = 1
    <3>1. CASE MC
      <4>1. region[l.rank] = 2 /\ l.rank = RankOf[b]
        BY <2>1, <3>1, ChainOf, Movers
      <4>2. at[Resetter(b)] > Len(Resetter(b).chain)
        BY <2>1, <4>1, Movers DEF Ordered, Lined
      <4>3. Resetter(b).chain = <<"ResetCommunication">>
        BY <3>1 DEF Resetter, ResetAlone, PerRank
      <4>4. at[Resetter(b)] \in Nat
        BY <2>1, Movers DEF Ordered, Lined
      <4> QED BY <4>2, <4>3, <4>4 DEF WasReset
    <3>2. CASE ~MC
      BY <2>2, <3>2 DEF WasReset, Resetter
    <3> QED BY <3>1, <3>2
  <2> HIDE DEF n
  <2>5. /\ task \in Moves => n = 2
        /\ task = "SourceParticles" => n = 1
        /\ task = "Send" => n = SendAt
        /\ task = "Receive" => n = SendAt + 1
    BY <2>2, <2>3 DEF Moves
  <2> QED BY <2>1, <2>3, <2>4, <2>5 DEF Moved, Sent, n, Moves
<1>2. ASSUME task = "ResetCommunication", NEW a \in Blocks, RankOf[a] = RankOf[b]
      PROVE  ~Sent(a)
  <2>1. /\ l.blocks = BlocksOf(l.rank) /\ at[l] = 1 /\ region[l.rank] = 1
        /\ \A c \in Blocks : c \in l.blocks <=> Resetter(c) = l
    BY <1>2, TaskOfResetter
  <2>2. b \in Blocks /\ RankOf[b] = l.rank /\ a \in l.blocks
    BY <1>2, <2>1 DEF BlocksOf
  <2>3. CASE MC
    <3>1. Mover(a) \in Lists /\ Mover(a).rank = l.rank /\ Mover(a).region = 2
      BY <1>2, <2>2, <2>3, Movers
    <3>2. at[Mover(a)] = 1
      BY <2>1, <3>1 DEF Ordered, Lined
    <3> QED BY <3>2 DEF Sent, SendAt
  <2>4. CASE ~MC
    BY <2>1, <2>2, <2>4 DEF Resetter, Sent, SendAt
  <2> QED BY <2>3, <2>4
<1> QED BY <1>1, <1>2 DEF Moves

(* What it leaves done.                                                    *)
LEMMA After ==
  ASSUME Ordered, NEW l \in Lists, NEW task, Run(l, task), NEW b \in Blocks
  PROVE  /\ WasReset(b)' <=> WasReset(b) \/ (task = "ResetCommunication" /\ b \in l.blocks)
         /\ Moved(b)' <=> Moved(b) \/ (task \in Moves /\ b \in l.blocks)
         /\ Sent(b)' <=> Sent(b) \/ (task = "Send" /\ b \in l.blocks)
         /\ Received(b)' <=> Received(b) \/ (task = "Receive" /\ b \in l.blocks)
<1>1. Pending(l, task) /\ at' = [at EXCEPT ![l] = @ + 1] /\ set' = set
  BY DEF Run
<1>2. /\ Mover(b) \in Lists /\ Resetter(b) \in Lists
      /\ Mover(b)' = Mover(b) /\ Resetter(b)' = Resetter(b) /\ SendAt' = SendAt
  BY <1>1, Movers DEF Mover, Resetter, SendAt, MC
<1>3. \A k \in Lists : at'[k] = IF k = l THEN at[k] + 1 ELSE at[k]
  BY <1>1 DEF Ordered, Lined
<1>4. SendAt \in {3, 4} /\ at[Mover(b)] \in Nat \ {0} /\ at[Resetter(b)] \in Nat \ {0}
  BY <1>2 DEF SendAt, Ordered, Lined
<1> DEFINE n == at[Mover(b)]
           m == at[Mover(b)]'
<1>5. /\ Moved(b)' <=> m > 2
      /\ Sent(b)' <=> m > SendAt
      /\ Received(b)' <=> m > SendAt + 1
      /\ Moved(b) <=> n > 2
      /\ Sent(b) <=> n > SendAt
      /\ Received(b) <=> n > SendAt + 1
  BY <1>2 DEF Moved, Sent, Received
<1>6. ASSUME l # Mover(b)
      PROVE  /\ Moved(b)' <=> Moved(b) \/ (task \in Moves /\ b \in l.blocks)
             /\ Sent(b)' <=> Sent(b) \/ (task = "Send" /\ b \in l.blocks)
             /\ Received(b)' <=> Received(b) \/ (task = "Receive" /\ b \in l.blocks)
  <2>1. m = n
    BY <1>2, <1>3, <1>6
  <2>2. task \in Moves \union {"Send", "Receive"} => b \notin l.blocks
    BY <1>1, <1>6, TaskOfMover DEF Moves
  <2> QED BY <1>5, <2>1, <2>2
<1>7. ASSUME l = Mover(b)
      PROVE  /\ Moved(b)' <=> Moved(b) \/ (task \in Moves /\ b \in l.blocks)
             /\ Sent(b)' <=> Sent(b) \/ (task = "Send" /\ b \in l.blocks)
             /\ Received(b)' <=> Received(b) \/ (task = "Receive" /\ b \in l.blocks)
  <2>1. m = n + 1
    BY <1>2, <1>3, <1>7
  <2>2. /\ n = 1 => task = IF MC THEN "SourceParticles" ELSE "ResetCommunication"
        /\ n = 2 => task \in Moves
        /\ n = 3 /\ set.method = "tracers" => task = "PurgeParticles"
        /\ n = SendAt => task = "Send"
        /\ n = SendAt + 1 => task = "Receive"
        /\ n = SendAt + 2 => task = "Defrag"
        /\ n \in 1 .. SendAt + 2
    BY <1>1, <1>7, MoverTask DEF Moves
  <2>3. SendAt = IF set.method = "tracers" THEN 4 ELSE 3
    BY DEF SendAt
  <2>4. b \in l.blocks
    BY <1>7, Movers
  <2> HIDE DEF n, m
  <2>5. /\ task \in Moves <=> n = 2
        /\ task = "Send" <=> n = SendAt
        /\ task = "Receive" <=> n = SendAt + 1
        /\ n \in Nat
    BY <2>2, <2>3 DEF Moves
  <2> QED BY <1>4, <1>5, <2>1, <2>4, <2>5
<1>8. WasReset(b)' <=> WasReset(b) \/ (task = "ResetCommunication" /\ b \in l.blocks)
  <2>1. WasReset(b)' <=> at'[Resetter(b)] > 1
    BY <1>2 DEF WasReset
  <2>2. CASE l # Resetter(b)
    <3>1. task = "ResetCommunication" => b \notin l.blocks
      BY <1>1, <2>2, TaskOfResetter
    <3> QED BY <1>2, <1>3, <2>1, <2>2, <3>1 DEF WasReset
  <2>3. CASE l = Resetter(b)
    <3>1. b \in l.blocks /\ at'[l] = at[l] + 1
      BY <1>2, <1>3, <2>3, Movers
    <3>2. at[l] = 1 => task = "ResetCommunication"
      <4>1. CASE MC
        <5>1. l.chain = <<"ResetCommunication">>
          BY <2>3, <4>1 DEF Resetter, ResetAlone, PerRank
        <5> QED BY <1>1, <5>1, ChainOf
      <4>2. CASE ~MC
        <5>1. l = Mover(b)
          BY <2>3, <4>2 DEF Resetter
        <5> QED BY <1>1, <4>2, <5>1, MoverTask
      <4> QED BY <4>1, <4>2
    <3> QED BY <1>4, <2>1, <2>3, <3>1, <3>2 DEF WasReset
  <2> QED BY <2>2, <2>3
<1> QED BY <1>6, <1>7, <1>8

----------------------------------------------------------------------------
(* The order of lists and regions                                          *)

LEMMA Regions == ASSUME OneOfThree, NEW l \in Lists PROVE l.region \in Nat \ {0}
<1>1. CASE \E r \in Ranks : \/ l = ResetAlone(r) \/ l = Tune3(r) \/ l = Force4(r)
                            \/ l = Advection(r)
  BY <1>1 DEF ResetAlone, Tune3, Force4, Advection, PerRank
<1>2. CASE \E b \in Blocks : l = Packets(b)
  BY <1>2 DEF Packets, PerBlock
<1>3. ASSUME NEW n \in 1 .. NStages, NEW r \in Ranks,
             l = Samples(n, r) \/ l = Grid(n, r) \/ l = Source(n, r)
      PROVE  l.region \in Nat \ {0}
  <2>1. l.region = 2 * n - 1 \/ l.region = 2 * n
    BY <1>3 DEF Samples, Grid, Source, PerRank
  <2>2. n \in Nat /\ n >= 1
    BY SwarmsAssumption
  <2> QED BY <2>1, <2>2
<1> QED BY <1>1, <1>2, <1>3, MethodLists

LEMMA RunLined ==
  ASSUME Lined, NEW l \in Lists, NEW task, Run(l, task) PROVE Lined'
<1>1. /\ Pending(l, task) /\ at' = [at EXCEPT ![l] = @ + 1] /\ set' = set
      /\ round' = round /\ region' = region
  BY DEF Run
<1>2. Lists' = Lists
  BY <1>1 DEF Lists
<1>3. region[l.rank] = l.region /\ at[l] \in Nat \ {0}
  BY <1>1 DEF Over, Pending, Lined
<1>4. at' \in [Lists -> Nat \ {0}]
  BY <1>1, <1>3 DEF Lined
<1>5. ASSUME NEW k \in Lists
      PROVE  /\ region[k.rank] < k.region => at'[k] = 1
             /\ region[k.rank] > k.region => at'[k] > Len(k.chain)
  <2>1. CASE k = l
    <3>1. region[k.rank] = k.region /\ k.region \in Int
      BY <1>3, <2>1, Regions DEF Lined
    <3> QED BY <3>1
  <2>2. CASE k # l
    BY <1>1, <2>2 DEF Lined
  <2> QED BY <2>1, <2>2
<1> QED BY <1>1, <1>2, <1>4, <1>5 DEF Lined, OneOfThree

LEMMA RegionLined ==
  ASSUME Lined, NEW r \in Ranks, RegionComplete(r) PROVE Lined'
<1>1. /\ Completed(r) /\ region' = [region EXCEPT ![r] = @ + 1]
      /\ set' = set /\ round' = round /\ at' = at
  BY DEF RegionComplete
<1>2. Lists' = Lists
  BY <1>1 DEF Lists
<1>3. region' \in [Ranks -> Nat \ {0}] /\ region[r] \in Nat
      /\ \A q \in Ranks : region'[q] = IF q = r THEN region[q] + 1 ELSE region[q]
  BY <1>1 DEF Lined
<1>4. ASSUME NEW k \in Lists
      PROVE  /\ region'[k.rank] < k.region => at[k] = 1
             /\ region'[k.rank] > k.region => at[k] > Len(k.chain)
  <2>1. k.rank \in Ranks /\ k.region \in Int
    BY MethodLists, Regions DEF Lined
  <2>2. /\ region[k.rank] < k.region => at[k] = 1
        /\ region[k.rank] > k.region => at[k] > Len(k.chain)
    BY DEF Lined
  <2>3. CASE k.rank = r
    <3>1. region[r] = k.region => at[k] > Len(k.chain)
      BY <1>1, <2>3 DEF Completed, Here
    <3> QED BY <1>3, <2>1, <2>2, <2>3, <3>1
  <2>4. CASE k.rank # r
    BY <1>3, <2>1, <2>2, <2>4
  <2> QED BY <2>3, <2>4
<1> QED BY <1>1, <1>2, <1>3, <1>4 DEF Lined, OneOfThree

LEMMA EndLined == ASSUME Lined, EndRound PROVE Lined'
<1>1. /\ set' = set /\ round' = round + 1
      /\ region' = [r \in Ranks |-> 1] /\ at' = [l \in Lists |-> 1]
  BY DEF Over, EndRound
<1>2. Lists' = Lists
  BY <1>1 DEF Lists
<1>3. at' \in [Lists -> Nat \ {0}] /\ region' \in [Ranks -> Nat \ {0}]
  BY <1>1
<1>4. \A k \in Lists : at'[k] = 1 /\ region'[k.rank] = 1 /\ k.region \in Nat \ {0}
  BY <1>1, MethodLists, Regions DEF Lined
<1>5. \A k \in Lists : ~(region'[k.rank] > k.region)
  BY <1>4
<1>6. set.method \in {"monte_carlo", "tracers", "mocmc"} /\ round + 1 \in Nat \ {0}
  BY DEF Lined, OneOfThree
<1> QED BY <1>1, <1>2, <1>3, <1>4, <1>5, <1>6 DEF Lined, OneOfThree

LEMMA SameLined ==
  ASSUME Lined, set' = set, round' = round, region' = region, at' = at PROVE Lined'
BY DEF Lined, OneOfThree, Lists

LEMMA RunOrdered ==
  ASSUME Ordered, NEW l \in Lists, NEW task, Run(l, task) PROVE Ordered'
BY RunLined DEF Run, Ordered, Lined

LEMMA RegionOrdered ==
  ASSUME Ordered, NEW r \in Ranks, RegionComplete(r) PROVE Ordered'
BY RegionLined DEF RegionComplete, Ordered, Lined

LEMMA EndOrdered == ASSUME Ordered, EndRound PROVE Ordered'
BY EndLined DEF Over, EndRound, Ordered, Lined

(* When all ranks have completed their last region, all lists are.         *)
LEMMA AllDone ==
  ASSUME Lined, AllComplete, NEW l \in Lists PROVE at[l] > Len(l.chain)
<1> DEFINE R == {k.region : k \in Lists}
<1>1. \E n \in R : \A m \in R : n >= m
  <2>1. CASE MC
    <3>1. Force4(l.rank) \in Lists /\ Force4(l.rank).region = 4
      BY <2>1, MethodLists DEF Lined, MC, Lists, MonteCarloStep, Force4, PerRank
    <3>2. \A k \in Lists : k.region \in {1, 2, 3, 4}
      BY <2>1 DEF MC, Lists, MonteCarloStep, PerRank, PerBlock
    <3>3. 4 \in R /\ \A m \in R : 4 >= m
      BY <3>1, <3>2
    <3> QED BY <3>3
  <2>2. CASE set.method = "tracers"
    <3>1. \A k \in Lists : k.region = 1
      BY <2>2 DEF Lists, TracerRegion, PerRank
    <3>2. 1 \in R /\ \A m \in R : 1 >= m
      BY <3>1
    <3> QED BY <3>2
  <2>3. CASE set.method = "mocmc"
    <3>1. NStages \in 1 .. NStages /\ NStages \in Nat
      BY SwarmsAssumption
    <3>2. Source(NStages, l.rank) \in Lists /\ Source(NStages, l.rank).region = 2 * NStages
      <4>1. Source(NStages, l.rank) \in MocmcStage(NStages)
        BY MethodLists DEF Lined, MocmcStage, Source
      <4> QED BY <2>3, <3>1, <4>1 DEF Lists, MocmcRegions, Source, PerRank
    <3>3. ASSUME NEW k \in Lists PROVE 2 * NStages >= k.region
      <4>1. PICK n \in 1 .. NStages : k \in MocmcStage(n)
        BY <2>3 DEF Lists, MocmcRegions
      <4>2. k.region = 2 * n - 1 \/ k.region = 2 * n
        BY <4>1 DEF MocmcStage, PerRank
      <4> QED BY <3>1, <4>2
    <3>4. 2 * NStages \in R /\ \A m \in R : 2 * NStages >= m
      BY <3>2, <3>3
    <3> QED BY <3>4
  <2> QED BY <2>1, <2>2, <2>3 DEF Lined, OneOfThree, MC
<1>2. LastRegion \in R /\ \A m \in R : LastRegion >= m
  BY <1>1 DEF LastRegion, Max
<1>3. l.rank \in Ranks /\ l.region \in R /\ l.region \in Int
  BY MethodLists, Regions DEF Lined
<1>4. region[l.rank] = LastRegion /\ Completed(l.rank)
  BY <1>3 DEF AllComplete
<1>5. CASE LastRegion = l.region
  BY <1>4, <1>5 DEF Completed, Here
<1>6. CASE LastRegion # l.region
  <2>1. LastRegion \in Int
    BY <1>2, Regions DEF Lined
  <2>2. region[l.rank] > l.region
    BY <1>2, <1>3, <1>4, <1>6, <2>1
  <2> QED BY <2>2 DEF Lined
<1> QED BY <1>5, <1>6

LEMMA StepOver ==
  ASSUME Ordered, AllComplete, NEW b \in Blocks
  PROVE  WasReset(b) /\ Moved(b) /\ Sent(b) /\ Received(b)
<1>1. /\ at[Mover(b)] > Len(Mover(b).chain) /\ at[Resetter(b)] > Len(Resetter(b).chain)
      /\ at[Mover(b)] \in Nat /\ at[Resetter(b)] \in Nat
  BY AllDone, Movers DEF Ordered, Lined
<1>2. CASE MC
  <2>1. Len(Mover(b).chain) = 4 /\ Len(Resetter(b).chain) = 1 /\ SendAt = 3
    BY <1>2 DEF Mover, Resetter, Packets, ResetAlone, PerBlock, PerRank, SendAt, MC
  <2> QED BY <1>1, <2>1 DEF WasReset, Moved, Sent, Received
<1>3. CASE set.method = "tracers"
  <2>1. Len(Mover(b).chain) = 6 /\ Resetter(b) = Mover(b) /\ SendAt = 4
    BY <1>3 DEF Mover, Resetter, Advection, PerRank, SendAt, MC
  <2> QED BY <1>1, <2>1 DEF WasReset, Moved, Sent, Received
<1> QED BY <1>2, <1>3 DEF Ordered, Lined, OneOfThree, MC

----------------------------------------------------------------------------
(* What is on its way between two blocks                                   *)

(* A block has taken the messages of the step, and no older ones, once it  *)
(* has been reset and has received.                                        *)
Taken(b) == WasReset(b) /\ arrived[b]
Waiting(k) == Sent(k[1]) /\ ~Taken(k[2])

Typed ==
  /\ held \in [Blocks -> SUBSET Particles] /\ buffer \in [Links -> Seq(SUBSET Particles)]
  /\ arrived \in [Blocks -> BOOLEAN] /\ unborn \subseteq Particles
Flow ==
  /\ Typed
  /\ \A k \in Links : /\ Waiting(k) => Len(buffer[k]) = 1
                      /\ ~Waiting(k) => buffer[k] = <<>>
                      /\ Taken(k[2]) => Sent(k[1])
  /\ \A b \in Blocks : Received(b) => Taken(b)

LEMMA LinkEnds ==
  ASSUME NEW k \in Links
  PROVE  /\ k[1] \in Blocks /\ k[2] \in Blocks /\ k = <<k[1], k[2]>>
         /\ k[1] # k[2] /\ k[2] \in Neighbours(k[1]) /\ k[1] \in Neighbours(k[2])
<1>1. k \in Blocks \X Blocks /\ k[2] \in Neighbours(k[1])
  BY DEF Links
<1>2. k[1] \in Int /\ k[2] \in Int /\ k[1] \in Blocks
  BY <1>1 DEF Blocks
<1> QED BY <1>1, <1>2 DEF Neighbours

LEMMA InboxLinks ==
  ASSUME NEW b \in Blocks
  PROVE  /\ Inbox(b) \subseteq Links /\ \A k \in Inbox(b) : k[2] = b
         /\ \A k \in Links : k[2] = b => k \in Inbox(b)
<1>1. ASSUME NEW n \in Neighbours(b) PROVE <<n, b>> \in Links
  <2>1. n \in Blocks /\ b \in Neighbours(n)
    BY DEF Neighbours, Blocks
  <2> QED BY <2>1 DEF Links
<1>2. \A k \in Links : k[2] = b => k \in Inbox(b)
  BY LinkEnds DEF Inbox
<1> QED BY <1>1, <1>2 DEF Inbox

(* Marks stay where no task ends.                                          *)
LEMMA SameMarks ==
  ASSUME at' = at, set' = set, NEW b
  PROVE  /\ WasReset(b)' <=> WasReset(b)
         /\ Moved(b)' <=> Moved(b)
         /\ Sent(b)' <=> Sent(b)
         /\ Received(b)' <=> Received(b)
BY DEF WasReset, Moved, Sent, Received, Mover, Resetter, SendAt, MC

(* Only three tasks are about messages.                                    *)
LEMMA FlowKept ==
  ASSUME Flow, buffer' = buffer, arrived' = arrived, Typed',
         \A b \in Blocks : /\ WasReset(b)' <=> WasReset(b)
                           /\ Sent(b)' <=> Sent(b)
                           /\ Received(b)' <=> Received(b)
  PROVE  Flow'
<1>1. \A b \in Blocks : Taken(b)' <=> Taken(b)
  BY DEF Taken
<1>2. \A k \in Links : Waiting(k)' <=> Waiting(k)
  BY <1>1, LinkEnds DEF Waiting
<1> QED BY <1>1, <1>2, LinkEnds DEF Flow

LEMMA TaskFlow ==
  ASSUME Ordered, Flow, NEW l \in Lists, NEW task, Run(l, task), Typed',
         task \notin {"ResetCommunication", "Send", "Receive"},
         buffer' = buffer, arrived' = arrived
  PROVE  Flow'
BY After, FlowKept

(* The reset empties no buffer that has something in it.                   *)
LEMMA ResetFlow ==
  ASSUME Ordered, Flow, NEW l \in Lists, ResetCommunication(l)
  PROVE  Flow' /\ buffer' = buffer
<1>1. /\ Run(l, "ResetCommunication") /\ Pending(l, "ResetCommunication")
      /\ arrived' = [b \in Blocks |-> IF b \in l.blocks THEN FALSE ELSE arrived[b]]
      /\ buffer' = [k \in Links |-> IF Local(k) /\ k[2] \in l.blocks THEN <<>> ELSE buffer[k]]
      /\ held' = held /\ unborn' = unborn
  BY DEF ResetCommunication, Run
<1>2. \A k \in Links : k[2] \in l.blocks /\ Local(k) => ~Sent(k[1])
  BY <1>1, Before, LinkEnds DEF Local
<1>3. buffer' = buffer
  <2>1. \A k \in Links : k[2] \in l.blocks /\ Local(k) => buffer[k] = <<>>
    BY <1>2 DEF Flow, Waiting
  <2>2. buffer = [k \in Links |-> buffer[k]]
    BY DEF Flow, Typed
  <2> QED BY <1>1, <2>1, <2>2
<1>4. Typed'
  BY <1>1, <1>3 DEF Flow, Typed
<1>5. ASSUME NEW b \in Blocks
      PROVE  /\ Taken(b)' => Taken(b) /\ b \notin l.blocks
             /\ Taken(b) => Taken(b)' \/ b \in l.blocks
             /\ b \in l.blocks => ~WasReset(b)
             /\ Sent(b)' <=> Sent(b)
             /\ Received(b)' <=> Received(b)
  <2>1. b \in l.blocks => ~WasReset(b)
    BY <1>1, TaskOfResetter DEF WasReset
  <2> QED BY <1>1, <2>1, After DEF Taken
<1>6. \A b \in Blocks : Taken(b)' <=> Taken(b)
  BY <1>5 DEF Taken
<1>7. \A k \in Links : Waiting(k)' <=> Waiting(k)
  BY <1>5, <1>6, LinkEnds DEF Waiting
<1>8. \A k \in Links : /\ Waiting(k)' => Len(buffer'[k]) = 1
                       /\ ~Waiting(k)' => buffer'[k] = <<>>
                       /\ Taken(k[2])' => Sent(k[1])'
  BY <1>3, <1>5, <1>6, <1>7, LinkEnds DEF Flow
<1>9. \A b \in Blocks : Received(b)' => Taken(b)'
  BY <1>5, <1>6 DEF Flow
<1> QED BY <1>3, <1>4, <1>8, <1>9 DEF Flow

(* Sequences of length one *)
LEMMA Single ==
  ASSUME NEW s
  PROVE  Len(<<s>>) = 1 /\ <<s>> # <<>> /\ <<s>>[1] = s
<1>1. <<s>> \in Seq({s})
  OBVIOUS
<1> QED BY <1>1

LEMMA Singleton ==
  ASSUME NEW S, NEW q \in Seq(S), Len(q) = 1
  PROVE  Tail(q) = <<>> /\ Head(q) = q[1] /\ q # <<>> /\ q[1] \in S
<1>1. Head(q) = q[1] /\ q # <<>> /\ q[1] \in S
  OBVIOUS
<1>2. Tail(q) \in Seq(S) /\ Len(Tail(q)) = 0
  BY <1>1, HeadTailProperties
<1>3. Tail(q) = <<>>
  BY <1>2, EmptySeq
<1> QED BY <1>1, <1>3

LEMMA SendFlow ==
  ASSUME Ordered, Flow, NEW l \in Lists, Send(l)
  PROVE  /\ Flow'
         /\ \A k \in Links : k[1] \in l.blocks =>
              buffer[k] = <<>> /\ buffer'[k] = <<Leaving(k[1], k[2])>>
         /\ \A k \in Links : k[1] \notin l.blocks => buffer'[k] = buffer[k]
<1>1. /\ Run(l, "Send") /\ Pending(l, "Send")
      /\ buffer' = [k \in Links |-> IF k[1] \in l.blocks THEN Append(buffer[k], Leaving(k[1], k[2]))
                                                          ELSE buffer[k]]
      /\ held' = [b \in Blocks |-> IF b \in l.blocks
                    THEN held[b] \ UNION {Leaving(b, n) : n \in Neighbours(b)} ELSE held[b]]
      /\ arrived' = arrived /\ unborn' = unborn
  BY DEF Send, Run
<1>2. \A b \in l.blocks : ~Sent(b)
  BY <1>1, Before
<1>3. \A b \in Blocks : /\ WasReset(b)' <=> WasReset(b)
                        /\ Sent(b)' <=> Sent(b) \/ b \in l.blocks
                        /\ Received(b)' <=> Received(b)
                        /\ Taken(b)' <=> Taken(b)
  BY <1>1, After DEF Taken
<1>4. ASSUME NEW k \in Links, k[1] \in l.blocks
      PROVE  /\ buffer[k] = <<>> /\ buffer'[k] = <<Leaving(k[1], k[2])>>
             /\ Leaving(k[1], k[2]) \subseteq Particles /\ ~Taken(k[2])
  <2>1. buffer[k] = <<>> /\ ~Taken(k[2])
    BY <1>2, <1>4, LinkEnds DEF Flow, Waiting
  <2>2. Leaving(k[1], k[2]) \subseteq Particles
    BY LinkEnds DEF Leaving, Flow, Typed
  <2>3. buffer'[k] = Append(buffer[k], Leaving(k[1], k[2]))
    BY <1>1, <1>4
  <2> QED BY <2>1, <2>2, <2>3
<1>5. \A k \in Links : k[1] \notin l.blocks => buffer'[k] = buffer[k]
  BY <1>1
<1>6. Typed'
  <2>1. buffer' \in [Links -> Seq(SUBSET Particles)]
    <3>1. ASSUME NEW k \in Links PROVE buffer'[k] \in Seq(SUBSET Particles)
      <4>1. CASE k[1] \in l.blocks
        BY <1>4, <4>1
      <4>2. CASE k[1] \notin l.blocks
        BY <1>5, <4>2 DEF Flow, Typed
      <4> QED BY <4>1, <4>2
    <3> QED BY <1>1, <3>1
  <2> QED BY <1>1, <2>1 DEF Flow, Typed
<1>7. ASSUME NEW k \in Links
      PROVE  /\ Waiting(k)' => Len(buffer'[k]) = 1
             /\ ~Waiting(k)' => buffer'[k] = <<>>
             /\ Taken(k[2])' => Sent(k[1])'
  <2>1. Waiting(k)' <=> Sent(k[1])' /\ ~Taken(k[2])'
    BY DEF Waiting
  <2>2. CASE k[1] \in l.blocks
    <3>1. Sent(k[1])' /\ ~Taken(k[2])'
      BY <1>3, <1>4, <2>2, LinkEnds
    <3>2. buffer'[k] = <<Leaving(k[1], k[2])>>
      BY <1>4, <2>2
    <3>3. Len(buffer'[k]) = 1
      BY <3>2, Single
    <3> QED BY <2>1, <3>1, <3>3
  <2>3. CASE k[1] \notin l.blocks
    BY <1>3, <1>5, <2>1, <2>3, LinkEnds DEF Flow, Waiting
  <2> QED BY <2>2, <2>3
<1>8. \A b \in Blocks : Received(b)' => Taken(b)'
  BY <1>3 DEF Flow
<1> QED BY <1>4, <1>5, <1>6, <1>7, <1>8 DEF Flow

LEMMA ReceiveFlow ==
  ASSUME Ordered, Flow, NEW l \in Lists, Receive(l)
  PROVE  LET some == {b \in l.blocks : Ready(b)} IN
         /\ Ordered' /\ Flow'
         /\ some \subseteq Blocks
         /\ \A b \in Blocks : (Moved(b)' <=> Moved(b)) /\ (Sent(b)' <=> Sent(b))
         /\ \A b \in some : Sent(b)
         /\ \A k \in Links : k[2] \in some =>
              Len(buffer[k]) = 1 /\ buffer'[k] = <<>> /\ Head(buffer[k]) = buffer[k][1]
         /\ \A k \in Links : k[2] \notin some => buffer'[k] = buffer[k]
<1> DEFINE some == {b \in l.blocks : Ready(b)}
<1>1. /\ Pending(l, "Receive")
      /\ IF \A b \in l.blocks \ some : arrived[b] THEN Run(l, "Receive")
         ELSE UNCHANGED <<set, round, region, at>>
      /\ arrived' = [b \in Blocks |-> arrived[b] \/ b \in some]
      /\ held' = [b \in Blocks |-> IF b \in some THEN Kept(b) ELSE held[b]]
      /\ buffer' = [k \in Links |-> IF k[2] \in some THEN Tail(buffer[k]) ELSE buffer[k]]
      /\ unborn' = unborn
  BY DEF Receive
<1>2. \A b \in l.blocks : b \in Blocks /\ Sent(b) /\ WasReset(b)
  BY <1>1, Before
<1>3. some \subseteq Blocks /\ \A b \in some : Ready(b)
  BY <1>2
<1>4. Ordered' /\ \A b \in Blocks : /\ WasReset(b)' <=> WasReset(b)
                                    /\ Moved(b)' <=> Moved(b)
                                    /\ Sent(b)' <=> Sent(b)
                                    /\ Received(b)' =>
                                         \/ Received(b)
                                         \/ b \in l.blocks /\ \A c \in l.blocks \ some : arrived[c]
  <2>1. CASE \A b \in l.blocks \ some : arrived[b]
    <3>1. Run(l, "Receive")
      BY <1>1, <2>1
    <3> QED BY <2>1, <3>1, RunOrdered, After DEF Moves
  <2>2. CASE ~\A b \in l.blocks \ some : arrived[b]
    <3>1. UNCHANGED <<set, round, region, at>>
      BY <1>1, <2>2
    <3> QED BY <3>1, SameMarks DEF Ordered, Lined, OneOfThree, Lists
  <2> QED BY <2>1, <2>2
<1> HIDE DEF some
<1>5. \A b \in Blocks : Taken(b)' <=> Taken(b) \/ b \in some
  <2>1. \A b \in some : WasReset(b)
    BY <1>2 DEF some
  <2> QED BY <1>1, <1>4, <2>1 DEF Taken, Flow, Typed
<1>6. ASSUME NEW k \in Links, k[2] \in some
      PROVE  /\ Len(buffer[k]) = 1 /\ buffer'[k] = <<>> /\ Head(buffer[k]) = buffer[k][1]
             /\ Sent(k[1])
  <2>1. buffer[k] # <<>>
    BY <1>3, <1>6, InboxLinks DEF Ready
  <2>2. Waiting(k) /\ Len(buffer[k]) = 1 /\ buffer[k] \in Seq(SUBSET Particles)
    BY <2>1 DEF Flow, Typed
  <2>3. buffer'[k] = Tail(buffer[k])
    BY <1>1, <1>6
  <2>4. Tail(buffer[k]) = <<>> /\ Head(buffer[k]) = buffer[k][1]
    BY <2>2, Singleton
  <2> QED BY <2>2, <2>3, <2>4 DEF Waiting
<1>7. \A k \in Links : k[2] \notin some => buffer'[k] = buffer[k]
  BY <1>1
<1>8. Typed'
  <2>1. buffer' \in [Links -> Seq(SUBSET Particles)]
    <3>1. ASSUME NEW k \in Links PROVE buffer'[k] \in Seq(SUBSET Particles)
      <4>1. CASE k[2] \in some
        <5>1. buffer'[k] = <<>>
          BY <1>6, <4>1
        <5> QED BY <5>1
      <4>2. CASE k[2] \notin some
        BY <1>7, <4>2 DEF Flow, Typed
      <4> QED BY <4>1, <4>2
    <3> QED BY <1>1, <3>1
  <2>2. ASSUME NEW b \in some PROVE Kept(b) \subseteq Particles
    <3>1. ASSUME NEW k \in Inbox(b) PROVE Head(buffer[k]) \subseteq Particles
      <4>1. k \in Links /\ k[2] = b
        BY <1>3, InboxLinks
      <4>2. Len(buffer[k]) = 1 /\ Head(buffer[k]) = buffer[k][1] /\ buffer[k] \in Seq(SUBSET Particles)
        BY <1>6, <4>1 DEF Flow, Typed
      <4> QED BY <4>2
    <3>2. held[b] \subseteq Particles
      BY <1>3 DEF Flow, Typed
    <3>3. Unloaded(b) \subseteq Particles
      BY <3>1, <3>2 DEF Unloaded
    <3> QED BY <3>3 DEF Kept
  <2>3. held' \in [Blocks -> SUBSET Particles]
    BY <1>1, <2>2 DEF Flow, Typed
  <2>4. arrived' \in [Blocks -> BOOLEAN]
    BY <1>1 DEF Flow, Typed
  <2> QED BY <1>1, <2>1, <2>3, <2>4 DEF Flow, Typed
<1>9. ASSUME NEW k \in Links
      PROVE  /\ Waiting(k)' => Len(buffer'[k]) = 1
             /\ ~Waiting(k)' => buffer'[k] = <<>>
             /\ Taken(k[2])' => Sent(k[1])'
  <2>1. Waiting(k)' <=> Sent(k[1])' /\ ~Taken(k[2])'
    BY DEF Waiting
  <2>2. CASE k[2] \in some
    BY <1>4, <1>5, <1>6, <2>1, <2>2, LinkEnds
  <2>3. CASE k[2] \notin some
    BY <1>4, <1>5, <1>7, <2>1, <2>3, LinkEnds DEF Flow, Waiting
  <2> QED BY <2>2, <2>3
<1>10. ASSUME NEW b \in Blocks, Received(b)' PROVE Taken(b)'
  <2>1. CASE Received(b)
    BY <1>5, <2>1 DEF Flow
  <2>2. CASE b \in l.blocks /\ \A c \in l.blocks \ some : arrived[c]
    BY <1>2, <1>5, <2>2 DEF Taken
  <2> QED BY <1>4, <1>10, <2>1, <2>2
<1> QED BY <1>2, <1>3, <1>4, <1>6, <1>7, <1>8, <1>9, <1>10 DEF Flow, some

(* Between steps nothing is on its way.                                    *)
LEMMA EndFlow ==
  ASSUME Ordered, Flow, EndRound
  PROVE  /\ Flow'
         /\ \A k \in Links : buffer[k] = <<>>
         /\ \A b \in Blocks : /\ Moved(b) /\ Sent(b)
                              /\ ~Moved(b)' /\ ~Sent(b)' /\ ~WasReset(b)' /\ ~Received(b)'
<1>1. /\ AllComplete /\ at' = [l \in Lists |-> 1] /\ set' = set
      /\ held' = held /\ buffer' = buffer /\ arrived' = arrived /\ unborn' = unborn
  BY DEF Over, EndRound, swarm
<1>2. \A b \in Blocks : Moved(b) /\ Sent(b) /\ Taken(b)
  BY <1>1, StepOver DEF Flow
<1>3. \A k \in Links : buffer[k] = <<>>
  BY <1>2, LinkEnds DEF Flow, Waiting
<1>4. ASSUME NEW b \in Blocks
      PROVE ~Moved(b)' /\ ~Sent(b)' /\ ~WasReset(b)' /\ ~Received(b)'
  <2>1. Mover(b)' = Mover(b) /\ Resetter(b)' = Resetter(b) /\ SendAt' = SendAt
    BY <1>1 DEF Mover, Resetter, SendAt, MC
  <2>2. at'[Mover(b)] = 1 /\ at'[Resetter(b)] = 1 /\ SendAt \in {3, 4}
    BY <1>1, Movers DEF SendAt
  <2> QED BY <2>1, <2>2 DEF Moved, Sent, WasReset, Received
<1>5. Typed'
  BY <1>1 DEF Flow, Typed
<1>6. \A k \in Links : buffer'[k] = <<>> /\ ~Waiting(k)' /\ ~Taken(k[2])'
  BY <1>1, <1>3, <1>4, LinkEnds DEF Waiting, Taken
<1>7. \A k \in Links : /\ Waiting(k)' => Len(buffer'[k]) = 1
                       /\ ~Waiting(k)' => buffer'[k] = <<>>
                       /\ Taken(k[2])' => Sent(k[1])'
  BY <1>6
<1> QED BY <1>2, <1>3, <1>4, <1>5, <1>7 DEF Flow

----------------------------------------------------------------------------
(* Where a particle lies                                                   *)

(* In the swarm of a block, <<b, b>>, or in the message of a link          *)
Spots == {<<b, b>> : b \in Blocks} \union Links
Lies(p, y) == IF y[1] = y[2] THEN p \in held[y[1]]
                             ELSE buffer[y] # <<>> /\ p \in buffer[y][1]
Done(y) == y[1] = y[2] => Moved(y[1])

Once == \A p \in Particles : \A y, z \in Spots : Lies(p, y) /\ Lies(p, z) => y = z
Timely ==
  \A p \in Particles : \A y \in Spots : Lies(p, y) =>
    p \notin unborn /\ time[p] = IF Done(y) THEN round ELSE round - 1

(* Monte Carlo's particles are where their position is, or about to leave  *)
Where(p) == GetNeighborBlockIndex(x[p])
Leaves(b) == Moved(b) /\ ~Sent(b)
Headed(p, y) ==
  IF y[1] = y[2] /\ Leaves(y[1])
    THEN going[p] = Where(p) /\ going[p] \in {y[1] - 1, y[1], y[1] + 1}
    ELSE Where(p) = y[2]
Homed ==
  MC => /\ x \in [Particles -> Int] /\ vel \in [Particles -> -1 .. 1]
        /\ \A p \in Particles : \A y \in Spots : Lies(p, y) => Headed(p, y)

Placed == Once /\ Timely /\ Homed /\ time \in [Particles -> Int]

(* No particle appears, and none is advanced but once                      *)
Onward ==
  /\ round' = round
  /\ \A p \in Particles : \A y \in Spots : Lies(p, y)' =>
       /\ \E z \in Spots : Lies(p, z)
       /\ time'[p] = time[p] \/ (time[p] = round - 1 /\ time'[p] = round)

LEMMA SpotKinds ==
  ASSUME NEW y \in Spots
  PROVE  \/ y[1] = y[2] /\ y[1] \in Blocks /\ y = <<y[1], y[1]>>
         \/ y[1] # y[2] /\ y \in Links
BY LinkEnds DEF Spots

LEMMA BlockSpot ==
  ASSUME NEW b \in Blocks
  PROVE  /\ <<b, b>> \in Spots
         /\ \A p : /\ Lies(p, <<b, b>>) <=> p \in held[b]
                   /\ Lies(p, <<b, b>>)' <=> p \in held'[b]
BY DEF Spots, Lies

LEMMA LinkSpot ==
  ASSUME NEW k \in Links
  PROVE  /\ k \in Spots
         /\ \A p : /\ Lies(p, k) <=> buffer[k] # <<>> /\ p \in buffer[k][1]
                   /\ Lies(p, k)' <=> buffer'[k] # <<>> /\ p \in buffer'[k][1]
BY LinkEnds DEF Spots, Lies

LEMMA Held ==
  ASSUME NEW p, NEW y \in Spots, y[1] = y[2]
  PROVE  (Lies(p, y) <=> p \in held[y[1]]) /\ (Lies(p, y)' <=> p \in held'[y[1]])
BY DEF Lies

LEMMA Carried ==
  ASSUME NEW p, NEW y \in Spots, y[1] # y[2], buffer'[y] = buffer[y]
  PROVE  Lies(p, y)' <=> Lies(p, y)
BY DEF Lies

(* Tasks that advance nobody, and at most remove some                      *)
LEMMA FewerPlaced ==
  ASSUME Ordered, Placed, NEW p \in Particles, NEW y \in Spots, Lies(p, y)',
         \A q \in Particles : \A z \in Spots : Lies(q, z)' => Lies(q, z),
         unborn' = unborn, round' = round, time' = time,
         \A b \in Blocks : Moved(b)' <=> Moved(b)
  PROVE  p \notin unborn' /\ time'[p] = IF Done(y)' THEN round' ELSE round' - 1
<1>1. Done(y)' <=> Done(y)
  BY SpotKinds DEF Done
<1> QED BY <1>1 DEF Placed, Timely

LEMMA Fewer ==
  ASSUME Ordered, Placed,
         \A q \in Particles : \A z \in Spots : Lies(q, z)' => Lies(q, z),
         unborn' = unborn, round' = round, time' = time,
         \A b \in Blocks : Moved(b)' <=> Moved(b)
  PROVE  Once' /\ Timely' /\ Onward /\ time' \in [Particles -> Int]
<1>1. Once'
  BY DEF Placed, Once
<1>2. Timely'
  BY FewerPlaced DEF Timely
<1>3. Onward
  BY DEF Onward
<1> QED BY <1>1, <1>2, <1>3 DEF Placed

LEMMA SameHome ==
  ASSUME Ordered, Placed,
         \A q \in Particles : \A z \in Spots : Lies(q, z)' => Lies(q, z),
         set' = set, x' = x, vel' = vel, going' = going,
         \A b \in Blocks : (Moved(b)' <=> Moved(b)) /\ (Sent(b)' <=> Sent(b))
  PROVE  Homed'
<1>1. \A y \in Spots : y[1] = y[2] => (Leaves(y[1])' <=> Leaves(y[1]))
  BY SpotKinds DEF Leaves
<1>2. \A p \in Particles : \A y \in Spots : Headed(p, y) => Headed(p, y)'
  BY <1>1 DEF Headed, Where
<1> QED BY <1>2 DEF Placed, Homed, MC

(* Tasks that do nothing to particles                                      *)
LEMMA Quiet ==
  ASSUME Ordered, Flow, Placed, NEW l \in Lists, NEW task, Run(l, task),
         task \notin Moves, task \notin {"Send", "Receive", "ResetCommunication"},
         x' = x, vel' = vel, going' = going, time' = time, held' = held, unborn' = unborn,
         buffer' = buffer, arrived' = arrived
  PROVE  Ordered' /\ Flow' /\ Placed' /\ Onward
<1>1. Typed'
  BY DEF Flow, Typed
<1>2. \A q \in Particles : \A z \in Spots : Lies(q, z)' <=> Lies(q, z)
  BY DEF Lies
<1>3. \A b \in Blocks : (Moved(b)' <=> Moved(b)) /\ (Sent(b)' <=> Sent(b))
  BY After
<1>4. set' = set /\ round' = round
  BY DEF Run
<1>5. Homed'
  BY <1>2, <1>3, <1>4, SameHome
<1> QED BY <1>1, <1>2, <1>3, <1>4, <1>5, RunOrdered, TaskFlow, Fewer DEF Placed

LEMMA NotMonteCarlo ==
  ASSUME Ordered, MC, NEW l \in Lists, NEW task, Pending(l, task)
  PROVE  task \notin {"PurgeParticles", "AdvectTracers", "MOCMCTransport", "SampleBoundaries",
                     "FluidSource"}
<1>1. CASE \E r \in Ranks : l = ResetAlone(r) \/ l = Tune3(r) \/ l = Force4(r)
  <2>1. PICK r \in Ranks : l = ResetAlone(r) \/ l = Tune3(r) \/ l = Force4(r)
    BY <1>1
  <2>2. CASE l = ResetAlone(r)
    <3>1. l.chain = <<"ResetCommunication">>
      BY <2>2 DEF ResetAlone, PerRank
    <3>2. at[l] = 1
      BY <3>1, ChainOf
    <3> QED BY <3>1, <3>2, ChainOf
  <2>3. CASE l = Tune3(r)
    <3>1. l.chain = <<"UpdateParticleResolution", "TotalEmissivity", "StartReduce", "CheckReduce",
                      "UpdateTuning">>
      BY <2>3 DEF Tune3, PerRank, Tuning
    <3>2. at[l] \in {1, 2, 3, 4, 5}
      BY <3>1, ChainOf
    <3>3. /\ at[l] = 1 => task = "UpdateParticleResolution"
          /\ at[l] = 2 => task = "TotalEmissivity"
          /\ at[l] = 3 => task = "StartReduce"
          /\ at[l] = 4 => task = "CheckReduce"
          /\ at[l] = 5 => task = "UpdateTuning"
      BY <3>1, ChainOf
    <3> QED BY <3>2, <3>3
  <2>4. CASE l = Force4(r)
    <3>1. l.chain = <<"ApplyRadiationFourForce">>
      BY <2>4 DEF Force4, PerRank
    <3>2. at[l] = 1
      BY <3>1, ChainOf
    <3> QED BY <3>1, <3>2, ChainOf
  <2> QED BY <2>1, <2>2, <2>3, <2>4
<1>2. CASE \E b \in Blocks : l = Packets(b)
  <2>1. PICK b \in Blocks : l = Packets(b)
    BY <1>2
  <2>2. l.chain = <<"SourceParticles", "Transport", "Send", "Receive">>
    BY <2>1 DEF Packets, PerBlock
  <2>3. at[l] \in {1, 2, 3, 4}
    BY <2>2, ChainOf
  <2>4. /\ at[l] = 1 => task = "SourceParticles"
        /\ at[l] = 2 => task = "Transport"
        /\ at[l] = 3 => task = "Send"
        /\ at[l] = 4 => task = "Receive"
    BY <2>2, ChainOf
  <2> QED BY <2>3, <2>4
<1> QED BY <1>1, <1>2, OneMethod DEF MC

(* A rank's region ends, and a swarm is reset                              *)
LEMMA RegionPlaced ==
  ASSUME Ordered, Flow, Placed, NEW r \in Ranks, RegionComplete(r)
  PROVE  Ordered' /\ Flow' /\ Placed' /\ Onward
<1>1. /\ x' = x /\ vel' = vel /\ going' = going /\ time' = time /\ held' = held
      /\ unborn' = unborn /\ buffer' = buffer /\ arrived' = arrived
      /\ set' = set /\ round' = round /\ at' = at
  BY DEF RegionComplete, swarm
<1>2. \A q \in Particles : \A z \in Spots : Lies(q, z)' <=> Lies(q, z)
  BY <1>1 DEF Lies
<1>3. Typed'
  BY <1>1 DEF Flow, Typed
<1>4. Flow'
  BY <1>1, <1>3, SameMarks, FlowKept
<1>5. Homed'
  BY <1>1, <1>2, SameMarks, SameHome
<1>6. Once' /\ Timely' /\ Onward /\ time' \in [Particles -> Int]
  BY <1>1, <1>2, SameMarks, Fewer
<1> QED BY <1>4, <1>5, <1>6, RegionOrdered DEF Placed

LEMMA ResetPlaced ==
  ASSUME Ordered, Flow, Placed, NEW l \in Lists, ResetCommunication(l)
  PROVE  Ordered' /\ Flow' /\ Placed' /\ Onward
<1>1. /\ Run(l, "ResetCommunication")
      /\ x' = x /\ vel' = vel /\ going' = going /\ time' = time /\ held' = held
      /\ unborn' = unborn
      /\ set' = set /\ round' = round
  BY DEF ResetCommunication, Run
<1>2. Flow' /\ buffer' = buffer
  BY ResetFlow
<1>3. \A q \in Particles : \A z \in Spots : Lies(q, z)' <=> Lies(q, z)
  BY <1>1, <1>2 DEF Lies
<1>4. \A b \in Blocks : (Moved(b)' <=> Moved(b)) /\ (Sent(b)' <=> Sent(b))
  BY <1>1, After DEF Moves
<1>5. Homed'
  BY <1>1, <1>3, <1>4, SameHome
<1>6. Once' /\ Timely' /\ Onward /\ time' \in [Particles -> Int]
  BY <1>1, <1>3, <1>4, Fewer
<1> QED BY <1>1, <1>2, <1>5, <1>6, RunOrdered DEF Placed

LEMMA PurgePlaced ==
  ASSUME Ordered, Flow, Placed, NEW l \in Lists, PurgeParticles(l)
  PROVE  Ordered' /\ Flow' /\ Placed' /\ Onward
<1>1. /\ Run(l, "PurgeParticles") /\ Pending(l, "PurgeParticles")
      /\ x' = x /\ vel' = vel /\ time' = time
      /\ unborn' = unborn /\ buffer' = buffer /\ arrived' = arrived
      /\ set' = set /\ round' = round
  BY DEF PurgeParticles, Run
<1>2. held \in [Blocks -> SUBSET Particles]
  BY DEF Flow, Typed
<1>3. /\ \A b \in Blocks : held'[b] \subseteq held[b]
      /\ held' \in [Blocks -> SUBSET Particles]
  <2> DEFINE c == Min(l.blocks)
  <2>1. \E visited : held' = [held EXCEPT ![c] = @ \ {p \in visited : x[p] <= set.horizon}]
    BY DEF PurgeParticles
  <2> HIDE DEF c
  <2>2. PICK D : held' = [held EXCEPT ![c] = @ \ D]
    BY <2>1
  <2>3. \A b \in Blocks : held'[b] = held[b] \/ held'[b] = held[b] \ D
    BY <1>2, <2>2
  <2>4. \A b \in Blocks : held'[b] \subseteq held[b] /\ held'[b] \in SUBSET Particles
    BY <1>2, <2>3
  <2> QED BY <1>2, <2>2, <2>4
<1>4. \A q \in Particles : \A z \in Spots : Lies(q, z)' => Lies(q, z)
  BY <1>1, <1>3, SpotKinds DEF Lies
<1>5. \A b \in Blocks : (Moved(b)' <=> Moved(b)) /\ (Sent(b)' <=> Sent(b))
  BY <1>1, After DEF Moves
<1>6. Homed'
  BY <1>1, NotMonteCarlo DEF Homed, MC
<1>7. Once' /\ Timely' /\ Onward /\ time' \in [Particles -> Int]
  BY <1>1, <1>4, <1>5, Fewer
<1>8. Typed'
  BY <1>1, <1>3 DEF Flow, Typed
<1> QED BY <1>1, <1>6, <1>7, <1>8, RunOrdered, TaskFlow DEF Placed

LEMMA BoundaryPlaced ==
  ASSUME Ordered, Flow, Placed, NEW l \in Lists, SampleBoundaries(l)
  PROVE  Ordered' /\ Flow' /\ Placed' /\ Onward
<1>1. /\ Run(l, "SampleBoundaries") /\ Pending(l, "SampleBoundaries")
      /\ time' = time /\ held' = held
      /\ unborn' = unborn /\ buffer' = buffer /\ arrived' = arrived
      /\ set' = set /\ round' = round
  BY DEF SampleBoundaries, Run
<1>2. \A q \in Particles : \A z \in Spots : Lies(q, z)' => Lies(q, z)
  BY <1>1 DEF Lies
<1>3. \A b \in Blocks : (Moved(b)' <=> Moved(b)) /\ (Sent(b)' <=> Sent(b))
  BY <1>1, After DEF Moves
<1>4. Homed'
  BY <1>1, NotMonteCarlo DEF Homed, MC
<1>5. Once' /\ Timely' /\ Onward /\ time' \in [Particles -> Int]
  BY <1>1, <1>2, <1>3, Fewer
<1>6. Typed'
  BY <1>1 DEF Flow, Typed
<1> QED BY <1>1, <1>4, <1>5, <1>6, RunOrdered, TaskFlow DEF Placed

(* The tasks that advance particles: each of the swarms of the list, and   *)
(* no other, from the time the step began                                  *)
LEMMA MovedOnce ==
  ASSUME Ordered, Flow, Placed, NEW l \in Lists, NEW task \in Moves, Run(l, task),
         NEW S, S \subseteq In(l),
         time' = [p \in Particles |-> IF p \in S THEN time[p] + 1 ELSE time[p]],
         held' \in [Blocks -> SUBSET Particles],
         \A b \in Blocks : held'[b] \subseteq held[b],
         \A b \in l.blocks : held'[b] \subseteq S,
         buffer' = buffer, arrived' = arrived, unborn' = unborn
  PROVE  /\ Ordered' /\ Flow' /\ Once' /\ Timely' /\ Onward /\ time' \in [Particles -> Int]
         /\ \A p \in Particles : \A y \in Spots : Lies(p, y)' => Lies(p, y)
         /\ \A p \in Particles : \A y \in Spots : Lies(p, y)' =>
              (p \in S <=> y[1] = y[2] /\ y[1] \in l.blocks)
<1>1. Typed'
  BY DEF Flow, Typed
<1>2. Ordered' /\ Flow'
  BY <1>1, RunOrdered, TaskFlow DEF Moves
<1>3. ASSUME NEW p \in Particles, NEW y \in Spots, Lies(p, y)' PROVE Lies(p, y)
  BY <1>3, SpotKinds DEF Lies
<1>4. Pending(l, task) /\ round' = round /\ set' = set
  BY DEF Run
<1>5. \A b \in l.blocks : b \in Blocks /\ ~Moved(b)
  BY <1>4, Before
<1>6. \A b \in Blocks : Moved(b)' <=> Moved(b) \/ b \in l.blocks
  BY After
<1>7. ASSUME NEW p \in Particles, NEW y \in Spots, Lies(p, y)'
      PROVE  p \in S <=> y[1] = y[2] /\ y[1] \in l.blocks
  <2>1. Lies(p, y)
    BY <1>3, <1>7
  <2>2. ASSUME p \in S PROVE y[1] = y[2] /\ y[1] \in l.blocks
    <3>1. PICK b \in l.blocks : p \in held[b]
      BY <2>2 DEF In
    <3>2. b \in Blocks
      BY <1>5
    <3>3. <<b, b>> \in Spots /\ Lies(p, <<b, b>>)
      BY <3>1, <3>2, BlockSpot
    <3>4. y = <<b, b>>
      BY <2>1, <3>3 DEF Placed, Once
    <3> QED BY <3>4
  <2>3. ASSUME y[1] = y[2], y[1] \in l.blocks PROVE p \in S
    BY <1>7, <2>3, Held
  <2> QED BY <2>2, <2>3
<1>8. ASSUME NEW p \in Particles, NEW y \in Spots, Lies(p, y)'
      PROVE  /\ p \notin unborn' /\ time'[p] = IF Done(y)' THEN round' ELSE round' - 1
             /\ time'[p] = time[p] \/ (time[p] = round - 1 /\ time'[p] = round)
  <2>1. Lies(p, y)
    BY <1>3, <1>8
  <2>2. p \notin unborn /\ time[p] = IF Done(y) THEN round ELSE round - 1
    BY <2>1 DEF Placed, Timely
  <2>3. CASE p \in S
    <3>1. y[1] = y[2] /\ y[1] \in l.blocks
      BY <1>7, <1>8, <2>3
    <3>2. ~Done(y) /\ Done(y)'
      BY <1>5, <1>6, <3>1 DEF Done
    <3>3. time'[p] = time[p] + 1 /\ round \in Int
      BY <2>3 DEF Ordered, Lined
    <3> QED BY <1>4, <2>2, <3>2, <3>3
  <2>4. CASE p \notin S
    <3>1. ~(y[1] = y[2] /\ y[1] \in l.blocks)
      BY <1>7, <1>8, <2>4
    <3>2. Done(y)' <=> Done(y)
      BY <1>6, <3>1, SpotKinds DEF Done
    <3>3. time'[p] = time[p]
      BY <2>4
    <3> QED BY <1>4, <2>2, <3>2, <3>3
  <2> QED BY <2>3, <2>4
<1>9. Once'
  BY <1>3 DEF Placed, Once
<1>10. Timely' /\ Onward
  BY <1>3, <1>4, <1>8 DEF Timely, Onward
<1>11. time' \in [Particles -> Int]
  BY DEF Placed
<1> QED BY <1>2, <1>3, <1>7, <1>9, <1>10, <1>11

LEMMA NeighbourIndex ==
  ASSUME NEW n \in Int
  PROVE  /\ GetNeighborBlockIndex(n) \in Blocks
         /\ n \in Blocks => GetNeighborBlockIndex(n) = n
         /\ \A v \in -1 .. 1 : LET b == GetNeighborBlockIndex(n) IN
              GetNeighborBlockIndex(n + v) \in {b - 1, b, b + 1}
BY SwarmsAssumption DEF GetNeighborBlockIndex, Between, Blocks

LEMMA TransportPlaced ==
  ASSUME Ordered, Flow, Placed, NEW l \in Lists, Transport(l)
  PROVE  Ordered' /\ Flow' /\ Placed' /\ Onward
<1>1. /\ Run(l, "Transport") /\ Pending(l, "Transport")
      /\ vel' = vel /\ unborn' = unborn /\ buffer' = buffer /\ arrived' = arrived
      /\ set' = set /\ round' = round
  BY DEF Transport, Run
<1>2. PICK absorbed \in SUBSET In(l), b \in l.blocks :
        Pushed(In(l) \ absorbed) /\ held' = [held EXCEPT ![b] = @ \ absorbed]
  BY DEF Transport
<1>3. MC /\ b \in Blocks /\ l.blocks = {b}
  <2>1. MC /\ l.blocks \subseteq Blocks
    BY <1>1, TaskOfMover
  <2>2. \E c \in Blocks : l.blocks = {c}
    BY <1>1, <2>1, TaskOfMover
  <2> QED BY <2>1, <2>2
<1> DEFINE S == In(l) \ absorbed
<1>4. /\ x' = [p \in Particles |-> IF p \in S THEN x[p] + vel[p] ELSE x[p]]
      /\ time' = [p \in Particles |-> IF p \in S THEN time[p] + 1 ELSE time[p]]
      /\ going' = [p \in Particles |-> IF p \in S THEN GetNeighborBlockIndex(x'[p]) ELSE going[p]]
  BY <1>2 DEF Pushed
<1>5. In(l) = held[b] /\ held'[b] = S
  BY <1>2, <1>3 DEF In, Flow, Typed
<1>6. S \subseteq In(l)
  OBVIOUS
<1> HIDE DEF S
<1>7. /\ held' \in [Blocks -> SUBSET Particles] /\ \A c \in Blocks : held'[c] \subseteq held[c]
      /\ \A c \in l.blocks : held'[c] \subseteq S
  BY <1>2, <1>3, <1>5, <1>6 DEF Flow, Typed
<1>8. "Transport" \in Moves
  BY DEF Moves
<1>9. /\ Ordered' /\ Flow' /\ Once' /\ Timely' /\ Onward /\ time' \in [Particles -> Int]
      /\ \A p \in Particles : \A y \in Spots : Lies(p, y)' => Lies(p, y)
      /\ \A p \in Particles : \A y \in Spots : Lies(p, y)' =>
           (p \in S <=> y[1] = y[2] /\ y[1] \in l.blocks)
  BY <1>1, <1>4, <1>6, <1>7, <1>8, MovedOnce
<1>10. /\ ~Moved(b) /\ ~Sent(b)
       /\ \A c \in Blocks : /\ Moved(c)' <=> Moved(c) \/ c = b
                            /\ Sent(c)' <=> Sent(c)
  BY <1>1, <1>3, <1>8, Before, After
<1>11. /\ x \in [Particles -> Int] /\ vel \in [Particles -> -1 .. 1]
       /\ \A p \in Particles : \A y \in Spots : Lies(p, y) => Headed(p, y)
  BY <1>3 DEF Placed, Homed
<1>12. ASSUME NEW p \in Particles, NEW y \in Spots, Lies(p, y)' PROVE Headed(p, y)'
  <2>1. Lies(p, y) /\ Headed(p, y)
    BY <1>9, <1>11, <1>12
  <2>2. CASE p \in S
    <3>1. y[1] = b /\ y[2] = b
      BY <1>3, <1>9, <1>12, <2>2
    <3>2. Where(p) = b
      BY <1>10, <2>1, <3>1 DEF Headed, Leaves
    <3>3. x'[p] = x[p] + vel[p] /\ going'[p] = GetNeighborBlockIndex(x'[p])
      BY <1>4, <2>2
    <3>4. x[p] \in Int /\ vel[p] \in -1 .. 1
      BY <1>11
    <3>5. going'[p] \in {b - 1, b, b + 1}
      BY <3>2, <3>3, <3>4, NeighbourIndex DEF Where
    <3>6. Leaves(y[1])'
      BY <1>3, <1>10, <3>1 DEF Leaves
    <3> QED BY <3>1, <3>3, <3>5, <3>6 DEF Headed, Where
  <2>3. CASE p \notin S
    <3>1. ~(y[1] = y[2] /\ y[1] = b)
      BY <1>3, <1>9, <1>12, <2>3
    <3>2. y[1] = y[2] => (Leaves(y[1])' <=> Leaves(y[1]))
      BY <1>10, <3>1, SpotKinds DEF Leaves
    <3>3. x'[p] = x[p] /\ going'[p] = going[p]
      BY <1>4, <2>3
    <3> QED BY <2>1, <3>2, <3>3 DEF Headed, Where
  <2> QED BY <2>2, <2>3
<1>13. x' \in [Particles -> Int]
  <2>1. \A p \in Particles : x[p] \in Int /\ x[p] + vel[p] \in Int
    BY <1>11
  <2> QED BY <1>4, <2>1
<1>14. Homed'
  BY <1>1, <1>11, <1>12, <1>13 DEF Homed
<1> QED BY <1>9, <1>14 DEF Placed

LEMMA SamplesPlaced ==
  ASSUME Ordered, Flow, Placed, NEW l \in Lists, MOCMCTransport(l) \/ AdvectTracers(l)
  PROVE  Ordered' /\ Flow' /\ Placed' /\ Onward
<1>1. PICK task \in {"MOCMCTransport", "AdvectTracers"} : Run(l, task)
  BY DEF MOCMCTransport, AdvectTracers
<1>2. /\ held' = held /\ unborn' = unborn /\ buffer' = buffer /\ arrived' = arrived
      /\ time' = [p \in Particles |-> IF p \in In(l) THEN time[p] + 1 ELSE time[p]]
  BY DEF MOCMCTransport, AdvectTracers, Pushed, PushedInPlace
<1>3. \A b \in l.blocks : held'[b] \subseteq In(l)
  BY <1>2 DEF In
<1>4. held' \in [Blocks -> SUBSET Particles] /\ \A b \in Blocks : held'[b] \subseteq held[b]
  BY <1>2 DEF Flow, Typed
<1>5. task \in Moves /\ Pending(l, task) /\ set' = set
  BY <1>1 DEF Moves, Run
<1>6. Homed'
  BY <1>1, <1>5, NotMonteCarlo DEF Homed, MC
<1> HIDE DEF In
<1>7. Ordered' /\ Flow' /\ Once' /\ Timely' /\ Onward /\ time' \in [Particles -> Int]
  BY <1>1, <1>2, <1>3, <1>4, <1>5, MovedOnce
<1> QED BY <1>6, <1>7 DEF Placed

(* What is sent leaves the swarm of its block                              *)
LEMMA SendPlaced ==
  ASSUME Ordered, Flow, Placed, NEW l \in Lists, Send(l)
  PROVE  Ordered' /\ Flow' /\ Placed' /\ Onward
<1>1. /\ Run(l, "Send") /\ Pending(l, "Send")
      /\ held' = [b \in Blocks |-> IF b \in l.blocks
                    THEN held[b] \ UNION {Leaving(b, n) : n \in Neighbours(b)} ELSE held[b]]
      /\ x' = x /\ vel' = vel /\ time' = time /\ going' = going /\ unborn' = unborn
      /\ set' = set /\ round' = round
  BY DEF Send, Run
<1>2. /\ Flow'
      /\ \A k \in Links : k[1] \in l.blocks => buffer'[k] = <<Leaving(k[1], k[2])>>
      /\ \A k \in Links : k[1] \notin l.blocks => buffer'[k] = buffer[k]
  BY SendFlow
<1>3. \A b \in l.blocks : b \in Blocks /\ Moved(b) /\ ~Sent(b)
  BY <1>1, Before
<1>4. \A b \in Blocks : (Moved(b)' <=> Moved(b)) /\ (Sent(b)' <=> Sent(b) \/ b \in l.blocks)
  BY <1>1, After DEF Moves
<1> DEFINE From(y) == IF y[1] \in l.blocks THEN <<y[1], y[1]>> ELSE y
<1>5. ASSUME NEW p \in Particles, NEW y \in Spots, Lies(p, y)'
      PROVE  /\ From(y) \in Spots /\ Lies(p, From(y))
             /\ y[1] \in l.blocks /\ y[1] # y[2] => going[p] = y[2]
             /\ y[1] \in l.blocks /\ y[1] = y[2] => going[p] \notin Neighbours(y[1])
  <2>1. CASE y[1] = y[2]
    <3>1. y[1] \in Blocks /\ y = <<y[1], y[1]>> /\ From(y) = y
      BY <2>1, SpotKinds
    <3>2. p \in held'[y[1]]
      BY <1>5, <2>1, Held
    <3>3. p \in held[y[1]]
      BY <1>1, <3>1, <3>2
    <3>4. Lies(p, y)
      BY <2>1, <3>3, Held
    <3>5. y[1] \in l.blocks => \A n \in Neighbours(y[1]) : p \notin Leaving(y[1], n)
      BY <1>1, <3>1, <3>2
    <3>6. y[1] \in l.blocks => going[p] \notin Neighbours(y[1])
      BY <3>3, <3>5 DEF Leaving
    <3> HIDE DEF From
    <3> QED BY <2>1, <3>1, <3>4, <3>6
  <2>2. CASE y[1] # y[2] /\ y[1] \in l.blocks
    <3>1. y \in Links /\ y[1] \in Blocks
      BY <1>3, <2>2, SpotKinds
    <3>2. buffer'[y] = <<Leaving(y[1], y[2])>>
      BY <1>2, <2>2, <3>1
    <3>3. p \in buffer'[y][1]
      BY <1>5, <3>1, LinkSpot
    <3>4. p \in Leaving(y[1], y[2])
      BY <3>2, <3>3, Single
    <3>5. p \in held[y[1]] /\ going[p] = y[2]
      BY <3>4 DEF Leaving
    <3>6. <<y[1], y[1]>> \in Spots /\ Lies(p, <<y[1], y[1]>>)
      BY <3>1, <3>5, BlockSpot
    <3>7. From(y) = <<y[1], y[1]>>
      BY <2>2
    <3> HIDE DEF From
    <3> QED BY <2>2, <3>5, <3>6, <3>7
  <2>3. CASE y[1] # y[2] /\ y[1] \notin l.blocks
    <3>1. y \in Links
      BY <2>3, SpotKinds
    <3>2. Lies(p, y)
      BY <1>2, <1>5, <2>3, <3>1, Carried
    <3>3. From(y) = y
      BY <2>3
    <3> HIDE DEF From
    <3> QED BY <2>3, <3>2, <3>3
  <2> QED BY <2>1, <2>2, <2>3
<1>6. ASSUME NEW p \in Particles, NEW y \in Spots, NEW z \in Spots, Lies(p, y)', Lies(p, z)'
      PROVE  y = z
  <2>1. From(y) = From(z)
    <3> HIDE DEF From
    <3> QED BY <1>5, <1>6 DEF Placed, Once
  <2>2. CASE y[1] \in l.blocks /\ z[1] \in l.blocks
    <3>1. y[1] = z[1]
      BY <2>1, <2>2
    <3>2. /\ y[1] # y[2] => y \in Links /\ going[p] = y[2] /\ going[p] \in Neighbours(y[1])
          /\ z[1] # z[2] => z \in Links /\ going[p] = z[2] /\ going[p] \in Neighbours(z[1])
          /\ y[1] = y[2] => going[p] \notin Neighbours(y[1])
          /\ z[1] = z[2] => going[p] \notin Neighbours(z[1])
      <4> HIDE DEF From
      <4> QED BY <1>5, <1>6, <2>2, SpotKinds, LinkEnds
    <3>3. y[2] = z[2]
      BY <3>1, <3>2
    <3>4. y = <<y[1], y[2]>> /\ z = <<z[1], z[2]>>
      BY SpotKinds, LinkEnds
    <3> QED BY <3>1, <3>3, <3>4
  <2>3. CASE y[1] \notin l.blocks /\ z[1] \notin l.blocks
    BY <2>1, <2>3
  <2>4. CASE y[1] \in l.blocks /\ z[1] \notin l.blocks
    BY <2>1, <2>4
  <2>5. CASE y[1] \notin l.blocks /\ z[1] \in l.blocks
    BY <2>1, <2>5
  <2> QED BY <2>2, <2>3, <2>4, <2>5
<1>7. ASSUME NEW y \in Spots PROVE Done(y)' <=> Done(From(y))
  <2>1. CASE y[1] \in l.blocks
    <3>1. From(y) = <<y[1], y[1]>> /\ y[1] \in Blocks /\ Moved(y[1]) /\ Moved(y[1])'
      BY <1>3, <1>4, <2>1
    <3> HIDE DEF From
    <3> QED BY <3>1 DEF Done
  <2>2. CASE y[1] \notin l.blocks
    <3>1. From(y) = y
      BY <2>2
    <3> HIDE DEF From
    <3> QED BY <1>4, <3>1, SpotKinds DEF Done
  <2> QED BY <2>1, <2>2
<1>8. ASSUME NEW p \in Particles, NEW y \in Spots, Lies(p, y)'
      PROVE  p \notin unborn' /\ time'[p] = IF Done(y)' THEN round' ELSE round' - 1
  <2> HIDE DEF From
  <2>1. From(y) \in Spots /\ Lies(p, From(y))
    BY <1>5, <1>8
  <2>2. p \notin unborn /\ time[p] = IF Done(From(y)) THEN round ELSE round - 1
    BY <2>1 DEF Placed, Timely
  <2> QED BY <1>1, <1>7, <2>2
<1>9. ASSUME MC, NEW p \in Particles, NEW y \in Spots, Lies(p, y)' PROVE Headed(p, y)'
  <2>1. \A q \in Particles : \A z \in Spots : Lies(q, z) => Headed(q, z)
    BY <1>9 DEF Placed, Homed
  <2>2. Where(p)' = Where(p) /\ going'[p] = going[p]
    BY <1>1 DEF Where
  <2>3. CASE y[1] \in l.blocks
    <3>1. y[1] \in Blocks /\ Leaves(y[1]) /\ ~Leaves(y[1])'
      BY <1>3, <1>4, <2>3 DEF Leaves
    <3>2. <<y[1], y[1]>> \in Spots /\ Lies(p, <<y[1], y[1]>>)
      BY <1>5, <1>9, <2>3
    <3>3. going[p] = Where(p) /\ going[p] \in {y[1] - 1, y[1], y[1] + 1}
      BY <2>1, <3>1, <3>2 DEF Headed
    <3>4. x[p] \in Int /\ Where(p) \in Blocks
      BY <1>9, NeighbourIndex DEF Where, Placed, Homed
    <3>5. Where(p) = y[2]
      <4>1. CASE y[1] # y[2]
        BY <1>5, <1>9, <2>3, <3>3, <4>1
      <4>2. CASE y[1] = y[2]
        <5>1. going[p] \notin Neighbours(y[1])
          BY <1>5, <1>9, <2>3, <4>2
        <5>2. going[p] = y[1]
          BY <3>3, <3>4, <5>1 DEF Neighbours
        <5> QED BY <3>3, <4>2, <5>2
      <4> QED BY <4>1, <4>2
    <3> QED BY <2>2, <3>1, <3>5 DEF Headed
  <2>4. CASE y[1] \notin l.blocks
    <3>1. Lies(p, y)
      BY <1>5, <1>9, <2>4
    <3>2. Headed(p, y)
      BY <2>1, <3>1
    <3>3. y[1] = y[2] => (Leaves(y[1])' <=> Leaves(y[1]))
      BY <1>4, <2>4, SpotKinds DEF Leaves
    <3> QED BY <2>2, <3>2, <3>3 DEF Headed
  <2> QED BY <2>3, <2>4
<1>10. Homed'
  BY <1>1, <1>9 DEF Placed, Homed, MC
<1>11. Once' /\ Timely'
  BY <1>6, <1>8 DEF Once, Timely
<1>12. Onward
  <2> HIDE DEF From
  <2> QED BY <1>1, <1>5 DEF Onward
<1> QED BY <1>1, <1>2, <1>10, <1>11, <1>12, RunOrdered DEF Placed

LEMMA SentMoved ==
  ASSUME Ordered, NEW b \in Blocks, Sent(b)
  PROVE  Moved(b)
BY Movers DEF Ordered, Lined, Sent, Moved, SendAt

(* What is received leaves its message                                     *)
LEMMA ReceivePlaced ==
  ASSUME Ordered, Flow, Placed, NEW l \in Lists, Receive(l)
  PROVE  Ordered' /\ Flow' /\ Placed' /\ Onward
<1> DEFINE some == {b \in l.blocks : Ready(b)}
<1>1. /\ held' = [b \in Blocks |-> IF b \in some THEN Kept(b) ELSE held[b]]
      /\ x' = x /\ vel' = vel /\ time' = time /\ going' = going /\ unborn' = unborn
      /\ set' = set /\ round' = round
  BY DEF Receive, Run
<1>2. /\ Ordered' /\ Flow'
      /\ some \subseteq Blocks
      /\ \A b \in Blocks : (Moved(b)' <=> Moved(b)) /\ (Sent(b)' <=> Sent(b))
      /\ \A b \in some : Sent(b)
      /\ \A k \in Links : k[2] \in some =>
           Len(buffer[k]) = 1 /\ buffer'[k] = <<>> /\ Head(buffer[k]) = buffer[k][1]
      /\ \A k \in Links : k[2] \notin some => buffer'[k] = buffer[k]
  BY ReceiveFlow
<1> HIDE DEF some
<1>3. ASSUME NEW b \in some, NEW p \in Kept(b)
      PROVE  p \in held[b] \/ \E k \in Links : k[2] = b /\ Lies(p, k)
  <2>1. p \in Unloaded(b) /\ b \in Blocks
    BY <1>2 DEF Kept
  <2>2. ASSUME p \notin held[b] PROVE \E k \in Links : k[2] = b /\ Lies(p, k)
    <3>1. PICK k \in Inbox(b) : p \in Head(buffer[k])
      BY <2>1, <2>2 DEF Unloaded
    <3>2. k \in Links /\ k[2] = b
      BY <2>1, InboxLinks
    <3>3. Len(buffer[k]) = 1 /\ Head(buffer[k]) = buffer[k][1] /\ buffer[k] \in Seq(SUBSET Particles)
      BY <1>2, <3>2 DEF Flow, Typed
    <3>4. buffer[k] # <<>>
      BY <3>3, Singleton
    <3>5. Lies(p, k)
      BY <3>1, <3>2, <3>3, <3>4, LinkSpot
    <3> QED BY <3>2, <3>5
  <2> QED BY <2>2
<1>4. ASSUME NEW p \in Particles, NEW y \in Spots, Lies(p, y)'
      PROVE  \E z \in Spots : /\ Lies(p, z) /\ z[2] = y[2]
                              /\ y[1] # y[2] => z = y /\ y[2] \notin some
                              /\ y[1] = y[2] => z = y \/ (z[1] # z[2] /\ y[2] \in some)
  <2>1. CASE y[1] = y[2] /\ y[1] \in some
    <3>1. y[1] \in Blocks /\ p \in Kept(y[1])
      BY <1>1, <1>2, <1>4, <2>1, Held
    <3>2. CASE p \in held[y[1]]
      BY <2>1, <3>2, Held
    <3>3. CASE \E k \in Links : k[2] = y[1] /\ Lies(p, k)
      BY <2>1, <3>3, LinkSpot, LinkEnds
    <3> QED BY <1>3, <2>1, <3>1, <3>2, <3>3
  <2>2. CASE y[1] = y[2] /\ y[1] \notin some
    <3>1. y[1] \in Blocks /\ p \in held'[y[1]]
      BY <1>4, <2>2, Held, SpotKinds
    <3>2. Lies(p, y)
      BY <1>1, <2>2, <3>1, Held
    <3> QED BY <2>2, <3>2
  <2>3. CASE y[1] # y[2]
    <3>1. y \in Links
      BY <2>3, SpotKinds
    <3>2. y[2] \notin some
      BY <1>2, <1>4, <3>1, LinkSpot
    <3>3. Lies(p, y)
      BY <1>2, <1>4, <2>3, <3>1, <3>2, Carried
    <3> QED BY <2>3, <3>2, <3>3
  <2> QED BY <2>1, <2>2, <2>3
<1>5. ASSUME NEW p \in Particles, NEW y \in Spots, NEW z \in Spots, Lies(p, y)', Lies(p, z)'
      PROVE  y = z
  <2>1. PICK u \in Spots : /\ Lies(p, u) /\ u[2] = y[2]
                           /\ y[1] # y[2] => u = y /\ y[2] \notin some
                           /\ y[1] = y[2] => u = y \/ (u[1] # u[2] /\ y[2] \in some)
    BY <1>4, <1>5
  <2>2. PICK v \in Spots : /\ Lies(p, v) /\ v[2] = z[2]
                           /\ z[1] # z[2] => v = z /\ z[2] \notin some
                           /\ z[1] = z[2] => v = z \/ (v[1] # v[2] /\ z[2] \in some)
    BY <1>4, <1>5
  <2>3. u = v
    BY <2>1, <2>2 DEF Placed, Once
  <2>4. y[2] = z[2]
    BY <2>1, <2>2, <2>3
  <2>5. CASE y[1] = y[2] /\ z[1] = z[2]
    BY <2>4, <2>5, SpotKinds
  <2>6. CASE y[1] # y[2] /\ z[1] # z[2]
    BY <2>1, <2>2, <2>3, <2>6
  <2>7. CASE y[1] # y[2] /\ z[1] = z[2]
    BY <2>1, <2>2, <2>3, <2>4, <2>7
  <2>8. CASE y[1] = y[2] /\ z[1] # z[2]
    BY <2>1, <2>2, <2>3, <2>4, <2>8
  <2> QED BY <2>5, <2>6, <2>7, <2>8
<1>6. ASSUME NEW p \in Particles, NEW y \in Spots, Lies(p, y)'
      PROVE  p \notin unborn' /\ time'[p] = IF Done(y)' THEN round' ELSE round' - 1
  <2>1. PICK u \in Spots : /\ Lies(p, u) /\ u[2] = y[2]
                           /\ y[1] # y[2] => u = y /\ y[2] \notin some
                           /\ y[1] = y[2] => u = y \/ (u[1] # u[2] /\ y[2] \in some)
    BY <1>4, <1>6
  <2>2. p \notin unborn /\ time[p] = IF Done(u) THEN round ELSE round - 1
    BY <2>1 DEF Placed, Timely
  <2>3. Done(y)' <=> Done(u)
    <3>1. CASE u = y
      BY <1>2, <3>1, SpotKinds DEF Done
    <3>2. CASE u # y
      <4>1. y[1] = y[2] /\ u[1] # u[2] /\ y[1] \in some
        BY <2>1, <3>2
      <4>2. y[1] \in Blocks /\ Sent(y[1])
        BY <1>2, <4>1
      <4>3. Moved(y[1])'
        BY <1>2, <4>2, SentMoved
      <4> QED BY <4>1, <4>3 DEF Done
    <3> QED BY <3>1, <3>2
  <2> QED BY <1>1, <2>2, <2>3
<1>7. ASSUME MC, NEW p \in Particles, NEW y \in Spots, Lies(p, y)' PROVE Headed(p, y)'
  <2>1. PICK u \in Spots : /\ Lies(p, u) /\ u[2] = y[2]
                           /\ y[1] # y[2] => u = y /\ y[2] \notin some
                           /\ y[1] = y[2] => u = y \/ (u[1] # u[2] /\ y[2] \in some)
    BY <1>4, <1>7
  <2>2. Headed(p, u)
    BY <1>7, <2>1 DEF Placed, Homed
  <2>3. Where(p)' = Where(p) /\ going'[p] = going[p]
    BY <1>1 DEF Where
  <2>4. y[1] = y[2] => (Leaves(y[1])' <=> Leaves(y[1]))
    BY <1>2, SpotKinds DEF Leaves
  <2>5. CASE u = y
    BY <2>2, <2>3, <2>4, <2>5 DEF Headed
  <2>6. CASE u # y
    <3>1. y[1] = y[2] /\ u[1] # u[2] /\ y[1] \in some
      BY <2>1, <2>6
    <3>2. ~Leaves(y[1])
      BY <1>2, <3>1 DEF Leaves
    <3>3. Where(p) = y[2]
      BY <2>1, <2>2, <3>1 DEF Headed
    <3> QED BY <2>3, <2>4, <3>1, <3>2, <3>3 DEF Headed
  <2> QED BY <2>5, <2>6
<1>8. Homed'
  BY <1>1, <1>7 DEF Placed, Homed, MC
<1>9. Once' /\ Timely'
  BY <1>5, <1>6 DEF Once, Timely
<1>10. Onward
  BY <1>1, <1>4 DEF Onward
<1> QED BY <1>1, <1>2, <1>8, <1>9, <1>10 DEF Placed

(* Emission of new particles, from the time the step began                 *)
LEMMA SourcePlaced ==
  ASSUME Ordered, Flow, Placed, NEW l \in Lists, SourceParticles(l)
  PROVE  /\ Ordered' /\ Flow' /\ Placed' /\ round' = round
         /\ \A p \in Particles : \A y \in Spots : Lies(p, y) => Lies(p, y)' /\ time'[p] = time[p]
         /\ \A p \in Particles : \A y \in Spots : Lies(p, y)' /\ ~Lies(p, y) =>
              time'[p] = round - 1 /\ \A z \in Spots : ~Lies(p, z)
<1>1. /\ Run(l, "SourceParticles") /\ Pending(l, "SourceParticles")
      /\ vel' = vel /\ buffer' = buffer /\ arrived' = arrived
      /\ set' = set /\ round' = round
  BY DEF SourceParticles, Run
<1>2. PICK S \in SUBSET unborn, b \in l.blocks :
        Born(S, b) /\ held' = [held EXCEPT ![b] = @ \union Staying(S)]
  BY DEF SourceParticles, Emissions
<1>3. MC /\ b \in Blocks /\ ~Moved(b)
  BY <1>1, <1>2, TaskOfMover, Before
<1>4. /\ x' = [p \in Particles |-> IF p \in S THEN b ELSE x[p]]
      /\ time' = [p \in Particles |-> IF p \in S THEN round - 1 ELSE time[p]]
      /\ going' = [p \in Particles |-> IF p \in S THEN b ELSE going[p]]
      /\ unborn' = unborn \ S
  BY <1>2 DEF Born
<1>5. Staying(S) \subseteq S /\ S \subseteq unborn /\ unborn \subseteq Particles
  BY DEF Staying, Flow, Typed
<1>6. /\ held'[b] = held[b] \union Staying(S) /\ \A c \in Blocks : c # b => held'[c] = held[c]
      /\ held' \in [Blocks -> SUBSET Particles]
  BY <1>2, <1>3, <1>5 DEF Flow, Typed
<1> HIDE DEF Staying
<1>7. Typed'
  BY <1>1, <1>4, <1>6 DEF Flow, Typed
<1>8. Ordered' /\ Flow'
  BY <1>1, <1>7, RunOrdered, TaskFlow
<1>9. \A c \in Blocks : (Moved(c)' <=> Moved(c)) /\ (Sent(c)' <=> Sent(c))
  BY <1>1, After DEF Moves
<1>10. \A y \in Spots : (Done(y)' <=> Done(y)) /\ (y[1] = y[2] => (Leaves(y[1])' <=> Leaves(y[1])))
  BY <1>9, SpotKinds DEF Done, Leaves
<1>11. ASSUME NEW p \in Particles, NEW y \in Spots, Lies(p, y)
       PROVE  p \notin S /\ time'[p] = time[p] /\ x'[p] = x[p] /\ going'[p] = going[p]
  <2>1. p \notin S
    BY <1>5, <1>11 DEF Placed, Timely
  <2> QED BY <1>4, <2>1
<1>12. ASSUME NEW p \in Particles, NEW y \in Spots, Lies(p, y) PROVE Lies(p, y)'
  BY <1>1, <1>6, <1>12, SpotKinds DEF Lies
<1>13. ASSUME NEW p \in Particles, NEW y \in Spots, Lies(p, y)'
       PROVE  Lies(p, y) \/ (p \in S /\ y = <<b, b>>)
  <2>1. CASE y[1] = y[2]
    <3>1. p \in held'[y[1]] /\ y[1] \in Blocks /\ y = <<y[1], y[1]>>
      BY <1>13, <2>1, Held, SpotKinds
    <3>2. p \in held[y[1]] \/ (y[1] = b /\ p \in S)
      BY <1>5, <1>6, <3>1
    <3> QED BY <2>1, <3>1, <3>2, Held
  <2>2. CASE y[1] # y[2]
    BY <1>1, <1>13, <2>2, Carried
  <2> QED BY <2>1, <2>2
<1>14. Once'
  <2>1. ASSUME NEW p \in Particles, NEW y \in Spots, NEW z \in Spots, Lies(p, y)', Lies(p, z)'
        PROVE  y = z
    BY <1>11, <1>13, <2>1 DEF Placed, Once
  <2> QED BY <2>1 DEF Once
<1>15. ASSUME NEW p \in Particles, NEW y \in Spots, Lies(p, y)'
       PROVE  p \notin unborn' /\ time'[p] = IF Done(y)' THEN round' ELSE round' - 1
  <2>1. CASE Lies(p, y)
    BY <1>1, <1>4, <1>10, <1>11, <2>1 DEF Placed, Timely
  <2>2. CASE p \in S /\ y = <<b, b>>
    <3>1. ~Done(y)
      BY <1>3, <2>2 DEF Done
    <3> QED BY <1>1, <1>4, <1>10, <2>2, <3>1
  <2> QED BY <1>13, <1>15, <2>1, <2>2
<1>16. ASSUME NEW p \in Particles, NEW y \in Spots, Lies(p, y)' PROVE Headed(p, y)'
  <2>1. CASE Lies(p, y)
    <3>1. Headed(p, y)
      BY <1>3, <2>1 DEF Placed, Homed
    <3> QED BY <1>10, <1>11, <2>1, <3>1 DEF Headed, Where
  <2>2. CASE p \in S /\ y = <<b, b>>
    <3>1. y[1] = b /\ y[2] = b /\ ~Leaves(b)'
      BY <1>3, <1>9, <2>2 DEF Leaves
    <3>2. x'[p] = b /\ GetNeighborBlockIndex(b) = b
      BY <1>3, <1>4, <2>2, NeighbourIndex DEF Blocks
    <3> QED BY <3>1, <3>2 DEF Headed, Where
  <2> QED BY <1>13, <1>16, <2>1, <2>2
<1>17. x' \in [Particles -> Int] /\ vel' \in [Particles -> -1 .. 1]
  BY <1>1, <1>3, <1>4 DEF Placed, Homed, Blocks
<1>18. Homed' /\ Timely' /\ time' \in [Particles -> Int]
  BY <1>4, <1>15, <1>16, <1>17 DEF Homed, Timely, Placed, Ordered, Lined
<1>19. ASSUME NEW p \in Particles, NEW y \in Spots, Lies(p, y)', ~Lies(p, y)
       PROVE  time'[p] = round - 1 /\ \A z \in Spots : ~Lies(p, z)
  <2>1. p \in S
    BY <1>13, <1>19
  <2> QED BY <1>4, <1>11, <2>1
<1> QED BY <1>1, <1>8, <1>11, <1>12, <1>14, <1>18, <1>19 DEF Placed

LEMMA EndPlaced ==
  ASSUME Ordered, Flow, Placed, EndRound
  PROVE  /\ Ordered' /\ Flow' /\ Placed' /\ round' = round + 1 /\ time' = time
         /\ \A p \in Particles : \A y \in Spots : /\ Lies(p, y)' <=> Lies(p, y)
                                                  /\ Lies(p, y) => time[p] = round
<1>1. /\ x' = x /\ vel' = vel /\ going' = going /\ time' = time /\ held' = held
      /\ unborn' = unborn /\ buffer' = buffer /\ set' = set /\ round' = round + 1
  BY DEF Over, EndRound, swarm
<1>2. /\ Flow'
      /\ \A k \in Links : buffer[k] = <<>>
      /\ \A b \in Blocks : Moved(b) /\ Sent(b) /\ ~Moved(b)' /\ ~Sent(b)'
  BY EndFlow
<1>3. \A p \in Particles : \A y \in Spots : Lies(p, y)' <=> Lies(p, y)
  BY <1>1 DEF Lies
<1>4. ASSUME NEW p \in Particles, NEW y \in Spots, Lies(p, y)
      PROVE  /\ y[1] = y[2] /\ Done(y) /\ ~Done(y)'
             /\ ~Leaves(y[1]) /\ ~Leaves(y[1])'
  <2>1. y[1] = y[2] /\ y[1] \in Blocks
    BY <1>2, <1>4, SpotKinds, LinkSpot
  <2> QED BY <1>2, <2>1 DEF Done, Leaves
<1>5. ASSUME NEW p \in Particles, NEW y \in Spots, Lies(p, y)
      PROVE  time[p] = round /\ p \notin unborn
  BY <1>4, <1>5 DEF Placed, Timely
<1>6. Timely'
  <2>1. ASSUME NEW p \in Particles, NEW y \in Spots, Lies(p, y)'
        PROVE  p \notin unborn' /\ time'[p] = IF Done(y)' THEN round' ELSE round' - 1
    <3>1. Lies(p, y) /\ round \in Int
      BY <1>3, <2>1 DEF Ordered, Lined
    <3>2. time[p] = round /\ p \notin unborn /\ ~Done(y)'
      BY <1>4, <1>5, <3>1
    <3> QED BY <1>1, <3>1, <3>2
  <2> QED BY <2>1 DEF Timely
<1>7. ASSUME MC, NEW p \in Particles, NEW y \in Spots, Lies(p, y)' PROVE Headed(p, y)'
  <2>1. Lies(p, y)
    BY <1>3, <1>7
  <2>2. Headed(p, y)
    BY <1>7, <2>1 DEF Placed, Homed
  <2>3. Where(p)' = Where(p)
    BY <1>1 DEF Where
  <2> QED BY <1>4, <2>1, <2>2, <2>3 DEF Headed
<1>8. Homed'
  BY <1>1, <1>7 DEF Placed, Homed, MC
<1>9. Once'
  BY <1>3 DEF Placed, Once
<1> QED BY <1>1, <1>2, <1>3, <1>5, <1>6, <1>8, <1>9, EndOrdered DEF Placed

LEMMA InitLined == Init => Lined
<1> SUFFICES ASSUME Init PROVE Lined
  OBVIOUS
<1>1. /\ round = 1 /\ region = [r \in Ranks |-> 1] /\ at = [l \in Lists |-> 1]
  BY DEF Init
<1>2. OneOfThree
  BY SwarmsAssumption DEF Init, OneOfThree
<1>3. \A k \in Lists : at[k] = 1 /\ region[k.rank] = 1
  BY <1>1, <1>2, MethodLists
<1>4. at \in [Lists -> Nat \ {0}] /\ region \in [Ranks -> Nat \ {0}] /\ round \in Nat \ {0}
  BY <1>1
<1>5. \A k \in Lists : ~(region[k.rank] > k.region)
  BY <1>2, <1>3, Regions
<1> QED BY <1>2, <1>3, <1>4, <1>5 DEF Lined

(* Runs of Monte Carlo and tracers only                                    *)
NoSamples == \A o \in Options : o.method # "mocmc"

LEMMA InitPlaced == ASSUME NoSamples, Init PROVE Ordered /\ Flow /\ Placed
<1>1. /\ round = 1 /\ region = [r \in Ranks |-> 1] /\ at = [l \in Lists |-> 1]
      /\ held = [b \in Blocks |-> InitSamples(b)]
      /\ buffer = [k \in Links |-> <<>>] /\ arrived = [b \in Blocks |-> TRUE]
      /\ unborn = IF MC THEN Reserve ELSE {}
      /\ time = [p \in Particles |-> 0]
  BY DEF Init, MC
<1>3. x \in [Particles -> Int] /\ vel \in [Particles -> -1 .. 1]
  BY SwarmsAssumption DEF Init
<1>4. \A k \in Lists : at[k] = 1
  BY <1>1
<1>5. Ordered
  <2>1. set.method # "mocmc"
    BY DEF Init, NoSamples
  <2> QED BY <2>1, InitLined DEF Ordered
<1>6. \A b \in Blocks : ~Moved(b) /\ ~Sent(b) /\ ~WasReset(b) /\ ~Received(b)
  <2>1. ASSUME NEW b \in Blocks PROVE at[Mover(b)] = 1 /\ at[Resetter(b)] = 1 /\ SendAt \in {3, 4}
    BY <1>4, <1>5, Movers DEF SendAt
  <2> QED BY <2>1 DEF Moved, Sent, WasReset, Received
<1>7. Typed
  <2>1. held \in [Blocks -> SUBSET Particles] /\ unborn \subseteq Particles
    BY <1>1, SwarmsAssumption DEF InitSamples
  <2>2. \A k \in Links : buffer[k] \in Seq(SUBSET Particles)
    BY <1>1, EmptySeq
  <2> QED BY <1>1, <2>1, <2>2 DEF Typed
<1>8. Flow
  <2>1. \A k \in Links : ~Waiting(k) /\ buffer[k] = <<>> /\ ~Taken(k[2])
    BY <1>1, <1>6, LinkEnds DEF Waiting, Taken
  <2> QED BY <1>6, <1>7, <2>1 DEF Flow
<1>9. ASSUME NEW p \in Particles, NEW y \in Spots, Lies(p, y)
      PROVE  y[1] \in Blocks /\ y = <<y[1], y[1]>> /\ x[p] = y[1] /\ p \notin unborn
  <2>1. y[1] = y[2] /\ y[1] \in Blocks /\ y = <<y[1], y[1]>>
    BY <1>1, <1>9, SpotKinds, LinkSpot
  <2>2. p \in held[y[1]]
    BY <1>9, <2>1, Held
  <2> QED BY <1>1, <2>1, <2>2 DEF InitSamples
<1>10. Once
  BY <1>9 DEF Once
<1>11. Timely
  <2>1. ASSUME NEW p \in Particles, NEW y \in Spots, Lies(p, y)
        PROVE  p \notin unborn /\ time[p] = IF Done(y) THEN round ELSE round - 1
    <3>1. ~Done(y)
      BY <1>6, <1>9, <2>1 DEF Done
    <3> QED BY <1>1, <1>9, <2>1, <3>1
  <2> QED BY <2>1 DEF Timely
<1>12. ASSUME NEW p \in Particles, NEW y \in Spots, Lies(p, y) PROVE Headed(p, y)
  <2>1. y[1] \in Blocks /\ y[2] = y[1] /\ x[p] = y[1] /\ ~Leaves(y[1])
    BY <1>6, <1>9, <1>12 DEF Leaves
  <2>2. Where(p) = y[1]
    BY <2>1, NeighbourIndex DEF Where, Blocks
  <2> QED BY <2>1, <2>2 DEF Headed
<1>13. Homed
  BY <1>3, <1>12 DEF Homed
<1> QED BY <1>1, <1>5, <1>8, <1>10, <1>11, <1>13 DEF Placed

LEMMA SameState ==
  ASSUME Ordered, Flow, Placed,
         x' = x, vel' = vel, going' = going, time' = time, held' = held, unborn' = unborn,
         buffer' = buffer, arrived' = arrived, set' = set, round' = round, region' = region,
         at' = at
  PROVE  Ordered' /\ Flow' /\ Placed'
<1>1. Ordered'
  BY DEF Ordered, Lined, OneOfThree, Lists
<1>2. \A q \in Particles : \A z \in Spots : Lies(q, z)' <=> Lies(q, z)
  BY DEF Lies
<1>3. Typed'
  BY DEF Flow, Typed
<1>4. Flow'
  BY <1>3, SameMarks, FlowKept
<1>5. Homed'
  BY <1>2, SameMarks, SameHome
<1>6. Once' /\ Timely' /\ time' \in [Particles -> Int]
  BY <1>2, SameMarks, Fewer
<1> QED BY <1>1, <1>4, <1>5, <1>6 DEF Placed

----------------------------------------------------------------------------
(* All tasks                                                               *)

LEMMA TaskPlaced ==
  ASSUME Ordered, Flow, Placed, NEW l \in Lists, ListTask(l), ~SourceParticles(l)
  PROVE  Ordered' /\ Flow' /\ Placed' /\ Onward
<1>1. CASE \/ ResetCommunication(l) \/ Send(l) \/ Receive(l) \/ Transport(l)
           \/ PurgeParticles(l) \/ SampleBoundaries(l) \/ MOCMCTransport(l) \/ AdvectTracers(l)
  BY <1>1, ResetPlaced, SendPlaced, ReceivePlaced, TransportPlaced, PurgePlaced,
     BoundaryPlaced, SamplesPlaced
<1>2. ASSUME NEW task, Run(l, task),
             task \in {"Defrag", "ApplyRadiationFourForce", "UpdateParticleResolution",
                       "TotalEmissivity", "StartReduce", "CheckReduce", "UpdateTuning",
                       "Reconstruction", "Eddington", "FluidSource"},
             /\ x' = x /\ vel' = vel /\ going' = going /\ time' = time /\ held' = held
             /\ unborn' = unborn /\ buffer' = buffer /\ arrived' = arrived
      PROVE  Ordered' /\ Flow' /\ Placed' /\ Onward
  <2>1. task \notin Moves /\ task \notin {"Send", "Receive", "ResetCommunication"}
    BY <1>2 DEF Moves
  <2> QED BY <1>2, <2>1, Quiet
<1>3. CASE Defrag(l) \/ Eddington(l) \/ TotalEmissivity(l)
  BY <1>2, <1>3 DEF Defrag, Eddington, TotalEmissivity, swarm
<1>4. CASE ApplyRadiationFourForce(l) \/ FluidSource(l)
  BY <1>2, <1>4 DEF ApplyRadiationFourForce, FluidSource, swarm
<1>5. CASE UpdateParticleResolution(l) \/ StartReduce(l) \/ CheckReduce(l)
  BY <1>2, <1>5 DEF UpdateParticleResolution, StartReduce, CheckReduce, swarm
<1>6. CASE UpdateTuning(l)
  BY <1>2, <1>6 DEF UpdateTuning, swarm
<1>7. CASE Reconstruction(l)
  BY <1>2, <1>7 DEF Reconstruction
<1> QED BY <1>1, <1>3, <1>4, <1>5, <1>6, <1>7 DEF ListTask

LEMMA StepPlaced ==
  ASSUME Ordered, Flow, Placed, Next
  PROVE  /\ Ordered' /\ Flow' /\ Placed'
         /\ Onward \/ EndRound \/ (\E l \in Lists : SourceParticles(l)) \/ UNCHANGED vars
<1>1. CASE EndRound
  BY <1>1, EndPlaced
<1>2. CASE Finished
  <2>1. UNCHANGED vars
    BY <1>2 DEF Finished
  <2>2. /\ x' = x /\ vel' = vel /\ going' = going /\ time' = time /\ held' = held
        /\ unborn' = unborn /\ buffer' = buffer /\ arrived' = arrived
        /\ set' = set /\ round' = round /\ region' = region /\ at' = at
    BY <2>1 DEF vars, swarm
  <2> QED BY <2>1, <2>2, SameState
<1>3. CASE \E r \in Ranks : RankStep(r)
  <2>1. PICK r \in Ranks : RankStep(r)
    BY <1>3
  <2>2. CASE RegionComplete(r)
    BY <2>2, RegionPlaced
  <2>3. CASE \E l \in Here(r) : ListTask(l)
    <3>1. PICK l \in Lists : ListTask(l)
      BY <2>3 DEF Here
    <3>2. CASE SourceParticles(l)
      BY <3>2, SourcePlaced
    <3>3. CASE ~SourceParticles(l)
      BY <3>1, <3>3, TaskPlaced
    <3> QED BY <3>2, <3>3
  <2> QED BY <2>1, <2>2, <2>3 DEF RankStep
<1> QED BY <1>1, <1>2, <1>3 DEF Next

----------------------------------------------------------------------------
(* The refinement                                                          *)

LEMMA AliveSpots ==
  Flow => \A p : p \in Alive <=> p \in Particles /\ \E y \in Spots : Lies(p, y)
<1> SUFFICES ASSUME Flow, NEW p \in Particles
             PROVE  p \in Alive <=> \E y \in Spots : Lies(p, y)
  BY DEF Alive
<1>1. ASSUME NEW k \in Links
      PROVE  (\E i \in DOMAIN buffer[k] : p \in buffer[k][i]) <=> Lies(p, k)
  <2>1. buffer[k] \in Seq(SUBSET Particles) /\ (Len(buffer[k]) = 1 \/ buffer[k] = <<>>)
    BY DEF Flow, Typed
  <2>2. CASE Len(buffer[k]) = 1
    <3>1. DOMAIN buffer[k] = {1} /\ buffer[k] # <<>>
      BY <2>1, <2>2, Singleton
    <3> QED BY <3>1, LinkSpot
  <2>3. CASE buffer[k] = <<>>
    <3>1. DOMAIN buffer[k] = {}
      BY <2>3
    <3> QED BY <2>3, <3>1, LinkSpot
  <2> QED BY <2>1, <2>2, <2>3
<1>2. ASSUME NEW y \in Spots, Lies(p, y) PROVE p \in Alive
  <2>1. CASE y[1] = y[2]
    <3>1. y[1] \in Blocks /\ p \in held[y[1]]
      BY <1>2, <2>1, SpotKinds, Held
    <3> QED BY <3>1 DEF Alive
  <2>2. CASE y[1] # y[2]
    <3>1. y \in Links
      BY <2>2, SpotKinds
    <3> QED BY <1>1, <1>2, <3>1 DEF Alive
  <2> QED BY <2>1, <2>2
<1>3. ASSUME p \in Alive PROVE \E y \in Spots : Lies(p, y)
  <2>1. CASE \E b \in Blocks : p \in held[b]
    BY <2>1, BlockSpot
  <2>2. CASE \E k \in Links : \E i \in DOMAIN buffer[k] : p \in buffer[k][i]
    BY <1>1, <2>2, LinkSpot
  <2> QED BY <1>3, <2>1, <2>2 DEF Alive
<1> QED BY <1>2, <1>3

LEMMA AliveSpotsNext ==
  Flow' => \A p : p \in Alive' <=> p \in Particles /\ \E y \in Spots : Lies(p, y)'
<1>1. (Flow => \A p : p \in Alive <=> p \in Particles /\ \E y \in Spots : Lies(p, y))'
  BY AliveSpots, PTL
<1>2. Spots' = Spots
  BY DEF Spots, Links, Neighbours, Blocks
<1> QED BY <1>1, <1>2

(* What ParticleStep is given *)
Advances == IF set.method = "mocmc" THEN NStages ELSE 1
TimeOf == [p \in Particles |-> IF p \in Alive THEN time[p] ELSE 0]

LEMMA AdvanceRefined ==
  ASSUME Ordered, Ordered', Flow, Flow', Onward PROVE Abstract!Advance
<1>1. \A p \in Alive' : p \in Alive
  BY AliveSpots, AliveSpotsNext DEF Onward
<1>2. ASSUME NEW p \in Particles
      PROVE  IF p \in Alive' THEN \/ TimeOf'[p] = TimeOf[p]
                                  \/ TimeOf[p] < round /\ TimeOf'[p] = TimeOf[p] + 1
             ELSE TimeOf'[p] = 0
  <2>1. TimeOf[p] = (IF p \in Alive THEN time[p] ELSE 0)
    BY DEF TimeOf
  <2>2. TimeOf'[p] = IF p \in Alive' THEN time'[p] ELSE 0
    BY DEF TimeOf
  <2>3. p \in Alive' => time'[p] = time[p] \/ (time[p] = round - 1 /\ time'[p] = round)
    BY AliveSpotsNext DEF Onward
  <2>4. round - 1 + 1 = round /\ round - 1 < round
    BY DEF Ordered, Lined
  <2> QED BY <1>1, <2>1, <2>2, <2>3, <2>4
<1>3. round' = round /\ Advances = 1 /\ Advances' = 1
  BY DEF Onward, Ordered, Advances
<1>4. (round - 1) * 1 + 1 = round
  BY DEF Ordered, Lined
<1> QED BY <1>1, <1>2, <1>3, <1>4
        DEF Abstract!Advance, Abstract!Ends, Abstract!Began, TimeOf, Advances

LEMMA EmitRefined ==
  ASSUME Ordered, Flow, Placed, NEW l \in Lists, SourceParticles(l)
  PROVE  Abstract!Emit
<1>1. /\ Flow' /\ round' = round
      /\ \A p \in Particles : \A y \in Spots : Lies(p, y) => Lies(p, y)' /\ time'[p] = time[p]
      /\ \A p \in Particles : \A y \in Spots : Lies(p, y)' /\ ~Lies(p, y) =>
           time'[p] = round - 1 /\ \A z \in Spots : ~Lies(p, z)
  BY SourcePlaced
<1>2. \A p \in Alive : p \in Alive' /\ time'[p] = time[p]
  BY <1>1, AliveSpots, AliveSpotsNext
<1>3. \A p \in Alive' : p \notin Alive => time'[p] = round - 1
  BY <1>1, AliveSpots, AliveSpotsNext
<1>4. TimeOf' = [p \in Particles |-> IF p \in Alive' \ Alive THEN round - 1 ELSE TimeOf[p]]
  <2>1. \A p \in Particles : TimeOf'[p] = IF p \in Alive' \ Alive THEN round - 1 ELSE TimeOf[p]
    BY <1>2, <1>3 DEF TimeOf
  <2>2. TimeOf' = [p \in Particles |-> TimeOf'[p]]
    BY DEF TimeOf
  <2> QED BY <2>1, <2>2
<1>5. Advances = 1 /\ Advances' = 1
  BY DEF SourceParticles, Run, Ordered, Advances
<1>6. (round - 1) * 1 = round - 1
  BY DEF Ordered, Lined
<1> QED BY <1>1, <1>2, <1>4, <1>5, <1>6 DEF Abstract!Emit, Abstract!Began, TimeOf, Advances

LEMMA EndRefined ==
  ASSUME Ordered, Flow, Placed, EndRound
  PROVE  Abstract!EndStep
<1>1. /\ Flow' /\ round' = round + 1 /\ time' = time
      /\ \A p \in Particles : \A y \in Spots : /\ Lies(p, y)' <=> Lies(p, y)
                                               /\ Lies(p, y) => time[p] = round
  BY EndPlaced
<1>2. Alive' = Alive
  BY <1>1, AliveSpots, AliveSpotsNext
<1>3. \A p \in Alive : p \in Particles /\ time[p] = round
  BY <1>1, AliveSpots
<1>4. TimeOf' = TimeOf
  BY <1>1, <1>2 DEF TimeOf
<1>5. \A p \in Alive : TimeOf[p] = round - 1 + 1
  BY <1>3 DEF TimeOf, Ordered, Lined
<1>6. round' - 1 = round - 1 + 1
  BY <1>1 DEF Ordered, Lined
<1>7. Advances = 1 /\ Advances' = 1
  BY DEF Over, EndRound, Ordered, Advances
<1>8. (round - 1) * 1 + 1 = round - 1 + 1
  BY DEF Ordered, Lined
<1> QED BY <1>2, <1>4, <1>5, <1>6, <1>7, <1>8
        DEF Abstract!EndStep, Abstract!Ends, Abstract!Began, TimeOf, Advances

LEMMA InitRefined == Init => Abstract!Init
<1> SUFFICES ASSUME Init PROVE Abstract!Init
  OBVIOUS
<1>1. round = 1 /\ \A p \in Particles : time[p] = 0
  BY DEF Init
<1>2. Alive \in SUBSET Particles
  BY DEF Alive
<1>3. TimeOf = [p \in Particles |-> 0]
  BY <1>1 DEF TimeOf
<1>4. Advances \in Nat \ {0}
  BY SwarmsAssumption DEF Advances
<1> QED BY <1>1, <1>2, <1>3, <1>4 DEF Abstract!Init, TimeOf, Advances

LEMMA Invariance == Ordered /\ Flow /\ Placed /\ [Next]_vars => (Ordered /\ Flow /\ Placed)'
<1> SUFFICES ASSUME Ordered, Flow, Placed, [Next]_vars PROVE (Ordered /\ Flow /\ Placed)'
  OBVIOUS
<1>1. CASE Next
  BY <1>1, StepPlaced
<1>2. CASE UNCHANGED vars
  <2>1. /\ x' = x /\ vel' = vel /\ going' = going /\ time' = time /\ held' = held
        /\ unborn' = unborn /\ buffer' = buffer /\ arrived' = arrived
        /\ set' = set /\ round' = round /\ region' = region /\ at' = at
    BY <1>2 DEF vars, swarm
  <2> QED BY <2>1, SameState
<1> QED BY <1>1, <1>2

LEMMA StepRefined ==
  Ordered /\ Flow /\ Placed /\ [Next]_vars => [Abstract!Next]_(Abstract!vars)
<1> SUFFICES ASSUME Ordered, Flow, Placed, [Next]_vars
             PROVE  [Abstract!Next]_(Abstract!vars)
  OBVIOUS
<1>1. CASE UNCHANGED vars
  <2>1. held' = held /\ buffer' = buffer /\ time' = time /\ round' = round /\ set' = set
    BY <1>1 DEF vars, swarm
  <2>2. Alive' = Alive
    BY <2>1 DEF Alive
  <2> QED BY <2>1, <2>2 DEF Abstract!vars
<1>2. CASE Next /\ Onward
  <2>1. Abstract!Advance
    BY <1>2, Invariance, StepPlaced, AdvanceRefined
  <2> QED BY <2>1 DEF Abstract!Next
<1>3. CASE EndRound
  BY <1>3, EndRefined DEF Abstract!Next
<1>4. CASE \E l \in Lists : SourceParticles(l)
  BY <1>4, EmitRefined DEF Abstract!Next
<1> QED BY <1>1, <1>2, <1>3, <1>4, StepPlaced

(* Whatever the order of blocks and ranks, for Monte Carlo and tracers:    *)
(* each live particle, in a block or on its way, is advanced exactly once  *)
(* per step and disappears only by absorption, purge or outflow.           *)
THEOREM ParticlesAdvancedOnce == ASSUME NoSamples PROVE Spec => AdvancedOnce
<1>1. Init => Ordered /\ Flow /\ Placed
  BY InitPlaced
<1>2. Ordered /\ Flow /\ Placed /\ [Next]_vars => (Ordered /\ Flow /\ Placed)'
  BY Invariance
<1>3. Init => Abstract!Init
  BY InitRefined
<1>4. Ordered /\ Flow /\ Placed /\ [Next]_vars => [Abstract!Next]_(Abstract!vars)
  BY StepRefined
<1> QED BY <1>1, <1>2, <1>3, <1>4, PTL DEF Spec, AdvancedOnce, Abstract!Spec

LEMMA SpotsAtHome == Ordered /\ Flow /\ Placed => AtHomeOnce
<1> SUFFICES ASSUME Ordered, Flow, Placed PROVE AtHomeOnce
  OBVIOUS
<1>1. ASSUME NEW p \in Particles, NEW y \in Places(p)
      PROVE  \E s \in Spots : Lies(p, s) /\ y = <<s[1], s[2], IF s[1] = s[2] THEN 0 ELSE 1>>
  <2>1. CASE \E b \in Blocks : p \in held[b] /\ y = <<b, b, 0>>
    <3>1. PICK b \in Blocks : p \in held[b] /\ y = <<b, b, 0>>
      BY <2>1
    <3>2. <<b, b>> \in Spots /\ Lies(p, <<b, b>>)
      BY <3>1, BlockSpot
    <3> QED BY <3>1, <3>2
  <2>2. CASE \E k \in Links : \E i \in DOMAIN buffer[k] :
               p \in buffer[k][i] /\ y = <<k[1], k[2], i>>
    <3>1. PICK k \in Links : \E i \in DOMAIN buffer[k] : p \in buffer[k][i] /\ y = <<k[1], k[2], i>>
      BY <2>2
    <3>2. PICK i \in DOMAIN buffer[k] : p \in buffer[k][i] /\ y = <<k[1], k[2], i>>
      BY <3>1
    <3>3. buffer[k] \in Seq(SUBSET Particles) /\ (Len(buffer[k]) = 1 \/ buffer[k] = <<>>)
      BY DEF Flow, Typed
    <3>4. DOMAIN buffer[k] = 1 .. Len(buffer[k])
      BY <3>3
    <3>5. i = 1 /\ buffer[k] # <<>>
      BY <3>2, <3>3, <3>4
    <3>6. k \in Spots /\ Lies(p, k) /\ k[1] # k[2]
      BY <3>2, <3>5, LinkSpot, LinkEnds
    <3> QED BY <3>2, <3>5, <3>6
  <2> QED BY <1>1, <2>1, <2>2 DEF Places
<1>2. \A p \in Particles : \A y, z \in Places(p) : y = z
  <2>1. ASSUME NEW p \in Particles, NEW y \in Places(p), NEW z \in Places(p) PROVE y = z
    <3>1. PICK s \in Spots : Lies(p, s) /\ y = <<s[1], s[2], IF s[1] = s[2] THEN 0 ELSE 1>>
      BY <1>1
    <3>2. PICK t \in Spots : Lies(p, t) /\ z = <<t[1], t[2], IF t[1] = t[2] THEN 0 ELSE 1>>
      BY <1>1
    <3>3. s = t
      BY <3>1, <3>2 DEF Placed, Once
    <3> QED BY <3>1, <3>2, <3>3
  <2> QED BY <2>1
<1>3. ASSUME MC, AllComplete, NEW b \in Blocks, NEW p \in held[b]
      PROVE  GetNeighborBlockIndex(x[p]) = b
  <2>1. p \in Particles
    BY DEF Flow, Typed
  <2>2. <<b, b>> \in Spots /\ Lies(p, <<b, b>>)
    BY BlockSpot
  <2>3. Headed(p, <<b, b>>)
    BY <1>3, <2>1, <2>2 DEF Placed, Homed
  <2>4. ~Leaves(b)
    BY <1>3, StepOver DEF Leaves
  <2> QED BY <2>3, <2>4 DEF Headed, Where
<1> QED BY <1>2, <1>3 DEF AtHomeOnce, MC

(* For every method no particle is in two places, and a Monte Carlo        *)
(* particle ends the step in the block its position is in.                 *)
THEOREM ParticlesAtHome == ASSUME NoSamples PROVE Spec => []AtHomeOnce
<1>1. Init => Ordered /\ Flow /\ Placed
  BY InitPlaced
<1>2. Ordered /\ Flow /\ Placed /\ [Next]_vars => (Ordered /\ Flow /\ Placed)'
  BY Invariance
<1>3. Ordered /\ Flow /\ Placed => AtHomeOnce
  BY SpotsAtHome
<1> QED BY <1>1, <1>2, <1>3, PTL DEF Spec

----------------------------------------------------------------------------
(* What has been counted, and what a rank tunes to                         *)

Events == {"emitted", "absorbed"} \X Particles

(* What rank r has counted after round i, also as a sum over r alone; the  *)
(* round it last tuned in, now and before its tuning of this round, and    *)
(* the time its tuning was due at before that                              *)
Own(r, i) == UNION {exchanged[j][r] : j \in {n \in 1 .. NRounds : i < n /\ n <= round}}
Part(r, i) == [q \in {r} |-> Own(q, i)]
LastTuned(r) == TunedBefore(r, Len(tuned[r]) + 1)
TunedNow(r) == LastTuned(r) = round
Former(r) == IF TunedNow(r) THEN TunedBefore(r, Len(tuned[r])) ELSE LastTuned(r)
DueAt(r) == IF TunedNow(r) THEN t_tune[r] - DtTune ELSE t_tune[r]
Stage(r) == at[Tune3(r)]

TallyTyped ==
  /\ exchanged \in [1 .. NRounds -> [Ranks -> SUBSET Events]]
  /\ num \in [Ranks -> SUBSET Events] /\ t_tune \in [Ranks -> Int]
  /\ tuned \in [Ranks -> Seq([round : 1 .. NRounds, real : [Ranks -> SUBSET Events]])]
  /\ resolution = [r \in Ranks |-> resolution[r]] /\ given = [r \in Ranks |-> given[r]]
Counted(r) ==
  /\ num[r] = Own(r, LastTuned(r)) /\ LastTuned(r) <= round
  /\ \A k \in DOMAIN tuned[r] : tuned[r][k].round <= LastTuned(r)
  /\ TunedNow(r) <=> Stage(r) > 5 /\ set.tuning = "dynamic_difference" /\ DueAt(r) < round * Dt
Reduced(r) ==
  /\ Stage(r) = 1 => resolution[r] = <<>>
  /\ Stage(r) \in 2 .. 4 => resolution[r] = <<Part(r, Former(r))>>
  /\ Stage(r) = 5 => resolution[r] = <<[q \in Ranks |-> Own(q, Former(r))]>>
  /\ given[r] = IF Stage(r) > 3 THEN <<Part(r, Former(r))>> ELSE <<>>
  /\ Stage(r) > 4 => \A q \in Ranks : Stage(q) > 3
TunedAlike == \A q, r \in Ranks : Former(q) = Former(r) /\ DueAt(q) = DueAt(r)
NotYet == \A i \in 1 .. NRounds : i > round => \A r \in Ranks : exchanged[i][r] = {}
Tallied ==
  /\ TallyTyped /\ NotYet /\ TunedAlike /\ TuningCountsAll
  /\ \A r \in Ranks : Counted(r) /\ Reduced(r)
Tally == IF MC THEN Tallied ELSE \A r \in Ranks : tuned[r] = <<>>

TuningTasks == {"UpdateParticleResolution", "TotalEmissivity", "StartReduce", "CheckReduce",
                "UpdateTuning"}

(* The list of a rank that tunes, and how far it is                        *)
LEMMA TuningList ==
  ASSUME Ordered, MC, NEW r \in Ranks
  PROVE  /\ Tune3(r) \in Lists /\ Tune3(r).rank = r /\ Tune3(r).region = 3
         /\ Tune3(r).chain = <<"UpdateParticleResolution", "TotalEmissivity", "StartReduce",
                               "CheckReduce", "UpdateTuning">>
         /\ Stage(r) \in Nat \ {0} /\ Len(Tune3(r).chain) = 5
<1>1. /\ Tune3(r).rank = r /\ Tune3(r).region = 3
      /\ Tune3(r).chain = <<"UpdateParticleResolution", "TotalEmissivity", "StartReduce",
                            "CheckReduce", "UpdateTuning">>
  BY DEF Tune3, PerRank, Tuning
<1>2. Len(Tune3(r).chain) = 5
  BY <1>1
<1>3. Lists = MonteCarloStep
  BY DEF MC, Lists
<1>4. Tune3(r) \in Lists
  BY <1>3 DEF MonteCarloStep, Tune3
<1>5. Stage(r) \in Nat \ {0}
  BY <1>4 DEF Stage, Ordered, Lined
<1> QED BY <1>1, <1>2, <1>4, <1>5

LEMMA StageOf ==
  ASSUME Ordered, MC, NEW r \in Ranks, NEW task, Pending(Tune3(r), task)
  PROVE  /\ Stage(r) \in 1 .. 5 /\ task \in TuningTasks /\ round <= NRounds
         /\ Stage(r) = 1 <=> task = "UpdateParticleResolution"
         /\ Stage(r) = 2 <=> task = "TotalEmissivity"
         /\ Stage(r) = 3 <=> task = "StartReduce"
         /\ Stage(r) = 4 <=> task = "CheckReduce"
         /\ Stage(r) = 5 <=> task = "UpdateTuning"
<1> DEFINE n == Stage(r)
<1>1. /\ n \in Nat \ {0} /\ n <= 5 /\ round <= NRounds
      /\ task = <<"UpdateParticleResolution", "TotalEmissivity", "StartReduce",
                  "CheckReduce", "UpdateTuning">>[n]
  BY TuningList, ChainOf DEF Stage
<1> HIDE DEF n
<1>2. n \in {1, 2, 3, 4, 5}
  BY <1>1
<1>3. /\ n = 1 => task = "UpdateParticleResolution"
      /\ n = 2 => task = "TotalEmissivity"
      /\ n = 3 => task = "StartReduce"
      /\ n = 4 => task = "CheckReduce"
      /\ n = 5 => task = "UpdateTuning"
  BY <1>1
<1>4. /\ n = 1 <=> task = "UpdateParticleResolution"
      /\ n = 2 <=> task = "TotalEmissivity"
      /\ n = 3 <=> task = "StartReduce"
      /\ n = 4 <=> task = "CheckReduce"
      /\ n = 5 <=> task = "UpdateTuning"
  BY <1>2, <1>3
<1>5. task \in TuningTasks
  BY <1>2, <1>3 DEF TuningTasks
<1> QED BY <1>1, <1>2, <1>4, <1>5 DEF n

LEMMA TuningTask ==
  ASSUME Ordered, NEW l \in Lists, NEW task \in TuningTasks, Pending(l, task)
  PROVE  MC /\ l.rank \in Ranks /\ l = Tune3(l.rank)
<1>1. /\ at[l] \in Nat \ {0} /\ at[l] <= Len(l.chain) /\ task = l.chain[at[l]]
  BY ChainOf
<1> DEFINE n == at[l]
<1> HIDE DEF n
<1>2. CASE MC
  <2>1. ASSUME NEW r \in Ranks, l = ResetAlone(r) \/ l = Force4(r) PROVE FALSE
    <3>1. l.chain = <<"ResetCommunication">> \/ l.chain = <<"ApplyRadiationFourForce">>
      BY <2>1 DEF ResetAlone, Force4, PerRank
    <3>2. n = 1
      BY <1>1, <3>1 DEF n
    <3> QED BY <1>1, <3>1, <3>2 DEF n, TuningTasks
  <2>2. ASSUME NEW b \in Blocks, l = Packets(b) PROVE FALSE
    <3>1. l.chain = <<"SourceParticles", "Transport", "Send", "Receive">>
      BY <2>2 DEF Packets, PerBlock
    <3>2. n \in {1, 2, 3, 4}
      BY <1>1, <3>1 DEF n
    <3> QED BY <1>1, <3>1, <3>2 DEF n, TuningTasks
  <2>3. PICK r \in Ranks : l = Tune3(r)
    BY <1>2, <2>1, <2>2, OneMethod DEF MC
  <2>4. l.rank = r
    BY <2>3 DEF Tune3, PerRank
  <2> QED BY <1>2, <2>3, <2>4
<1>3. CASE set.method = "tracers"
  <2>1. PICK r \in Ranks : l = Advection(r)
    BY <1>3, OneMethod DEF MC
  <2>2. l.chain = <<"ResetCommunication", "AdvectTracers", "PurgeParticles", "Send", "Receive",
                    "Defrag">>
    BY <2>1 DEF Advection, PerRank
  <2>3. n \in {1, 2, 3, 4, 5, 6}
    BY <1>1, <2>2 DEF n
  <2> QED BY <1>1, <2>2, <2>3 DEF n, TuningTasks
<1> QED BY <1>2, <1>3 DEF Ordered, Lined, OneOfThree, MC

LEMMA OtherStages ==
  ASSUME Ordered, MC, NEW l \in Lists, NEW task, Run(l, task), NEW r \in Ranks, l # Tune3(r)
  PROVE  Stage(r)' = Stage(r)
<1>1. at' = [at EXCEPT ![l] = @ + 1] /\ at \in [Lists -> Nat \ {0}] /\ Tune3(r) \in Lists
  BY TuningList DEF Run, Ordered, Lined
<1> QED BY <1>1 DEF Stage

LEMMA OwnStage ==
  ASSUME Ordered, MC, NEW task, NEW r \in Ranks, Run(Tune3(r), task)
  PROVE  Stage(r)' = Stage(r) + 1 /\ \A q \in Ranks : q # r => Stage(q)' = Stage(q)
<1>1. /\ at' = [at EXCEPT ![Tune3(r)] = @ + 1] /\ at \in [Lists -> Nat \ {0}]
      /\ Tune3(r) \in Lists
  BY TuningList DEF Run, Ordered, Lined
<1>2. \A q \in Ranks : Tune3(q) \in Lists /\ Tune3(q).rank = q
  BY TuningList
<1>3. \A q \in Ranks : q # r => Tune3(q) # Tune3(r)
  BY <1>2
<1> QED BY <1>1, <1>2, <1>3 DEF Stage

LEMMA SameRounds ==
  ASSUME t_tune' = t_tune, tuned' = tuned, exchanged' = exchanged, round' = round, NEW r
  PROVE  /\ LastTuned(r)' = LastTuned(r) /\ (TunedNow(r)' <=> TunedNow(r))
         /\ Former(r)' = Former(r) /\ DueAt(r)' = DueAt(r)
         /\ \A i : Own(r, i)' = Own(r, i) /\ Part(r, i)' = Part(r, i)
<1>1. \A q, i : Own(q, i)' = Own(q, i)
  BY DEF Own
<1>2. \A i : Part(r, i)' = Part(r, i)
  BY <1>1 DEF Part
<1> QED BY <1>1, <1>2 DEF LastTuned, TunedNow, Former, DueAt, TunedBefore

LEMMA SameTotals ==
  ASSUME Tally, MC, tuned' = tuned, exchanged' = exchanged PROVE TuningCountsAll'
<1>1. ASSUME NEW r \in Ranks, NEW k \in DOMAIN tuned[r]
      PROVE  tuned[r][k].real = [q \in Ranks |-> CountedIn(q, TunedBefore(r, k),
                                                          tuned[r][k].round)]'
  <2>1. \A q, i, j : CountedIn(q, i, j)' = CountedIn(q, i, j)
    BY DEF CountedIn
  <2>2. TunedBefore(r, k)' = TunedBefore(r, k)
    BY DEF TunedBefore
  <2>3. tuned[r][k].real = [q \in Ranks |-> CountedIn(q, TunedBefore(r, k), tuned[r][k].round)]
    BY DEF Tally, Tallied, TuningCountsAll
  <2> QED BY <2>1, <2>2, <2>3
<1> QED BY <1>1 DEF TuningCountsAll

LEMMA SameTally ==
  ASSUME Tally, num' = num, resolution' = resolution, given' = given, t_tune' = t_tune,
         tuned' = tuned, exchanged' = exchanged, set' = set, round' = round,
         MC => \A r \in Ranks : Stage(r)' = Stage(r)
  PROVE  Tally'
<1>1. MC' <=> MC
  BY DEF MC
<1>2. CASE ~MC
  BY <1>1, <1>2 DEF Tally
<1>3. CASE MC
  <2>1. \A r : /\ LastTuned(r)' = LastTuned(r) /\ (TunedNow(r)' <=> TunedNow(r))
               /\ Former(r)' = Former(r) /\ DueAt(r)' = DueAt(r)
               /\ \A i : Own(r, i)' = Own(r, i) /\ Part(r, i)' = Part(r, i)
    BY SameRounds
  <2>2. TallyTyped'
    BY <1>3 DEF Tally, Tallied, TallyTyped, Events
  <2>3. NotYet' /\ TunedAlike'
    BY <1>3, <2>1 DEF Tally, Tallied, NotYet, TunedAlike
  <2>4. TuningCountsAll'
    BY <1>3, SameTotals
  <2>5. ASSUME NEW r \in Ranks PROVE Counted(r)' /\ Reduced(r)'
    <3>1. Counted(r) /\ Reduced(r) /\ Stage(r)' = Stage(r)
      BY <1>3 DEF Tally, Tallied
    <3>2. Counted(r)'
      BY <2>1, <3>1 DEF Counted
    <3>3. [q \in Ranks |-> Own(q, Former(r))]' = [q \in Ranks |-> Own(q, Former(r))]
      BY <2>1
    <3>4. Reduced(r)'
      BY <1>3, <2>1, <3>1, <3>3 DEF Reduced
    <3> QED BY <3>2, <3>4
  <2> QED BY <1>1, <1>3, <2>2, <2>3, <2>4, <2>5 DEF Tally, Tallied
<1> QED BY <1>2, <1>3

LEMMA Element ==
  ASSUME NEW S, NEW q \in Seq(S), NEW k \in 1 .. Len(q) PROVE q[k] \in S
OBVIOUS

LEMMA TunedRounds ==
  ASSUME Tally, MC, NEW r \in Ranks
  PROVE  /\ tuned[r] \in Seq([round : 1 .. NRounds, real : [Ranks -> SUBSET Events]])
         /\ Len(tuned[r]) \in Nat /\ DOMAIN tuned[r] = 1 .. Len(tuned[r])
         /\ \A k \in 1 .. Len(tuned[r]) : tuned[r][k].round \in 1 .. NRounds
         /\ \A k \in 1 .. Len(tuned[r]) + 1 : TunedBefore(r, k) \in 0 .. NRounds
         /\ LastTuned(r) \in 0 .. NRounds
<1>1. tuned[r] \in Seq([round : 1 .. NRounds, real : [Ranks -> SUBSET Events]])
  BY DEF Tally, Tallied, TallyTyped
<1>2. Len(tuned[r]) \in Nat /\ DOMAIN tuned[r] = 1 .. Len(tuned[r])
  BY <1>1
<1>3. \A k \in 1 .. Len(tuned[r]) : tuned[r][k].round \in 1 .. NRounds
  <2>1. \A k \in 1 .. Len(tuned[r]) :
          tuned[r][k] \in [round : 1 .. NRounds, real : [Ranks -> SUBSET Events]]
    BY <1>1, Element
  <2> QED BY <2>1
<1>4. ASSUME NEW k \in 1 .. Len(tuned[r]) + 1 PROVE TunedBefore(r, k) \in 0 .. NRounds
  <2>1. CASE k = 1
    BY <2>1, SwarmsAssumption DEF TunedBefore
  <2>2. CASE k # 1
    <3>1. k - 1 \in 1 .. Len(tuned[r])
      BY <1>2, <2>2
    <3> QED BY <1>3, <2>2, <3>1 DEF TunedBefore
  <2> QED BY <2>1, <2>2
<1>5. LastTuned(r) \in 0 .. NRounds
  BY <1>2, <1>4 DEF LastTuned
<1> QED BY <1>1, <1>2, <1>3, <1>4, <1>5

(* What has been tuned to stays as long as no round of it is counted again *)
LEMMA TotalsKept ==
  ASSUME Tally, MC, tuned' = tuned,
         \A r \in Ranks, n \in 1 .. NRounds : n <= LastTuned(r) =>
           \A q \in Ranks : exchanged'[n][q] = exchanged[n][q]
  PROVE  TuningCountsAll'
<1>1. ASSUME NEW r \in Ranks, NEW k \in DOMAIN tuned[r]
      PROVE  tuned[r][k].real = [q \in Ranks |-> CountedIn(q, TunedBefore(r, k),
                                                          tuned[r][k].round)]'
  <2>1. TunedBefore(r, k)' = TunedBefore(r, k)
    BY DEF TunedBefore
  <2>2. tuned[r][k].round \in 1 .. NRounds /\ tuned[r][k].round <= LastTuned(r)
    <3>1. tuned[r][k].round \in 1 .. NRounds
      BY TunedRounds
    <3>2. Counted(r)
      BY DEF Tally, Tallied
    <3> QED BY <3>1, <3>2 DEF Counted
  <2>3. TunedBefore(r, k) \in 0 .. NRounds /\ LastTuned(r) \in 0 .. NRounds /\ NRounds \in Nat
    BY TunedRounds, SwarmsAssumption
  <2>4. ASSUME NEW q \in Ranks
        PROVE  CountedIn(q, TunedBefore(r, k), tuned[r][k].round)'
                 = CountedIn(q, TunedBefore(r, k), tuned[r][k].round)
    <3>1. \A n \in TunedBefore(r, k) + 1 .. tuned[r][k].round :
            n \in 1 .. NRounds /\ n <= LastTuned(r)
      BY <2>2, <2>3
    <3> DEFINE N == TunedBefore(r, k) + 1 .. tuned[r][k].round
    <3>2. \A n \in N : exchanged'[n][q] = exchanged[n][q]
      BY <3>1
    <3>3. /\ CountedIn(q, TunedBefore(r, k), tuned[r][k].round) = UNION {exchanged[n][q] : n \in N}
          /\ CountedIn(q, TunedBefore(r, k), tuned[r][k].round)'
               = UNION {exchanged'[n][q] : n \in N}
      BY <2>1 DEF CountedIn
    <3> HIDE DEF N
    <3>4. {exchanged'[n][q] : n \in N} = {exchanged[n][q] : n \in N}
      BY <3>2
    <3> QED BY <3>3, <3>4
  <2>5. tuned[r][k].real = [q \in Ranks |-> CountedIn(q, TunedBefore(r, k), tuned[r][k].round)]
    BY DEF Tally, Tallied, TuningCountsAll
  <2> QED BY <2>1, <2>4, <2>5
<1> QED BY <1>1 DEF TuningCountsAll

LEMMA CountTally ==
  ASSUME Ordered, Tally, NEW l \in Lists, NEW task \in {"SourceParticles", "Transport"},
         Run(l, task), NEW S \in SUBSET Particles, NEW what \in {"emitted", "absorbed"},
         Count(l.rank, what, S),
         resolution' = resolution, given' = given, t_tune' = t_tune, tuned' = tuned
  PROVE  Tally'
<1> DEFINE a == l.rank
           new == {what} \X S
<1>1. /\ Pending(l, task) /\ set' = set /\ round' = round
      /\ num' = [num EXCEPT ![a] = @ \union new]
      /\ exchanged' = [exchanged EXCEPT ![round][a] = @ \union new]
  BY DEF Run, Count
<1>2. /\ MC /\ a \in Ranks /\ l.region = 2 /\ region[a] = 2 /\ round \in 1 .. NRounds
  <2>1. PICK b \in Blocks : Mover(b) = l
    BY <1>1, TaskOfMover
  <2>2. MC
    BY <1>1, TaskOfMover
  <2>3. l.region = 2
    BY <2>1, <2>2, Movers
  <2>4. region[a] = 2 /\ round <= NRounds /\ round \in Nat \ {0}
    BY <1>1, <2>3, ChainOf DEF Ordered, Lined
  <2> QED BY <2>2, <2>3, <2>4, OneMethod, SwarmsAssumption
<1>3. MC' <=> MC
  BY <1>1 DEF MC
<1>4. Stage(a) = 1 /\ \A r \in Ranks : Stage(r)' = Stage(r) /\ Stage(r) \in Nat \ {0}
  <2>1. \A r \in Ranks : /\ Tune3(r) \in Lists /\ Tune3(r).rank = r /\ Tune3(r).region = 3
                         /\ Stage(r) \in Nat \ {0}
    BY <1>2, TuningList
  <2>2. \A r \in Ranks : l # Tune3(r)
    BY <1>2, <2>1
  <2>3. \A r \in Ranks : Stage(r)' = Stage(r)
    BY <1>2, <2>2, OtherStages
  <2>4. at[Tune3(a)] = 1
    BY <1>2, <2>1 DEF Ordered, Lined
  <2> QED BY <2>1, <2>3, <2>4 DEF Stage
<1> HIDE DEF a, new
<1>5. TallyTyped /\ NotYet /\ TunedAlike /\ \A r \in Ranks : Counted(r) /\ Reduced(r)
  BY <1>2 DEF Tally, Tallied
<1>6. \A r \in Ranks : Stage(r) \in 1 .. 4
  <2>1. \A r \in Ranks : ~(Stage(r) > 4)
    <3>1. ASSUME NEW r \in Ranks, Stage(r) > 4 PROVE Stage(a) > 3
      <4>1. Reduced(r)
        BY <1>5
      <4> QED BY <1>2, <3>1, <4>1 DEF Reduced
    <3> QED BY <1>4, <3>1
  <2> QED BY <1>4, <2>1
<1>7. \A r \in Ranks : ~TunedNow(r) /\ LastTuned(r) \in Nat /\ LastTuned(r) < round
                       /\ Former(r) = LastTuned(r)
  <2>1. \A r \in Ranks : ~TunedNow(r)
    BY <1>5, <1>6 DEF Counted
  <2>2. \A r \in Ranks : LastTuned(r) <= round /\ LastTuned(r) \in 0 .. NRounds
    BY <1>2, <1>5, TunedRounds DEF Counted
  <2> QED BY <1>2, <2>1, <2>2 DEF TunedNow, Former
<1>8. new \subseteq Events
  BY DEF new, Events
<1>9. /\ exchanged'[round][a] = exchanged[round][a] \union new
      /\ \A n \in 1 .. NRounds, q \in Ranks : n # round \/ q # a => exchanged'[n][q] = exchanged[n][q]
      /\ exchanged' \in [1 .. NRounds -> [Ranks -> SUBSET Events]]
  <2>1. exchanged \in [1 .. NRounds -> [Ranks -> SUBSET Events]]
    BY <1>5 DEF TallyTyped
  <2>2. exchanged[round] \in [Ranks -> SUBSET Events]
    BY <1>2, <2>1
  <2> DEFINE f == [exchanged[round] EXCEPT ![a] = @ \union new]
  <2>3. f \in [Ranks -> SUBSET Events] /\ f[a] = exchanged[round][a] \union new
        /\ \A q \in Ranks : q # a => f[q] = exchanged[round][q]
    BY <1>2, <1>8, <2>2
  <2>4. exchanged' = [exchanged EXCEPT ![round] = f]
    BY <1>1
  <2> HIDE DEF f
  <2> QED BY <1>2, <2>1, <2>3, <2>4
<1>10. ASSUME NEW r \in Ranks
       PROVE  /\ LastTuned(r)' = LastTuned(r) /\ (TunedNow(r)' <=> TunedNow(r))
              /\ Former(r)' = Former(r) /\ DueAt(r)' = DueAt(r)
  BY <1>1 DEF LastTuned, TunedNow, Former, DueAt, TunedBefore
<1>11. ASSUME NEW i \in Nat, i < round
       PROVE  /\ Own(a, i)' = Own(a, i) \union new
              /\ \A q \in Ranks : q # a => Own(q, i)' = Own(q, i)
  <2> DEFINE N == {n \in 1 .. NRounds : i < n /\ n <= round}
  <2>1. \A q : Own(q, i) = UNION {exchanged[n][q] : n \in N}
               /\ Own(q, i)' = UNION {exchanged'[n][q] : n \in N}
    BY <1>1 DEF Own
  <2>2. round \in N
    BY <1>2, <1>11
  <2>3. \A n \in N : n \in 1 .. NRounds
    OBVIOUS
  <2> HIDE DEF N
  <2>4. UNION {exchanged'[n][a] : n \in N} = (UNION {exchanged[n][a] : n \in N}) \union new
    <3>1. \A n \in N : exchanged'[n][a] = IF n = round THEN exchanged[n][a] \union new
                                                        ELSE exchanged[n][a]
      BY <1>2, <1>9, <2>3
    <3> QED BY <2>2, <3>1
  <2>5. ASSUME NEW q \in Ranks, q # a
        PROVE  UNION {exchanged'[n][q] : n \in N} = UNION {exchanged[n][q] : n \in N}
    <3>1. \A n \in N : exchanged'[n][q] = exchanged[n][q]
      BY <1>9, <2>3, <2>5
    <3>2. {exchanged'[n][q] : n \in N} = {exchanged[n][q] : n \in N}
      BY <3>1
    <3> QED BY <3>2
  <2> QED BY <1>2, <2>1, <2>4, <2>5
<1>12. TallyTyped'
  BY <1>1, <1>2, <1>5, <1>8, <1>9 DEF TallyTyped, Events
<1>13. NotYet'
  <2>1. \A n \in 1 .. NRounds : n > round => n # round
    BY <1>2
  <2> QED BY <1>1, <1>5, <1>9, <2>1 DEF NotYet
<1>14. TunedAlike'
  BY <1>5, <1>10 DEF TunedAlike
<1>15. TuningCountsAll'
  <2>1. \A r \in Ranks, n \in 1 .. NRounds : n <= LastTuned(r) => n # round
    BY <1>2, <1>7
  <2> QED BY <1>2, <1>9, <2>1, TotalsKept
<1>16. ASSUME NEW r \in Ranks PROVE Counted(r)' /\ Reduced(r)'
  <2>1. Counted(r) /\ Reduced(r)
    BY <1>5
  <2>2. num'[r] = Own(r, LastTuned(r))'
    <3>1. num[r] = Own(r, LastTuned(r)) /\ DOMAIN num = Ranks
      BY <1>5 DEF Counted, TallyTyped
    <3>2. Own(r, LastTuned(r))' = IF r = a THEN Own(r, LastTuned(r)) \union new
                                           ELSE Own(r, LastTuned(r))
      BY <1>7, <1>10, <1>11
    <3> QED BY <1>1, <3>1, <3>2
  <2>3. Counted(r)'
    BY <1>1, <1>4, <1>10, <2>1, <2>2 DEF Counted
  <2>4. Reduced(r)'
    <3>1. CASE r = a
      <4>1. Stage(r)' = 1 /\ resolution'[r] = <<>> /\ given'[r] = <<>>
        BY <1>1, <1>4, <2>1, <3>1 DEF Reduced
      <4> QED BY <4>1 DEF Reduced
    <3>2. CASE r # a
      <4>1. Own(r, Former(r))' = Own(r, Former(r)) /\ Stage(r)' = Stage(r) /\ Stage(r) \in 1 .. 4
        BY <1>4, <1>6, <1>7, <1>10, <1>11, <3>2
      <4>2. Part(r, Former(r))' = Part(r, Former(r))
        BY <4>1 DEF Part
      <4> QED BY <1>1, <2>1, <4>1, <4>2 DEF Reduced
    <3> QED BY <3>1, <3>2
  <2> QED BY <2>3, <2>4
<1> QED BY <1>2, <1>3, <1>12, <1>13, <1>14, <1>15, <1>16 DEF Tally, Tallied

LEMMA SourceTally ==
  ASSUME Ordered, Flow, Tally, NEW l \in Lists, SourceParticles(l) PROVE Tally'
<1>1. /\ Run(l, "SourceParticles") /\ resolution' = resolution /\ given' = given
      /\ t_tune' = t_tune /\ tuned' = tuned
  BY DEF SourceParticles
<1>2. PICK S \in SUBSET unborn : Count(l.rank, "emitted", S)
  BY DEF SourceParticles, Emissions
<1>3. S \in SUBSET Particles
  BY DEF Flow, Typed
<1> QED BY <1>1, <1>2, <1>3, CountTally

LEMMA TransportTally ==
  ASSUME Ordered, Flow, Tally, NEW l \in Lists, Transport(l) PROVE Tally'
<1>1. /\ Run(l, "Transport") /\ resolution' = resolution /\ given' = given
      /\ t_tune' = t_tune /\ tuned' = tuned
  BY DEF Transport
<1>2. PICK S \in SUBSET In(l) : Count(l.rank, "absorbed", S)
  BY DEF Transport
<1>3. l.blocks \subseteq Blocks
  BY <1>1, TaskOfMover DEF Run
<1>4. In(l) \subseteq Particles
  BY <1>3 DEF In, Flow, Typed
<1> QED BY <1>1, <1>2, <1>4, CountTally

(* Before a rank tunes, its part in the reduction is all that changes      *)
LEMMA ReduceTally ==
  ASSUME Ordered, Tally, MC, NEW r \in Ranks, NEW task, task # "UpdateTuning",
         Run(Tune3(r), task), num' = num, t_tune' = t_tune, tuned' = tuned,
         exchanged' = exchanged,
         resolution' = [q \in Ranks |-> resolution'[q]], given' = [q \in Ranks |-> given'[q]],
         \A q \in Ranks : q # r => resolution'[q] = resolution[q] /\ given'[q] = given[q],
         Reduced(r)'
  PROVE  Tally'
<1>1. /\ Pending(Tune3(r), task) /\ set' = set /\ round' = round
  BY DEF Run
<1>2. Stage(r) \in 1 .. 4
  <2>1. Stage(r) \in 1 .. 5 /\ Stage(r) # 5
    BY <1>1, StageOf
  <2> QED BY <2>1
<1>3. Stage(r)' = Stage(r) + 1 /\ \A q \in Ranks : q # r => Stage(q)' = Stage(q)
  BY OwnStage
<1>4. \A q \in Ranks : Stage(q) \in Nat \ {0}
  BY TuningList
<1>5. \A q : /\ LastTuned(q)' = LastTuned(q) /\ (TunedNow(q)' <=> TunedNow(q))
             /\ Former(q)' = Former(q) /\ DueAt(q)' = DueAt(q)
             /\ \A i : Own(q, i)' = Own(q, i) /\ Part(q, i)' = Part(q, i)
  BY <1>1, SameRounds
<1>6. TallyTyped /\ NotYet /\ TunedAlike /\ \A q \in Ranks : Counted(q) /\ Reduced(q)
  BY DEF Tally, Tallied
<1>7. TallyTyped'
  BY <1>6 DEF TallyTyped, Events
<1>8. NotYet' /\ TunedAlike'
  BY <1>1, <1>5, <1>6 DEF NotYet, TunedAlike
<1>9. TuningCountsAll'
  BY SameTotals
<1>10. ASSUME NEW q \in Ranks PROVE Counted(q)'
  <2>1. Counted(q) /\ (Stage(q)' > 5 <=> Stage(q) > 5)
    BY <1>2, <1>3, <1>4, <1>6
  <2> QED BY <1>1, <1>5, <2>1 DEF Counted
<1>11. ASSUME NEW q \in Ranks PROVE Reduced(q)'
  <2>1. CASE q # r
    <3>1. Reduced(q) /\ Stage(q)' = Stage(q) /\ resolution'[q] = resolution[q] /\ given'[q] = given[q]
      BY <1>3, <1>6, <2>1
    <3>2. \A p \in Ranks : Stage(p) > 3 => Stage(p)' > 3
      BY <1>2, <1>3, <1>4
    <3>3. [p \in Ranks |-> Own(p, Former(q))]' = [p \in Ranks |-> Own(p, Former(q))]
      BY <1>5
    <3>4. Part(q, Former(q))' = Part(q, Former(q))
      BY <1>5
    <3> QED BY <3>1, <3>2, <3>3, <3>4 DEF Reduced
  <2> QED BY <2>1
<1>12. MC'
  BY <1>1 DEF MC
<1> QED BY <1>7, <1>8, <1>9, <1>10, <1>11, <1>12 DEF Tally, Tallied

LEMMA ResolutionTally ==
  ASSUME Ordered, Tally, NEW l \in Lists,
         UpdateParticleResolution(l) \/ TotalEmissivity(l) \/ StartReduce(l) \/ CheckReduce(l)
  PROVE  Tally'
<1>1. PICK task \in {"UpdateParticleResolution", "TotalEmissivity", "StartReduce", "CheckReduce"} :
        Run(l, task)
  BY DEF UpdateParticleResolution, TotalEmissivity, StartReduce, CheckReduce
<1>2. /\ num' = num /\ t_tune' = t_tune /\ tuned' = tuned /\ exchanged' = exchanged
  BY DEF UpdateParticleResolution, TotalEmissivity, StartReduce, CheckReduce, tuning
<1>3. PICK r \in Ranks : l = Tune3(r) /\ r = l.rank /\ MC
  BY <1>1, TuningTask DEF Run, TuningTasks
<1>4. /\ TallyTyped /\ TunedAlike /\ \A q \in Ranks : Counted(q) /\ Reduced(q)
      /\ Counted(r) /\ Reduced(r)
  BY <1>3 DEF Tally, Tallied
<1>5. /\ TunedNow(r) => Stage(r) > 5
      /\ num[r] = Own(r, LastTuned(r))
  BY <1>4 DEF Counted
<1>6. /\ Stage(r) \in 2 .. 4 => resolution[r] = <<Part(r, Former(r))>>
      /\ given[r] = IF Stage(r) > 3 THEN <<Part(r, Former(r))>> ELSE <<>>
  BY <1>4 DEF Reduced
<1>7. resolution = [q \in Ranks |-> resolution[q]] /\ given = [q \in Ranks |-> given[q]]
  BY <1>4 DEF TallyTyped
<1>8. \A q : /\ Former(q)' = Former(q)
             /\ \A i : Own(q, i)' = Own(q, i) /\ Part(q, i)' = Part(q, i)
  BY <1>1, <1>2, SameRounds DEF Run
<1>9. Stage(r)' = Stage(r) + 1 /\ \A q \in Ranks : q # r => Stage(q)' = Stage(q)
  BY <1>1, <1>3, OwnStage
<1>10. \A q \in Ranks : Stage(q) \in Nat \ {0}
  BY <1>3, TuningList
<1>11. CASE UpdateParticleResolution(l)
  <2> DEFINE own == [q \in {r} |-> num[q]]
  <2>1. /\ Run(l, "UpdateParticleResolution") /\ given' = given
        /\ resolution' = [resolution EXCEPT ![r] = <<own>>]
    BY <1>3, <1>11 DEF UpdateParticleResolution
  <2>2. Stage(r) = 1
    BY <1>3, <2>1, StageOf DEF Run
  <2>3. ~(Stage(r) > 5) /\ ~(Stage(r) > 3)
    BY <2>2
  <2>4. num[r] = Own(r, Former(r))
    BY <1>5, <2>3 DEF Former
  <2>5. own = Part(r, Former(r)) /\ given[r] = <<>>
    BY <1>6, <2>3, <2>4 DEF Part
  <2> HIDE DEF own
  <2>6. /\ resolution' = [q \in Ranks |-> resolution'[q]] /\ given' = [q \in Ranks |-> given'[q]]
        /\ resolution'[r] = <<own>>
        /\ \A q \in Ranks : q # r => resolution'[q] = resolution[q]
    BY <1>7, <2>1
  <2>7. Reduced(r)'
    BY <1>8, <1>9, <2>1, <2>2, <2>5, <2>6 DEF Reduced
  <2> QED BY <1>2, <1>3, <2>1, <2>6, <2>7, ReduceTally
<1>12. CASE TotalEmissivity(l)
  <2>1. Run(l, "TotalEmissivity") /\ given' = given /\ resolution' = resolution
    BY <1>12 DEF TotalEmissivity, tuning
  <2>2. Stage(r) = 2
    BY <1>3, <2>1, StageOf DEF Run
  <2>3. resolution[r] = <<Part(r, Former(r))>> /\ given[r] = <<>>
    BY <1>6, <2>2
  <2>4. Reduced(r)'
    BY <1>8, <1>9, <2>1, <2>2, <2>3 DEF Reduced
  <2> QED BY <1>2, <1>3, <1>7, <2>1, <2>4, ReduceTally
<1>13. CASE StartReduce(l)
  <2>1. /\ Run(l, "StartReduce") /\ resolution' = resolution
        /\ given' = [given EXCEPT ![r] = resolution[r]]
    BY <1>3, <1>13 DEF StartReduce
  <2>2. Stage(r) = 3
    BY <1>3, <2>1, StageOf DEF Run
  <2>3. resolution[r] = <<Part(r, Former(r))>>
    BY <1>6, <2>2
  <2>4. /\ resolution' = [q \in Ranks |-> resolution'[q]] /\ given' = [q \in Ranks |-> given'[q]]
        /\ given'[r] = resolution[r]
        /\ \A q \in Ranks : q # r => given'[q] = given[q]
    BY <1>7, <2>1
  <2>5. Reduced(r)'
    BY <1>8, <1>9, <2>1, <2>2, <2>3, <2>4 DEF Reduced
  <2> QED BY <1>2, <1>3, <2>1, <2>4, <2>5, ReduceTally
<1>14. CASE CheckReduce(l)
  <2> DEFINE sum == [q \in Ranks |-> given[q][1][q]]
  <2>1. /\ Run(l, "CheckReduce") /\ given' = given /\ \A q \in Ranks : given[q] # <<>>
        /\ resolution' = [resolution EXCEPT ![r] = <<sum>>]
    BY <1>3, <1>14 DEF CheckReduce
  <2>2. Stage(r) = 4
    BY <1>3, <2>1, StageOf DEF Run
  <2>3. \A q \in Ranks : Stage(q) > 3 /\ given[q] = <<Part(q, Former(q))>>
    BY <1>4, <2>1 DEF Reduced
  <2>4. \A q \in Ranks : given[q][1][q] = Own(q, Former(r))
    <3>1. ASSUME NEW q \in Ranks PROVE given[q][1][q] = Own(q, Former(r))
      <4>1. given[q] = <<Part(q, Former(q))>> /\ Former(q) = Former(r)
        BY <1>4, <2>3 DEF TunedAlike
      <4>2. given[q][1] = Part(q, Former(r))
        BY <4>1, Single
      <4> QED BY <4>2 DEF Part
    <3> QED BY <3>1
  <2>5. sum = [q \in Ranks |-> Own(q, Former(r))]
    BY <2>4
  <2> HIDE DEF sum
  <2>6. /\ resolution' = [q \in Ranks |-> resolution'[q]] /\ given' = [q \in Ranks |-> given'[q]]
        /\ resolution'[r] = <<sum>>
        /\ \A q \in Ranks : q # r => resolution'[q] = resolution[q]
    BY <1>7, <2>1
  <2>7. sum = [q \in Ranks |-> Own(q, Former(r))]'
    BY <1>8, <2>5
  <2>8. \A q \in Ranks : Stage(q)' > 3
    BY <1>9, <1>10, <2>2, <2>3
  <2>9. Stage(r)' = 5 /\ given'[r] = <<Part(r, Former(r))'>>
    BY <1>8, <1>9, <2>1, <2>2, <2>3
  <2>10. Reduced(r)'
    BY <2>6, <2>7, <2>8, <2>9 DEF Reduced
  <2> QED BY <1>2, <1>3, <2>1, <2>6, <2>10, ReduceTally
<1> QED BY <1>11, <1>12, <1>13, <1>14

LEMMA Appended ==
  ASSUME NEW S, NEW q \in Seq(S), NEW e \in S
  PROVE  /\ Append(q, e) \in Seq(S) /\ Len(Append(q, e)) = Len(q) + 1
         /\ \A k \in 1 .. Len(q) : Append(q, e)[k] = q[k]
         /\ Append(q, e)[Len(q) + 1] = e
OBVIOUS

LEMMA UpdateTally ==
  ASSUME Ordered, Tally, NEW l \in Lists, UpdateTuning(l) PROVE Tally'
<1>1. /\ Run(l, "UpdateTuning") /\ resolution' = resolution /\ given' = given
      /\ exchanged' = exchanged
  BY DEF UpdateTuning
<1>2. PICK r \in Ranks : l = Tune3(r) /\ r = l.rank /\ MC
  BY <1>1, TuningTask DEF Run, TuningTasks
<1> DEFINE due == set.tuning = "dynamic_difference" /\ t_tune[r] < round * Dt
           rec == [round |-> round, real |-> resolution[r][1]]
           last == LastTuned(r)
<1>3. IF due THEN /\ tuned' = [tuned EXCEPT ![r] = Append(@, rec)]
                  /\ t_tune' = [t_tune EXCEPT ![r] = @ + DtTune]
                  /\ num' = [num EXCEPT ![r] = {}]
             ELSE tuned' = tuned /\ t_tune' = t_tune /\ num' = num
  BY <1>2 DEF UpdateTuning, Tune
<1>4. /\ TallyTyped /\ NotYet /\ TunedAlike /\ TuningCountsAll
      /\ \A q \in Ranks : Counted(q) /\ Reduced(q)
  BY <1>2 DEF Tally, Tallied
<1>5. /\ Stage(r) = 5 /\ round \in 1 .. NRounds /\ set' = set /\ round' = round
  <2>1. Stage(r) = 5 /\ round <= NRounds /\ set' = set /\ round' = round
    BY <1>1, <1>2, StageOf DEF Run
  <2> QED BY <2>1, SwarmsAssumption DEF Ordered, Lined
<1>6. Stage(r)' = 6 /\ \A q \in Ranks : q # r => Stage(q)' = Stage(q)
  BY <1>1, <1>2, <1>5, OwnStage
<1>7. /\ ~TunedNow(r) /\ num[r] = Own(r, last) /\ last <= round
      /\ \A k \in DOMAIN tuned[r] : tuned[r][k].round <= last
  <2>1. Counted(r)
    BY <1>4
  <2> QED BY <1>5, <2>1 DEF Counted
<1>8. Former(r) = last /\ DueAt(r) = t_tune[r] /\ last \in 0 .. NRounds /\ last < round
  BY <1>2, <1>5, <1>7, TunedRounds DEF Former, DueAt, TunedNow
<1>9. /\ resolution[r] = <<[q \in Ranks |-> Own(q, last)]>> /\ given[r] = <<Part(r, last)>>
      /\ \A q \in Ranks : Stage(q) > 3
  <2>1. Reduced(r)
    BY <1>4
  <2> QED BY <1>5, <1>8, <2>1 DEF Reduced
<1>10. \A q, i : Own(q, i)' = Own(q, i) /\ Part(q, i)' = Part(q, i)
  <2>1. \A q, i : Own(q, i)' = Own(q, i)
    BY <1>1, <1>5 DEF Own
  <2> QED BY <2>1 DEF Part
<1>11. \A q, i, j : CountedIn(q, i, j)' = CountedIn(q, i, j)
  BY <1>1 DEF CountedIn
<1>12. ASSUME NEW q \in Ranks, q # r
       PROVE  /\ LastTuned(q)' = LastTuned(q) /\ (TunedNow(q)' <=> TunedNow(q))
              /\ Former(q)' = Former(q) /\ DueAt(q)' = DueAt(q)
              /\ tuned'[q] = tuned[q] /\ t_tune'[q] = t_tune[q] /\ num'[q] = num[q]
              /\ \A k : TunedBefore(q, k)' = TunedBefore(q, k)
  <2>1. tuned'[q] = tuned[q] /\ t_tune'[q] = t_tune[q] /\ num'[q] = num[q]
    BY <1>3, <1>4, <1>12 DEF TallyTyped
  <2> QED BY <1>5, <2>1 DEF LastTuned, TunedNow, Former, DueAt, TunedBefore
<1>13. ASSUME NEW q \in Ranks, q # r PROVE Counted(q)'
  <2>1. Counted(q) /\ Stage(q)' = Stage(q)
    BY <1>4, <1>6, <1>13
  <2> QED BY <1>5, <1>10, <1>12, <1>13, <2>1 DEF Counted
<1>14. \A q \in Ranks : Stage(q)' > 3
  BY <1>6, <1>9
<1>15. ASSUME NEW q \in Ranks, q # r PROVE Reduced(q)'
  <2>1. Reduced(q) /\ Stage(q)' = Stage(q)
    BY <1>4, <1>6, <1>15
  <2>2. [p \in Ranks |-> Own(p, Former(q))]' = [p \in Ranks |-> Own(p, Former(q))]
    BY <1>10, <1>12, <1>15
  <2>3. Part(q, Former(q))' = Part(q, Former(q))
    BY <1>10, <1>12, <1>15
  <2> QED BY <1>1, <1>14, <2>1, <2>2, <2>3 DEF Reduced
<1>16. NotYet' /\ MC'
  BY <1>1, <1>2, <1>4, <1>5 DEF NotYet, MC
<1> HIDE DEF due, rec, last
<1>17. ASSUME Former(r)' = last PROVE Reduced(r)'
  <2>1. Part(r, Former(r))' = Part(r, last)
    BY <1>10, <1>17
  <2> QED BY <1>1, <1>6, <1>9, <1>14, <2>1 DEF Reduced
<1>18. ASSUME Former(r)' = last, DueAt(r)' = DueAt(r) PROVE TunedAlike'
  <2>1. \A q \in Ranks : Former(q)' = Former(q) /\ DueAt(q)' = DueAt(q)
    BY <1>8, <1>12, <1>18
  <2> QED BY <1>4, <2>1 DEF TunedAlike
<1>19. CASE ~due
  <2>1. tuned' = tuned /\ t_tune' = t_tune /\ num' = num
    BY <1>3, <1>19
  <2>2. /\ LastTuned(r)' = last /\ ~TunedNow(r)' /\ Former(r)' = last /\ DueAt(r)' = DueAt(r)
    BY <1>1, <1>5, <1>7, <1>8, <2>1, SameRounds DEF last
  <2>3. ~(set.tuning = "dynamic_difference" /\ DueAt(r) < round * Dt)
    BY <1>8, <1>19 DEF due
  <2>4. Counted(r)'
    BY <1>5, <1>7, <1>10, <2>1, <2>2, <2>3 DEF Counted
  <2>5. TallyTyped'
    BY <1>1, <1>4, <2>1 DEF TallyTyped, Events
  <2>6. TuningCountsAll'
    BY <1>1, <1>2, <2>1, SameTotals
  <2> QED BY <1>13, <1>15, <1>16, <1>17, <1>18, <2>2, <2>4, <2>5, <2>6 DEF Tally, Tallied
<1>20. CASE due
  <2> DEFINE T == [round : 1 .. NRounds, real : [Ranks -> SUBSET Events]]
  <2>1. /\ tuned' = [tuned EXCEPT ![r] = Append(@, rec)]
        /\ t_tune' = [t_tune EXCEPT ![r] = @ + DtTune]
        /\ num' = [num EXCEPT ![r] = {}]
    BY <1>3, <1>20
  <2>2. rec.round = round /\ rec.real = [q \in Ranks |-> Own(q, last)]
    BY <1>9, Single DEF rec
  <2>3. \A q \in Ranks : Own(q, last) \in SUBSET Events
    <3>1. exchanged \in [1 .. NRounds -> [Ranks -> SUBSET Events]]
      BY <1>4 DEF TallyTyped
    <3>2. \A q \in Ranks : \A k \in 1 .. NRounds : exchanged[k][q] \in SUBSET Events
      BY <3>1
    <3> QED BY <3>2 DEF Own
  <2>4. rec \in T
    <3>1. [q \in Ranks |-> Own(q, last)] \in [Ranks -> SUBSET Events]
      BY <2>3
    <3>2. resolution[r][1] = [q \in Ranks |-> Own(q, last)]
      BY <1>9, Single
    <3> QED BY <1>5, <3>1, <3>2 DEF rec
  <2>5. tuned \in [Ranks -> Seq(T)] /\ tuned[r] \in Seq(T)
        /\ t_tune \in [Ranks -> Int] /\ num \in [Ranks -> SUBSET Events]
    BY <1>4 DEF TallyTyped
  <2> HIDE DEF T
  <2>6. PICK n \in Nat : n = Len(tuned[r]) /\ DOMAIN tuned[r] = 1 .. n
    BY <2>5
  <2>7. /\ tuned'[r] \in Seq(T) /\ Len(tuned'[r]) = n + 1 /\ tuned'[r][n + 1] = rec
        /\ \A k \in 1 .. n : tuned'[r][k] = tuned[r][k]
        /\ DOMAIN tuned'[r] = 1 .. n + 1
    <3>1. tuned'[r] = Append(tuned[r], rec)
      BY <2>1, <2>5
    <3>2. /\ Append(tuned[r], rec) \in Seq(T) /\ Len(Append(tuned[r], rec)) = n + 1
          /\ \A k \in 1 .. n : Append(tuned[r], rec)[k] = tuned[r][k]
          /\ Append(tuned[r], rec)[n + 1] = rec
      BY <2>4, <2>5, <2>6, Appended
    <3>3. DOMAIN tuned'[r] = 1 .. Len(tuned'[r])
      BY <3>1, <3>2
    <3> QED BY <3>1, <3>2, <3>3
  <2>8. t_tune'[r] = t_tune[r] + DtTune /\ t_tune[r] \in Int /\ num'[r] = {} /\ DtTune \in Nat
    BY <2>1, <2>5, SwarmsAssumption
  <2>9. \A k \in 1 .. n + 1 : TunedBefore(r, k)' = TunedBefore(r, k)
    <3>1. ASSUME NEW k \in 1 .. n + 1 PROVE TunedBefore(r, k)' = TunedBefore(r, k)
      <4>1. k # 1 => k - 1 \in 1 .. n
        OBVIOUS
      <4> QED BY <2>7, <4>1 DEF TunedBefore
    <3> QED BY <3>1
  <2>10. TunedBefore(r, n + 1) = last
    BY <2>6 DEF last, LastTuned
  <2>11. LastTuned(r)' = round
    <3>1. LastTuned(r)' = TunedBefore(r, n + 2)'
      BY <2>7 DEF LastTuned
    <3>2. n + 2 # 1 /\ (n + 2) - 1 = n + 1
      OBVIOUS
    <3>3. TunedBefore(r, n + 2)' = tuned'[r][n + 1].round
      BY <3>2 DEF TunedBefore
    <3> QED BY <2>2, <2>7, <3>1, <3>3
  <2>12. TunedNow(r)' /\ Former(r)' = last
    <3>1. TunedNow(r)'
      BY <1>5, <2>11 DEF TunedNow
    <3>2. Former(r)' = TunedBefore(r, n + 1)'
      BY <2>7, <3>1 DEF Former
    <3>3. n + 1 \in 1 .. n + 1
      OBVIOUS
    <3> QED BY <2>9, <2>10, <3>1, <3>2, <3>3
  <2>13. DueAt(r)' = DueAt(r)
    BY <1>8, <2>8, <2>12 DEF DueAt
  <2>14. Counted(r)'
    <3>1. Own(r, round) = {}
      <4>1. {k \in 1 .. NRounds : round < k /\ k <= round} = {}
        BY <1>5
      <4> QED BY <4>1 DEF Own
    <3>2. \A k \in DOMAIN tuned'[r] : tuned'[r][k].round <= round
      <4>1. ASSUME NEW k \in 1 .. n PROVE tuned'[r][k].round <= round
        <5>1. tuned'[r][k] = tuned[r][k] /\ tuned[r][k].round <= last
          BY <1>7, <2>6, <2>7
        <5>2. tuned[r][k].round \in 1 .. NRounds
          BY <1>2, <2>6, TunedRounds
        <5> QED BY <1>5, <1>8, <5>1, <5>2
      <4>2. tuned'[r][n + 1].round <= round
        BY <1>5, <2>2, <2>7
      <4>3. \A k \in 1 .. n + 1 : k \in 1 .. n \/ k = n + 1
        OBVIOUS
      <4> QED BY <2>7, <4>1, <4>2, <4>3
    <3>3. set.tuning = "dynamic_difference" /\ DueAt(r) < round * Dt
      BY <1>8, <1>20 DEF due
    <3>4. num'[r] = Own(r, LastTuned(r))'
      BY <1>10, <2>8, <2>11, <3>1
    <3> QED BY <1>5, <1>6, <2>11, <2>12, <2>13, <3>2, <3>3, <3>4 DEF Counted
  <2>15. TallyTyped'
    <3>1. tuned' \in [Ranks -> Seq(T)]
      BY <2>1, <2>5, <2>7
    <3>2. num' \in [Ranks -> SUBSET Events] /\ t_tune' \in [Ranks -> Int]
      BY <2>1, <2>5, <2>8
    <3> QED BY <1>1, <1>4, <3>1, <3>2 DEF TallyTyped, Events, T
  <2>16. \A q \in Ranks : CountedIn(q, last, round) = Own(q, last)
    <3>1. NRounds \in Nat /\ last \in Nat /\ round \in Nat /\ round <= NRounds
      BY <1>5, <1>8, SwarmsAssumption
    <3>2. {k \in 1 .. NRounds : last < k /\ k <= round} = last + 1 .. round
      BY <3>1
    <3> QED BY <3>2 DEF CountedIn, Own
  <2>17. TuningCountsAll'
    <3>1. ASSUME NEW q \in Ranks, NEW k \in DOMAIN tuned'[q]
          PROVE  tuned'[q][k].real = [p \in Ranks |-> CountedIn(p, TunedBefore(q, k),
                                                               tuned[q][k].round)]'
      <4>1. CASE q # r \/ k \in 1 .. n
        <5>1. /\ k \in DOMAIN tuned[q] /\ tuned'[q][k] = tuned[q][k]
              /\ TunedBefore(q, k)' = TunedBefore(q, k)
          <6>1. CASE q # r
            BY <1>12, <3>1, <6>1
          <6>2. CASE q = r /\ k \in 1 .. n
            <7>1. k \in 1 .. n + 1 /\ k \in DOMAIN tuned[r]
              BY <2>6, <6>2
            <7> QED BY <2>7, <2>9, <6>2, <7>1
          <6> QED BY <4>1, <6>1, <6>2
        <5>2. tuned[q][k].real = [p \in Ranks |-> CountedIn(p, TunedBefore(q, k),
                                                           tuned[q][k].round)]
          BY <1>4, <5>1 DEF TuningCountsAll
        <5> QED BY <1>11, <5>1, <5>2
      <4>2. CASE q = r /\ k = n + 1
        <5>1. tuned'[q][k] = rec /\ TunedBefore(q, k)' = last
          <6>1. n + 1 \in 1 .. n + 1
            OBVIOUS
          <6> QED BY <2>7, <2>9, <2>10, <4>2, <6>1
        <5> QED BY <1>11, <2>2, <2>16, <5>1
      <4>3. q = r => k \in 1 .. n \/ k = n + 1
        BY <2>7, <3>1
      <4> QED BY <4>1, <4>2, <4>3
    <3> QED BY <3>1 DEF TuningCountsAll
  <2> QED BY <1>13, <1>15, <1>16, <1>17, <1>18, <2>12, <2>13, <2>14, <2>15, <2>17
          DEF Tally, Tallied
<1> QED BY <1>19, <1>20

LEMMA EndTally == ASSUME Ordered, Tally, EndRound PROVE Tally'
<1>1. /\ AllComplete /\ round <= NRounds /\ round' = round + 1 /\ at' = [l \in Lists |-> 1]
      /\ resolution' = [r \in Ranks |-> <<>>] /\ given' = [r \in Ranks |-> <<>>]
      /\ set' = set /\ num' = num /\ t_tune' = t_tune /\ tuned' = tuned /\ exchanged' = exchanged
  <2>1. round \in Int /\ NRounds \in Int
    BY SwarmsAssumption DEF Ordered, Lined
  <2> QED BY <2>1 DEF Over, EndRound, tuning
<1>2. MC' <=> MC
  BY <1>1 DEF MC
<1>3. CASE ~MC
  BY <1>1, <1>2, <1>3 DEF Tally
<1>4. CASE MC
  <2>1. /\ TallyTyped /\ NotYet /\ TunedAlike /\ \A r \in Ranks : Counted(r)
    BY <1>4 DEF Tally, Tallied
  <2>2. round \in 1 .. NRounds /\ NRounds \in Nat
    BY <1>1, SwarmsAssumption DEF Ordered, Lined
  <2>3. \A r \in Ranks : Stage(r) > 5 /\ Stage(r)' = 1
    <3>1. ASSUME NEW r \in Ranks PROVE Stage(r) > 5 /\ Stage(r)' = 1
      <4>1. Tune3(r) \in Lists /\ Len(Tune3(r).chain) = 5
        BY <1>4, TuningList
      <4>2. at[Tune3(r)] > 5
        BY <1>1, <4>1, AllDone DEF Ordered
      <4> QED BY <1>1, <4>1, <4>2 DEF Stage
    <3> QED BY <3>1
  <2>4. \A r \in Ranks : /\ LastTuned(r)' = LastTuned(r) /\ LastTuned(r) \in 0 .. NRounds
                         /\ LastTuned(r) <= round
                         /\ TunedNow(r) <=> /\ set.tuning = "dynamic_difference"
                                            /\ DueAt(r) < round * Dt
    <3>1. ASSUME NEW r \in Ranks
          PROVE  /\ LastTuned(r)' = LastTuned(r) /\ LastTuned(r) \in 0 .. NRounds
                 /\ LastTuned(r) <= round
                 /\ TunedNow(r) <=> /\ set.tuning = "dynamic_difference"
                                    /\ DueAt(r) < round * Dt
      <4>1. LastTuned(r)' = LastTuned(r)
        BY <1>1 DEF LastTuned, TunedBefore
      <4>2. LastTuned(r) \in 0 .. NRounds
        BY <1>4, TunedRounds
      <4>3. Counted(r) /\ Stage(r) > 5
        BY <2>1, <2>3
      <4> QED BY <4>1, <4>2, <4>3 DEF Counted
    <3> QED BY <3>1
  <2>5. \A r \in Ranks : ~TunedNow(r)' /\ Former(r)' = LastTuned(r) /\ DueAt(r)' = t_tune[r]
    <3>1. \A r \in Ranks : LastTuned(r)' # round'
      BY <1>1, <2>2, <2>4
    <3> QED BY <1>1, <2>4, <3>1 DEF TunedNow, Former, DueAt
  <2>6. TunedAlike'
    <3>1. ASSUME NEW q \in Ranks, NEW r \in Ranks
          PROVE  LastTuned(q) = LastTuned(r) /\ t_tune[q] = t_tune[r]
      <4>1. Former(q) = Former(r) /\ DueAt(q) = DueAt(r)
        BY <2>1 DEF TunedAlike
      <4>2. TunedNow(q) <=> TunedNow(r)
        BY <2>4, <4>1
      <4>3. t_tune[q] \in Int /\ t_tune[r] \in Int /\ DtTune \in Int
        BY <2>1, SwarmsAssumption DEF TallyTyped
      <4>4. CASE TunedNow(q)
        BY <4>1, <4>2, <4>3, <4>4 DEF TunedNow, DueAt
      <4>5. CASE ~TunedNow(q)
        BY <4>1, <4>2, <4>5 DEF Former, DueAt
      <4> QED BY <4>4, <4>5
    <3> QED BY <2>5, <3>1 DEF TunedAlike
  <2>7. ASSUME NEW r \in Ranks, NEW i \in Nat PROVE Own(r, i)' = Own(r, i)
    <3> DEFINE N == {n \in 1 .. NRounds : i < n /\ n <= round}
               M == {n \in 1 .. NRounds : i < n /\ n <= round + 1}
    <3>1. Own(r, i) = UNION {exchanged[n][r] : n \in N}
          /\ Own(r, i)' = UNION {exchanged[n][r] : n \in M}
      BY <1>1 DEF Own
    <3>2. \A n \in N : n \in M
      BY <2>2
    <3>3. \A n \in M : n \in N \/ exchanged[n][r] = {}
      <4>1. \A n \in M : n \in N \/ n > round
        BY <2>2
      <4> QED BY <2>1, <4>1 DEF NotYet
    <3> HIDE DEF N, M
    <3>4. UNION {exchanged[n][r] : n \in M} = UNION {exchanged[n][r] : n \in N}
      BY <3>2, <3>3
    <3> QED BY <3>1, <3>4
  <2>8. TallyTyped'
    BY <1>1, <2>1 DEF TallyTyped, Events
  <2>9. NotYet'
    <3>1. \A n \in 1 .. NRounds : n > round + 1 => n > round
      BY <2>2
    <3> QED BY <1>1, <2>1, <3>1 DEF NotYet
  <2>10. TuningCountsAll'
    BY <1>1, <1>4, SameTotals
  <2>11. ASSUME NEW r \in Ranks PROVE Counted(r)' /\ Reduced(r)'
    <3>1. /\ num[r] = Own(r, LastTuned(r))
          /\ \A k \in DOMAIN tuned[r] : tuned[r][k].round <= LastTuned(r)
      BY <2>1 DEF Counted
    <3>2. LastTuned(r)' <= round'
      BY <1>1, <2>2, <2>4
    <3>3. num'[r] = Own(r, LastTuned(r))'
      BY <1>1, <2>4, <2>7, <3>1
    <3>4. ~TunedNow(r)' /\ ~(Stage(r)' > 5) /\ Stage(r)' = 1
      BY <2>3, <2>5
    <3>5. \A k \in DOMAIN tuned'[r] : tuned'[r][k].round <= LastTuned(r)'
      BY <1>1, <2>4, <3>1
    <3>6. Counted(r)'
      BY <3>2, <3>3, <3>4, <3>5 DEF Counted
    <3>7. resolution'[r] = <<>> /\ given'[r] = <<>>
      BY <1>1
    <3>8. Reduced(r)'
      BY <3>4, <3>7 DEF Reduced
    <3> QED BY <3>6, <3>8
  <2> QED BY <1>2, <1>4, <2>6, <2>8, <2>9, <2>10, <2>11 DEF Tally, Tallied
<1> QED BY <1>3, <1>4

LEMMA InitTally == ASSUME NoSamples, Init PROVE Tally
<1>1. /\ round = 1 /\ at = [l \in Lists |-> 1] /\ num = [r \in Ranks |-> {}]
      /\ resolution = [r \in Ranks |-> <<>>] /\ given = [r \in Ranks |-> <<>>]
      /\ t_tune = [r \in Ranks |-> DtTune] /\ tuned = [r \in Ranks |-> <<>>]
      /\ exchanged = [k \in 1 .. NRounds |-> [r \in Ranks |-> {}]]
  BY DEF Init
<1>2. CASE ~MC
  BY <1>1, <1>2 DEF Tally
<1>3. CASE MC
  <2>1. Ordered
    BY InitPlaced
  <2>2. \A r \in Ranks : Stage(r) = 1
    BY <1>1, <1>3, <2>1, TuningList DEF Stage
  <2>3. \A r \in Ranks : tuned[r] = <<>> /\ Len(tuned[r]) = 0 /\ DOMAIN tuned[r] = {}
    <3>1. \A r \in Ranks : tuned[r] = <<>>
      BY <1>1
    <3> QED BY <3>1
  <2>4. \A r \in Ranks : LastTuned(r) = 0 /\ ~TunedNow(r)
    BY <1>1, <2>3 DEF LastTuned, TunedBefore, TunedNow
  <2>5. \A r \in Ranks : Former(r) = 0 /\ DueAt(r) = DtTune
    BY <1>1, <2>4 DEF Former, DueAt
  <2>6. \A r \in Ranks : \A i : Own(r, i) = {}
    <3>1. \A r \in Ranks, n \in 1 .. NRounds : exchanged[n][r] = {}
      BY <1>1
    <3> QED BY <3>1 DEF Own
  <2>7. TallyTyped
    <3>1. \A r \in Ranks : tuned[r] \in Seq([round : 1 .. NRounds, real : [Ranks -> SUBSET Events]])
      BY <2>3, EmptySeq
    <3>2. exchanged \in [1 .. NRounds -> [Ranks -> SUBSET Events]]
      BY <1>1
    <3>3. num \in [Ranks -> SUBSET Events] /\ t_tune \in [Ranks -> Int]
      BY <1>1, SwarmsAssumption
    <3> QED BY <1>1, <3>1, <3>2, <3>3 DEF TallyTyped
  <2>8. NotYet /\ TunedAlike
    BY <1>1, <2>5 DEF NotYet, TunedAlike
  <2>9. TuningCountsAll
    BY <2>3 DEF TuningCountsAll
  <2>10. \A r \in Ranks : Counted(r)
    BY <1>1, <2>2, <2>3, <2>4, <2>6 DEF Counted
  <2>11. \A r \in Ranks : Reduced(r)
    <3>1. \A r \in Ranks : resolution[r] = <<>> /\ given[r] = <<>>
      BY <1>1
    <3> QED BY <2>2, <3>1 DEF Reduced
  <2> QED BY <1>3, <2>7, <2>8, <2>9, <2>10, <2>11 DEF Tally, Tallied
<1> QED BY <1>2, <1>3

LEMMA TaskTally ==
  ASSUME Ordered, Flow, Tally, NEW l \in Lists, ListTask(l) PROVE Tally'
<1>1. ASSUME NEW task, task \notin TuningTasks, Pending(l, task), UNCHANGED <<tuning, set, round>>,
             Run(l, task) \/ at' = at
      PROVE  Tally'
  <2>1. /\ num' = num /\ resolution' = resolution /\ given' = given /\ t_tune' = t_tune
        /\ tuned' = tuned /\ exchanged' = exchanged /\ set' = set /\ round' = round
    BY <1>1 DEF tuning
  <2>2. ASSUME MC, NEW r \in Ranks PROVE Stage(r)' = Stage(r)
    <3>1. l # Tune3(r)
      BY <1>1, <2>2, StageOf
    <3>2. CASE Run(l, task)
      BY <2>2, <3>1, <3>2, OtherStages
    <3>3. CASE at' = at
      BY <3>3 DEF Stage
    <3> QED BY <1>1, <3>2, <3>3
  <2> QED BY <2>1, <2>2, SameTally
<1>2. ASSUME NEW task, task \notin TuningTasks, Run(l, task), UNCHANGED tuning PROVE Tally'
  BY <1>1, <1>2 DEF Run
<1>3. CASE \/ SourceParticles(l) \/ Transport(l) \/ UpdateTuning(l) \/ UpdateParticleResolution(l)
           \/ TotalEmissivity(l) \/ StartReduce(l) \/ CheckReduce(l)
  BY <1>3, SourceTally, TransportTally, UpdateTally, ResolutionTally
<1>4. CASE ResetCommunication(l) \/ Send(l) \/ Defrag(l)
  BY <1>2, <1>4 DEF ResetCommunication, Send, Defrag, TuningTasks
<1>5. CASE Receive(l)
  <2>1. Pending(l, "Receive") /\ UNCHANGED <<tuning, set, round>> /\ (Run(l, "Receive") \/ at' = at)
    BY <1>5 DEF Receive, Run
  <2> QED BY <1>1, <2>1 DEF TuningTasks
<1>6. CASE ApplyRadiationFourForce(l) \/ AdvectTracers(l) \/ PurgeParticles(l)
  BY <1>2, <1>6 DEF ApplyRadiationFourForce, AdvectTracers, PurgeParticles, TuningTasks
<1>7. CASE MOCMCTransport(l) \/ SampleBoundaries(l) \/ Reconstruction(l)
  BY <1>2, <1>7 DEF MOCMCTransport, SampleBoundaries, Reconstruction, TuningTasks
<1>8. CASE Eddington(l) \/ FluidSource(l)
  BY <1>2, <1>8 DEF Eddington, FluidSource, TuningTasks
<1> QED BY <1>3, <1>4, <1>5, <1>6, <1>7, <1>8 DEF ListTask

LEMMA StepTally == Ordered /\ Flow /\ Tally /\ [Next]_vars => Tally'
<1> SUFFICES ASSUME Ordered, Flow, Tally, [Next]_vars PROVE Tally'
  OBVIOUS
<1>1. ASSUME UNCHANGED tuning, set' = set, round' = round, at' = at PROVE Tally'
  <2>1. /\ num' = num /\ resolution' = resolution /\ given' = given /\ t_tune' = t_tune
        /\ tuned' = tuned /\ exchanged' = exchanged
    BY <1>1 DEF tuning
  <2>2. \A r \in Ranks : Stage(r)' = Stage(r)
    BY <1>1 DEF Stage
  <2> QED BY <1>1, <2>1, <2>2, SameTally
<1>2. CASE UNCHANGED vars
  BY <1>1, <1>2 DEF vars
<1>3. CASE EndRound
  BY <1>3, EndTally
<1>4. CASE \E r \in Ranks : RegionComplete(r)
  BY <1>1, <1>4 DEF RegionComplete
<1>5. CASE \E r \in Ranks : \E l \in Here(r) : ListTask(l)
  BY <1>5, TaskTally DEF Here
<1> QED BY <1>2, <1>3, <1>4, <1>5 DEF Next, Finished, RankStep

(* Every rank tunes the number of particles to what all ranks have emitted *)
(* and absorbed since the last tuning, no more and no less.                *)
THEOREM TuningIsToTotals == ASSUME NoSamples PROVE Spec => []TuningCountsAll
<1>1. Init => Ordered /\ Flow /\ Placed /\ Tally
  BY InitPlaced, InitTally
<1>2. Ordered /\ Flow /\ Placed /\ Tally /\ [Next]_vars => (Ordered /\ Flow /\ Placed /\ Tally)'
  BY Invariance, StepTally
<1>3. Tally => TuningCountsAll
  <2>1. MC /\ Tally => TuningCountsAll
    BY DEF Tally, Tallied
  <2>2. ~MC /\ Tally => \A r \in Ranks : DOMAIN tuned[r] = {}
    BY DEF Tally
  <2>3. ~MC /\ Tally => TuningCountsAll
    BY <2>2 DEF TuningCountsAll
  <2> QED BY <2>1, <2>3
<1> QED BY <1>1, <1>2, <1>3, PTL DEF Spec

----------------------------------------------------------------------------
(* Sums over finite sets                                                   *)

(* The recursion by which MapThenSumSet is defined: an element is picked,  *)
(* and the rest of the set is summed                                       *)
Pick(s) == CHOOSE y \in s : TRUE
Rest(s) == s \ {Pick(s)}
Solves(g, f, S) ==
  g = [s \in SUBSET S |-> IF s = {} THEN 0 ELSE f[Pick(s)] + g[Rest(s)]]
Solution(f, S) == CHOOSE g : Solves(g, f, S)

LEMMA SumIsSolution == ASSUME NEW f, NEW S PROVE SumOver(f, S) = Solution(f, S)[S]
BY DEF SumOver, MapThenSumSet, MapThenFoldSet, Solution, Solves, Pick, Rest

LEMMA Picked == ASSUME NEW S, S # {} PROVE Pick(S) \in S /\ Rest(S) \subseteq S /\ Rest(S) # S
<1>1. \E y \in S : TRUE
  OBVIOUS
<1>2. Pick(S) \in S
  BY <1>1 DEF Pick
<1> QED BY <1>2 DEF Rest

(* Of a non-empty collection of finite subsets one has no other inside.    *)
LEMMA Smallest ==
  ASSUME NEW S, IsFiniteSet(S), NEW C, C \subseteq SUBSET S, C # {}
  PROVE  \E T \in C : \A U \in C : U \subseteq T => U = T
<1>1. FiniteSubsetsOf(S) = SUBSET S
  BY FS_FiniteSubsetsOfFinite
<1>2. IsWellFoundedOn(StrictSubsetOrdering(S), SUBSET S)
  BY <1>1, FS_StrictSubsetOrderingWellFounded
<1>3. PICK T \in C : \A U \in C : ~(<<U, T>> \in StrictSubsetOrdering(S))
  BY <1>2, WFMin
<1> QED BY <1>3 DEF StrictSubsetOrdering

LEMMA SolvesAt ==
  ASSUME NEW f, NEW S, NEW g, Solves(g, f, S), NEW s \in SUBSET S
  PROVE  g[s] = IF s = {} THEN 0 ELSE f[Pick(s)] + g[Rest(s)]
BY DEF Solves

LEMMA SolvesOnce ==
  ASSUME NEW f, NEW S, IsFiniteSet(S), NEW T, NEW g, Solves(g, f, S), NEW h, Solves(h, f, T),
         NEW s, s \subseteq S, s \subseteq T
  PROVE  g[s] = h[s]
<1> DEFINE C == {u \in SUBSET S : u \subseteq T /\ g[u] # h[u]}
<1> SUFFICES ASSUME C # {} PROVE FALSE
  OBVIOUS
<1>1. PICK u \in C : \A v \in C : v \subseteq u => v = u
  <2>1. C \subseteq SUBSET S
    OBVIOUS
  <2> HIDE DEF C
  <2> QED BY <2>1, Smallest
<1>2. /\ g[u] = IF u = {} THEN 0 ELSE f[Pick(u)] + g[Rest(u)]
      /\ h[u] = IF u = {} THEN 0 ELSE f[Pick(u)] + h[Rest(u)]
  BY SolvesAt
<1>3. u # {}
  BY <1>2
<1>4. g[Rest(u)] = h[Rest(u)]
  BY <1>1, <1>3, Picked
<1> QED BY <1>2, <1>3, <1>4

LEMMA Solvable ==
  ASSUME NEW f, NEW S, IsFiniteSet(S)
  PROVE  Solves(Solution(f, S), f, S)
<1> DEFINE C == {u \in SUBSET S : ~Solves(Solution(f, u), f, u)}
<1> SUFFICES ASSUME C # {} PROVE FALSE
  BY DEF Solution
<1>1. PICK u \in C : \A v \in C : v \subseteq u => v = u
  <2>1. C \subseteq SUBSET S
    OBVIOUS
  <2> HIDE DEF C
  <2> QED BY <2>1, Smallest
<1>2. \A v \in SUBSET u : v # u => Solves(Solution(f, v), f, v)
  BY <1>1
<1>f. \A v \in SUBSET u : IsFiniteSet(v)
  BY FS_Subset
<1> DEFINE g == [s \in SUBSET u |->
                   IF s = {} THEN 0 ELSE f[Pick(s)] + Solution(f, Rest(s))[Rest(s)]]
<1>3. ASSUME NEW s \in SUBSET u, s # {}
      PROVE  g[Rest(s)] = Solution(f, Rest(s))[Rest(s)]
  <2> HIDE DEF C, g
  <2>1. /\ Rest(s) \in SUBSET u /\ Rest(s) # u
        /\ Solves(Solution(f, Rest(s)), f, Rest(s))
    <3>1. Rest(s) \subseteq s /\ Rest(s) # s
      BY <1>3, Picked
    <3>2. Rest(s) \in SUBSET u /\ Rest(s) # u
      BY <3>1
    <3> QED BY <1>2, <3>2
  <2> USE DEF g
  <2>2. CASE Rest(s) = {}
    BY <2>1, <2>2, SolvesAt
  <2>3. CASE Rest(s) # {}
    <3> DEFINE t == Rest(s)
               v == Rest(Rest(s))
    <3>1. v \subseteq t /\ v \in SUBSET u /\ v # u
      BY <2>1, <2>3, Picked
    <3>2. Solution(f, t)[t] = f[Pick(t)] + Solution(f, t)[v]
      BY <2>1, <2>3, SolvesAt
    <3>3. Solution(f, t)[v] = Solution(f, v)[v]
      <4>1. IsFiniteSet(t)
        BY <1>f, <2>1
      <4>2. Solves(Solution(f, v), f, v)
        BY <1>2, <3>1
      <4> QED BY <2>1, <3>1, <4>1, <4>2, SolvesOnce
    <3> QED BY <2>1, <2>3, <3>2, <3>3
  <2> QED BY <2>2, <2>3
<1>4. g = [s \in SUBSET u |-> IF s = {} THEN 0 ELSE f[Pick(s)] + g[Rest(s)]]
  BY <1>3
<1>5. Solves(g, f, u)
  BY <1>4 DEF Solves
<1> HIDE DEF g
<1> QED BY <1>1, <1>5 DEF Solution

(* The sum over a finite set, one element at a time                        *)
LEMMA SumByPick ==
  ASSUME NEW f, NEW S, IsFiniteSet(S)
  PROVE  SumOver(f, S) = IF S = {} THEN 0 ELSE f[Pick(S)] + SumOver(f, Rest(S))
<1>1. Solves(Solution(f, S), f, S)
  BY Solvable
<1>2. CASE S = {}
  BY <1>1, <1>2, SolvesAt, SumIsSolution
<1>3. CASE S # {}
  <2>1. Rest(S) \subseteq S /\ IsFiniteSet(Rest(S))
    BY <1>3, Picked, FS_Subset
  <2>2. Solves(Solution(f, Rest(S)), f, Rest(S))
    BY <2>1, Solvable
  <2>3. Solution(f, S)[Rest(S)] = Solution(f, Rest(S))[Rest(S)]
    BY <1>1, <2>1, <2>2, SolvesOnce
  <2>4. Solution(f, S)[S] = f[Pick(S)] + Solution(f, S)[Rest(S)]
    BY <1>1, <1>3, SolvesAt
  <2> QED BY <1>3, <2>3, <2>4, SumIsSolution
<1> QED BY <1>2, <1>3

(* Over integers the sum is an integer, and any element may be taken first *)
LEMMA SumSplit ==
  ASSUME NEW f, NEW S, IsFiniteSet(S), \A y \in S : f[y] \in Int
  PROVE  /\ SumOver(f, S) \in Int
         /\ \A y \in S : SumOver(f, S) = f[y] + SumOver(f, S \ {y})
<1> DEFINE Splits(u) == /\ SumOver(f, u) \in Int
                        /\ \A y \in u : SumOver(f, u) = f[y] + SumOver(f, u \ {y})
           C == {u \in SUBSET S : ~Splits(u)}
<1> SUFFICES ASSUME C # {} PROVE FALSE
  OBVIOUS
<1>1. PICK u \in C : \A v \in C : v \subseteq u => v = u
  <2>1. C \subseteq SUBSET S
    OBVIOUS
  <2> HIDE DEF C
  <2> QED BY <2>1, Smallest
<1>2. IsFiniteSet(u) /\ u \subseteq S
  BY FS_Subset
<1>3. ASSUME NEW v, v \subseteq u, v # u
      PROVE  Splits(v)
  BY <1>1, <1>3
<1> HIDE DEF C, Splits
<1>4. u # {}
  <2> SUFFICES ASSUME u = {} PROVE FALSE
    OBVIOUS
  <2>1. SumOver(f, {}) = 0
    BY <1>2, SumByPick
  <2>2. Splits(u)
    BY <2>1 DEF Splits
  <2> QED BY <2>2 DEF C
<1> DEFINE c == Pick(u)
<1>5. c \in u /\ Rest(u) = u \ {c}
  BY <1>4, Picked DEF Rest
<1>6. SumOver(f, u) = f[c] + SumOver(f, u \ {c})
  BY <1>2, <1>4, <1>5, SumByPick
<1> HIDE DEF c
<1>7. SumOver(f, u \ {c}) \in Int
  BY <1>3, <1>5 DEF Splits
<1>8. f[c] \in Int
  BY <1>2, <1>5
<1>9. ASSUME NEW y \in u, y # c
      PROVE  SumOver(f, u) = f[y] + SumOver(f, u \ {y})
  <2>1. SumOver(f, u \ {c}) = f[y] + SumOver(f, (u \ {c}) \ {y})
    <3>1. Splits(u \ {c})
      BY <1>3, <1>5
    <3> QED BY <1>9, <3>1 DEF Splits
  <2>2. SumOver(f, u \ {y}) = f[c] + SumOver(f, (u \ {y}) \ {c})
    <3>1. Splits(u \ {y})
      BY <1>3
    <3> QED BY <1>5, <1>9, <3>1 DEF Splits
  <2>3. (u \ {c}) \ {y} = (u \ {y}) \ {c}
    OBVIOUS
  <2>4. SumOver(f, (u \ {c}) \ {y}) \in Int
    <3>1. Splits((u \ {c}) \ {y})
      BY <1>3, <1>5
    <3> QED BY <3>1 DEF Splits
  <2>5. f[y] \in Int
    BY <1>2
  <2> DEFINE all == SumOver(f, u)
             noc == SumOver(f, u \ {c})
             noy == SumOver(f, u \ {y})
             rest == SumOver(f, (u \ {c}) \ {y})
             fc == f[c]
             fy == f[y]
  <2>6. /\ all = fc + noc /\ noc = fy + rest /\ noy = fc + rest
        /\ rest \in Int /\ fc \in Int /\ fy \in Int
    BY <1>6, <1>8, <2>1, <2>2, <2>3, <2>4, <2>5, Zenon
  <2> HIDE DEF all, noc, noy, rest, fc, fy
  <2>7. all = fy + noy
    BY <2>6
  <2> QED BY <2>7, Zenon DEF all, noy, fy
<1>10. SumOver(f, u) \in Int
  BY <1>6, <1>7, <1>8
<1>11. \A y \in u : SumOver(f, u) = f[y] + SumOver(f, u \ {y})
  BY <1>6, <1>9, Zenon
<1>12. Splits(u)
  BY <1>10, <1>11, Zenon DEF Splits
<1> QED BY <1>12 DEF C

LEMMA SumEmpty == ASSUME NEW f PROVE SumOver(f, {}) = 0
BY FS_EmptySet, SumByPick

(* What agrees on a set has the same sum over it.                          *)
LEMMA SumSame ==
  ASSUME NEW f, NEW g, NEW S, IsFiniteSet(S), \A y \in S : f[y] = g[y]
  PROVE  SumOver(f, S) = SumOver(g, S)
<1> DEFINE C == {u \in SUBSET S : SumOver(f, u) # SumOver(g, u)}
<1> SUFFICES ASSUME C # {} PROVE FALSE
  OBVIOUS
<1>1. PICK u \in C : \A v \in C : v \subseteq u => v = u
  <2>1. C \subseteq SUBSET S
    OBVIOUS
  <2> HIDE DEF C
  <2> QED BY <2>1, Smallest
<1>2. IsFiniteSet(u) /\ u \subseteq S
  BY FS_Subset
<1>3. /\ SumOver(f, u) = IF u = {} THEN 0 ELSE f[Pick(u)] + SumOver(f, Rest(u))
      /\ SumOver(g, u) = IF u = {} THEN 0 ELSE g[Pick(u)] + SumOver(g, Rest(u))
  BY <1>2, SumByPick
<1>4. u # {}
  BY <1>3
<1>5. Pick(u) \in S /\ Rest(u) \subseteq u /\ Rest(u) # u
  BY <1>2, <1>4, Picked
<1>6. SumOver(f, Rest(u)) = SumOver(g, Rest(u))
  BY <1>1, <1>2, <1>5
<1> QED BY <1>3, <1>4, <1>5, <1>6

(* One term more, or one that changes                                      *)
LEMMA SumChange ==
  ASSUME NEW f, NEW g, NEW S, IsFiniteSet(S), NEW c \in S,
         \A y \in S : f[y] \in Int /\ g[y] \in Int,
         \A y \in S \ {c} : f[y] = g[y]
  PROVE  SumOver(g, S) = SumOver(f, S) + g[c] - f[c]
<1>1. IsFiniteSet(S \ {c})
  BY FS_Subset
<1>2. SumOver(f, S \ {c}) = SumOver(g, S \ {c})
  BY <1>1, SumSame
<1>3. /\ SumOver(f, S) = f[c] + SumOver(f, S \ {c})
      /\ SumOver(g, S) = g[c] + SumOver(g, S \ {c})
      /\ SumOver(f, S \ {c}) \in Int
  BY <1>1, SumSplit
<1> QED BY <1>2, <1>3

(* Sums add up term by term.                                               *)
LEMMA SumPlus ==
  ASSUME NEW f, NEW g, NEW h, NEW S, IsFiniteSet(S),
         \A y \in S : f[y] \in Int /\ g[y] \in Int /\ h[y] = f[y] + g[y]
  PROVE  SumOver(h, S) = SumOver(f, S) + SumOver(g, S)
<1> DEFINE C == {u \in SUBSET S : SumOver(h, u) # SumOver(f, u) + SumOver(g, u)}
<1> SUFFICES ASSUME C # {} PROVE FALSE
  OBVIOUS
<1>1. PICK u \in C : \A v \in C : v \subseteq u => v = u
  <2>1. C \subseteq SUBSET S
    OBVIOUS
  <2> HIDE DEF C
  <2> QED BY <2>1, Smallest
<1>2. IsFiniteSet(u) /\ u \subseteq S
  BY FS_Subset
<1>3. u # {}
  <2> SUFFICES ASSUME u = {} PROVE FALSE
    OBVIOUS
  <2>1. SumOver(h, u) = 0 /\ SumOver(f, u) = 0 /\ SumOver(g, u) = 0
    BY SumEmpty
  <2> QED BY <2>1
<1>4. PICK c \in u : TRUE
  BY <1>3
<1>5. SumOver(h, u \ {c}) = SumOver(f, u \ {c}) + SumOver(g, u \ {c})
  BY <1>1, <1>2
<1>6. /\ SumOver(f, u) = f[c] + SumOver(f, u \ {c})
      /\ SumOver(g, u) = g[c] + SumOver(g, u \ {c})
      /\ SumOver(h, u) = h[c] + SumOver(h, u \ {c})
  BY <1>2, SumSplit
<1>7. SumOver(f, u \ {c}) \in Int /\ SumOver(g, u \ {c}) \in Int
  BY <1>2, FS_Subset, SumSplit
<1>8. SumOver(h, u) = SumOver(f, u) + SumOver(g, u)
  BY <1>2, <1>5, <1>6, <1>7
<1> QED BY <1>8

(* A sum of nothing but zeros                                              *)
LEMMA SumZero ==
  ASSUME NEW f, NEW S, IsFiniteSet(S), \A y \in S : f[y] = 0
  PROVE  SumOver(f, S) = 0
<1>1. SumOver(f, S) = SumOver(f, S) + SumOver(f, S) /\ SumOver(f, S) \in Int
  BY SumPlus, SumSplit
<1> QED BY <1>1

----------------------------------------------------------------------------
(* The energy of Monte Carlo's particles and of the fluid                  *)

(* What the fluid of a block will gain from the force collected in the     *)
(* step: Gcov is stale before the emission and applied already afterwards  *)
Owing(b) == at[Packets(b)] > 1 /\ at[Force4(RankOf[b])] = 1
Owed == [b \in Blocks |-> IF Owing(b) THEN Gcov[b] ELSE 0]

Accounts ==
  /\ fluid \in [Blocks -> Int] /\ Gcov \in [Blocks -> Int] /\ moment \in [Blocks -> Int]
Balanced ==
  /\ escaped \subseteq Particles /\ escaped \intersect unborn = {}
  /\ escaped \intersect Alive = {}
  /\ Total(fluid) + Total(Owed) + Cardinality(Alive) + Cardinality(escaped)
       = Cardinality(Particles \ Reserve)
Emitting == MC /\ ~set.remove_emitted
Energy == Accounts /\ (Emitting => Balanced)

LEMMA FiniteBlocks == IsFiniteSet(Blocks)
BY SwarmsAssumption, FS_Interval DEF Blocks

LEMMA TotalInt == ASSUME NEW f, \A b \in Blocks : f[b] \in Int PROVE Total(f) \in Int
BY FiniteBlocks, SumSplit DEF Total

(* Parts of the particles are finite, and disjoint ones add up.            *)
LEMMA Sizes ==
  ASSUME NEW A, A \subseteq Particles
  PROVE  /\ Cardinality(A) \in Nat
         /\ \A B : B \subseteq Particles /\ A \intersect B = {} =>
              Cardinality(A \union B) = Cardinality(A) + Cardinality(B)
         /\ \A B : B \subseteq A => Cardinality(A \ B) = Cardinality(A) - Cardinality(B)
<1>1. \A B : B \subseteq Particles => IsFiniteSet(B) /\ Cardinality(B) \in Nat
  BY SwarmsAssumption, FS_Subset, FS_CardinalityType
<1>2. ASSUME NEW B, NEW C, B \subseteq Particles, C \subseteq Particles, B \intersect C = {}
      PROVE  Cardinality(B \union C) = Cardinality(B) + Cardinality(C)
  <2>1. Cardinality(B \union C) = Cardinality(B) + Cardinality(C) - Cardinality(B \intersect C)
    BY <1>1, <1>2, FS_Union
  <2> QED BY <1>1, <1>2, <2>1, FS_EmptySet
<1>3. ASSUME NEW B, B \subseteq A PROVE Cardinality(A \ B) = Cardinality(A) - Cardinality(B)
  <2>1. A = (A \ B) \union B /\ (A \ B) \intersect B = {}
    BY <1>3
  <2>2. Cardinality(A) = Cardinality(A \ B) + Cardinality(B)
    BY <1>2, <1>3, <2>1
  <2> QED BY <1>1, <1>3, <2>2
<1> QED BY <1>1, <1>2, <1>3

(* Monte Carlo's lists                                                     *)
LEMMA PacketLists ==
  ASSUME Ordered, MC, NEW b \in Blocks
  PROVE  /\ Mover(b) = Packets(b) /\ Packets(b) \in Lists /\ Packets(b).rank = RankOf[b]
         /\ Packets(b).region = 2 /\ Packets(b).blocks = {b} /\ Len(Packets(b).chain) = 4
         /\ Force4(RankOf[b]) \in Lists /\ Force4(RankOf[b]).rank = RankOf[b]
         /\ Force4(RankOf[b]).region = 4 /\ Force4(RankOf[b]).blocks = BlocksOf(RankOf[b])
         /\ Force4(RankOf[b]).chain = <<"ApplyRadiationFourForce">>
         /\ Packets(b) # Force4(RankOf[b])
<1>1. RankOf[b] \in Ranks /\ Lists = MonteCarloStep /\ Mover(b) = Packets(b)
  BY DEF Ranks, Lists, MC, Mover
<1>2. Packets(b) \in Lists /\ Force4(RankOf[b]) \in Lists
  BY <1>1 DEF MonteCarloStep, Packets, Force4
<1>3. /\ Packets(b).rank = RankOf[b] /\ Packets(b).region = 2 /\ Packets(b).blocks = {b}
      /\ Packets(b).chain = <<"SourceParticles", "Transport", "Send", "Receive">>
  BY DEF Packets, PerBlock
<1>4. /\ Force4(RankOf[b]).rank = RankOf[b] /\ Force4(RankOf[b]).region = 4
      /\ Force4(RankOf[b]).blocks = BlocksOf(RankOf[b])
      /\ Force4(RankOf[b]).chain = <<"ApplyRadiationFourForce">>
  BY DEF Force4, PerRank
<1> QED BY <1>1, <1>2, <1>3, <1>4

(* The particles' tasks run before the force of their rank is applied.     *)
LEMMA PacketTask ==
  ASSUME Ordered, NEW l \in Lists, NEW task, Pending(l, task),
         task \in {"SourceParticles", "Transport"}
  PROVE  /\ MC
         /\ \E b \in Blocks :
              /\ l = Packets(b) /\ l.blocks = {b} /\ at[Force4(RankOf[b])] = 1
              /\ at[l] = IF task = "SourceParticles" THEN 1 ELSE 2
<1>1. MC /\ \E b \in Blocks : Mover(b) = l
  BY TaskOfMover
<1>2. PICK b \in Blocks : Mover(b) = l
  BY <1>1
<1>3. /\ l = Packets(b) /\ l.blocks = {b} /\ l.rank = RankOf[b] /\ l.region = 2
      /\ Force4(RankOf[b]) \in Lists /\ Force4(RankOf[b]).rank = RankOf[b]
      /\ Force4(RankOf[b]).region = 4
  BY <1>1, <1>2, PacketLists
<1>4. region[RankOf[b]] = 2
  BY <1>3, ChainOf
<1>5. at[Force4(RankOf[b])] = 1
  BY <1>3, <1>4 DEF Ordered, Lined
<1>6. at[l] = IF task = "SourceParticles" THEN 1 ELSE 2
  <2>1. /\ SendAt = 3 /\ set.method # "tracers"
    BY <1>1 DEF MC, SendAt
  <2>2. LET n == at[l] IN
        /\ n = 1 => task = "SourceParticles"
        /\ n = 2 => task \in {"Transport", "AdvectTracers"}
        /\ n = 3 => task = "Send"
        /\ n = 4 => task = "Receive"
        /\ n \in 1 .. 5
        /\ n <= 4
    BY <1>1, <1>2, <2>1, MoverTask
  <2> QED BY <2>2
<1> QED BY <1>1, <1>3, <1>5, <1>6

(* The force is owed from the emission until it is applied.                *)
LEMMA OwingKept ==
  ASSUME Ordered, MC, NEW l \in Lists, NEW task, Run(l, task),
         task \notin {"SourceParticles", "ApplyRadiationFourForce"}, NEW b \in Blocks
  PROVE  Owing(b)' <=> Owing(b)
<1>1. Pending(l, task) /\ at' = [at EXCEPT ![l] = @ + 1] /\ set' = set
  BY DEF Run
<1>2. /\ Packets(b) \in Lists /\ Force4(RankOf[b]) \in Lists /\ Mover(b) = Packets(b)
      /\ Force4(RankOf[b]).chain = <<"ApplyRadiationFourForce">>
      /\ Packets(b) # Force4(RankOf[b])
  BY PacketLists
<1>3. at[Packets(b)] \in Nat \ {0} /\ \A k \in Lists : at'[k] = IF k = l THEN at[k] + 1 ELSE at[k]
  BY <1>1, <1>2 DEF Ordered, Lined
<1>4. l # Force4(RankOf[b])
  <2> SUFFICES ASSUME l = Force4(RankOf[b]) PROVE FALSE
    OBVIOUS
  <2>1. at[l] \in Nat \ {0} /\ at[l] <= Len(l.chain) /\ task = l.chain[at[l]]
    BY <1>1, ChainOf
  <2>2. at[l] = 1
    BY <1>2, <2>1
  <2> QED BY <1>2, <2>1, <2>2
<1>5. l = Packets(b) => at[l] # 1
  BY <1>1, <1>2, MoverTask
<1> QED BY <1>2, <1>3, <1>4, <1>5 DEF Owing

(* Steps that leave the accounts as they are                               *)
LEMMA BalanceFrame ==
  ASSUME Balanced, fluid' = fluid, Gcov' = Gcov, escaped' = escaped, unborn' = unborn,
         Alive' = Alive, \A b \in Blocks : Owing(b)' <=> Owing(b)
  PROVE  Balanced'
<1>1. Owed' = Owed
  BY DEF Owed
<1>2. Total(fluid)' = Total(fluid) /\ Total(Owed)' = Total(Owed)
  BY <1>1
<1> QED BY <1>2 DEF Balanced

LEMMA SameAlive ==
  ASSUME held' = held, buffer' = buffer PROVE Alive' = Alive
BY DEF Alive

LEMMA SteadyEnergy ==
  ASSUME Energy, set' = set, energy' = energy,
         MC => /\ unborn' = unborn /\ Alive' = Alive
               /\ \A b \in Blocks : Owing(b)' <=> Owing(b)
  PROVE  Energy'
<1>1. fluid' = fluid /\ Gcov' = Gcov /\ moment' = moment /\ escaped' = escaped
  BY DEF energy
<1>2. Accounts'
  BY <1>1 DEF Energy, Accounts
<1>4. (Emitting' <=> Emitting) /\ (Emitting => MC)
  BY DEF Emitting, MC
<1>5. Emitting => Balanced'
  <2> SUFFICES ASSUME Emitting PROVE Balanced'
    OBVIOUS
  <2>1. Balanced
    BY DEF Energy
  <2> QED BY <1>1, <1>4, <2>1, BalanceFrame
<1> QED BY <1>2, <1>4, <1>5 DEF Energy

(* Tasks that touch no account and no particle that Monte Carlo knows      *)
LEMMA IdleEnergy ==
  ASSUME Ordered, Energy, NEW l \in Lists, NEW task, Run(l, task),
         task \notin {"SourceParticles", "ApplyRadiationFourForce"},
         energy' = energy, MC => unborn' = unborn /\ Alive' = Alive
  PROVE  Energy'
<1>1. set' = set /\ (MC => \A b \in Blocks : Owing(b)' <=> Owing(b))
  BY OwingKept DEF Run
<1> QED BY <1>1, SteadyEnergy

(* What is emitted is taken from the fluid.                                *)
LEMMA SourceEnergy ==
  ASSUME Ordered, Flow, Placed, Energy, NEW l \in Lists, SourceParticles(l)
  PROVE  Energy'
<1>1. /\ Run(l, "SourceParticles") /\ Pending(l, "SourceParticles")
      /\ buffer' = buffer /\ set' = set /\ fluid' = fluid /\ moment' = moment
      /\ escaped' = escaped /\ at' = [at EXCEPT ![l] = @ + 1]
  BY DEF SourceParticles, Run
<1>2. PICK S \in SUBSET unborn, b \in l.blocks :
        Born(S, b) /\ held' = [held EXCEPT ![b] = @ \union Staying(S)]
  BY DEF SourceParticles, Emissions
<1>3. /\ MC /\ b \in Blocks /\ l = Packets(b) /\ at[Force4(RankOf[b])] = 1 /\ at[l] = 1
  BY <1>1, <1>2, PacketTask
<1>4. Gcov' = [Gcov EXCEPT ![b] = - Cardinality(S)] /\ unborn' = unborn \ S
  BY <1>2 DEF Born
<1>5. S \subseteq unborn /\ unborn \subseteq Particles /\ Cardinality(S) \in Nat
  BY Sizes DEF Flow, Typed
<1>6. Accounts'
  <2>1. /\ fluid \in [Blocks -> Int] /\ Gcov \in [Blocks -> Int]
        /\ moment \in [Blocks -> Int]
    BY DEF Energy, Accounts
  <2>2. - Cardinality(S) \in Int
    BY <1>5
  <2>3. Gcov' \in [Blocks -> Int]
    BY <1>4, <2>1, <2>2
  <2> QED BY <1>1, <2>1, <2>3 DEF Accounts
<1>8. ASSUME Emitting PROVE Balanced'
  <2>1. Balanced /\ Staying(S) = S
    BY <1>8 DEF Energy, Emitting, Staying
  <2>2. ~Owing(b) /\ Owing(b)' /\ \A c \in Blocks : c # b => (Owing(c)' <=> Owing(c))
    <3>1. /\ \A c \in Blocks : /\ Packets(c) \in Lists /\ Force4(RankOf[c]) \in Lists
                               /\ Packets(b) # Force4(RankOf[c])
                               /\ Packets(c).blocks = {c}
      BY <1>3, PacketLists DEF Packets, Force4, PerBlock, PerRank
    <3>2. /\ \A k \in Lists : at'[k] = IF k = l THEN at[k] + 1 ELSE at[k]
          /\ \A c \in Blocks : c # b => Packets(c) # l
      BY <1>1, <1>3, <3>1 DEF Ordered, Lined
    <3> QED BY <1>3, <3>1, <3>2 DEF Owing
  <2>3. S \intersect Alive = {} /\ Alive' = Alive \union S
    <3>1. /\ held'[b] = held[b] \union S /\ \A c \in Blocks : c # b => held'[c] = held[c]
      BY <1>2, <1>3, <2>1 DEF Flow, Typed
    <3>2. \A p \in Alive : p \notin unborn
      BY AliveSpots DEF Placed, Timely
    <3>3. Alive' = Alive \union S
      BY <1>1, <1>3, <1>5, <3>1 DEF Alive
    <3> QED BY <1>5, <3>2, <3>3
  <2>4. Alive \subseteq Particles
    BY DEF Alive
  <2>5. Cardinality(Alive') = Cardinality(Alive) + Cardinality(S)
    BY <1>5, <2>3, <2>4, Sizes
  <2>6. Total(Owed') = Total(Owed) - Cardinality(S)
    <3>1. /\ Owed[b] = 0 /\ Owed'[b] = - Cardinality(S)
          /\ \A c \in Blocks : c # b => Owed'[c] = Owed[c]
          /\ \A c \in Blocks : Owed[c] \in Int /\ Owed'[c] \in Int
      BY <1>3, <1>4, <1>5, <2>2 DEF Owed, Energy, Accounts
    <3>2. Total(Owed') = Total(Owed) + Owed'[b] - Owed[b]
      BY <1>3, <3>1, FiniteBlocks, SumChange DEF Total
    <3>3. Total(Owed) \in Int
      BY <3>1, TotalInt
    <3> QED BY <1>5, <3>1, <3>2, <3>3
  <2>7. Total(fluid)' = Total(fluid) /\ Total(Owed)' = Total(Owed')
    BY <1>1
  <2>8. /\ Total(fluid) \in Int /\ Total(Owed) \in Int /\ Cardinality(Alive) \in Int
        /\ Cardinality(escaped) \in Int
    <3>1. \A c \in Blocks : fluid[c] \in Int /\ Owed[c] \in Int
      BY DEF Owed, Energy, Accounts
    <3> QED BY <2>1, <2>4, <3>1, TotalInt, Sizes DEF Balanced
  <2>9. /\ escaped \subseteq Particles /\ escaped \intersect unborn' = {}
        /\ escaped \intersect Alive' = {}
    BY <1>4, <1>5, <2>1, <2>3 DEF Balanced
  <2>10. Total(fluid) + Total(Owed') + Cardinality(Alive') + Cardinality(escaped)
           = Cardinality(Particles \ Reserve)
    BY <1>5, <2>1, <2>5, <2>6, <2>8 DEF Balanced
  <2> QED BY <1>1, <2>7, <2>9, <2>10 DEF Balanced
<1> QED BY <1>1, <1>6, <1>8 DEF Energy, Emitting, MC

(* The tasks that change the fluid                                         *)
LEMMA ForceTask ==
  ASSUME Ordered, NEW l \in Lists, Pending(l, "ApplyRadiationFourForce")
  PROVE  MC /\ \E r \in Ranks : l = Force4(r) /\ region[r] = 4 /\ at[l] = 1
<1>1. /\ at[l] \in Nat \ {0} /\ at[l] <= Len(l.chain)
      /\ "ApplyRadiationFourForce" = l.chain[at[l]] /\ region[l.rank] = l.region
  BY ChainOf
<1> DEFINE n == at[l]
<1> HIDE DEF n
<1>2. ASSUME NEW r \in Ranks, l = ResetAlone(r) \/ l = Tune3(r) PROVE FALSE
  <2>1. \/ l.chain = <<"ResetCommunication">>
        \/ l.chain = <<"UpdateParticleResolution", "TotalEmissivity", "StartReduce", "CheckReduce",
                       "UpdateTuning">>
    BY <1>2 DEF ResetAlone, Tune3, PerRank, Tuning
  <2>2. n \in {1, 2, 3, 4, 5}
    BY <1>1, <2>1 DEF n
  <2> QED BY <1>1, <2>1, <2>2 DEF n
<1>3. ASSUME NEW b \in Blocks, l = Packets(b) PROVE FALSE
  <2>1. l.chain = <<"SourceParticles", "Transport", "Send", "Receive">>
    BY <1>3 DEF Packets, PerBlock
  <2>2. n \in {1, 2, 3, 4}
    BY <1>1, <2>1 DEF n
  <2> QED BY <1>1, <2>1, <2>2 DEF n
<1>4. ASSUME NEW r \in Ranks, l = Advection(r) PROVE FALSE
  <2>1. l.chain = <<"ResetCommunication", "AdvectTracers", "PurgeParticles", "Send",
                    "Receive", "Defrag">>
    BY <1>4 DEF Advection, PerRank
  <2>2. n \in {1, 2, 3, 4, 5, 6}
    BY <1>1, <2>1 DEF n
  <2> QED BY <1>1, <2>1, <2>2 DEF n
<1>6. MC /\ \E r \in Ranks : l = Force4(r)
  BY <1>2, <1>3, <1>4, OneMethod
<1>7. PICK r \in Ranks : l = Force4(r)
  BY <1>6
<1>8. l.chain = <<"ApplyRadiationFourForce">> /\ l.rank = r /\ l.region = 4
  BY <1>7 DEF Force4, PerRank
<1>9. at[l] = 1 /\ region[r] = 4
  BY <1>1, <1>8
<1> QED BY <1>6, <1>7, <1>9

(* What is absorbed is owed to the fluid.                                  *)
LEMMA TransportEnergy ==
  ASSUME Ordered, Flow, Placed, Energy, NEW l \in Lists, Transport(l)
  PROVE  Energy'
<1>1. /\ Run(l, "Transport") /\ Pending(l, "Transport")
      /\ buffer' = buffer /\ set' = set /\ fluid' = fluid /\ moment' = moment
      /\ escaped' = escaped /\ unborn' = unborn
  BY DEF Transport, Run
<1>2. PICK absorbed \in SUBSET In(l), b \in l.blocks :
        /\ held' = [held EXCEPT ![b] = @ \ absorbed]
        /\ Gcov' = [Gcov EXCEPT ![b] = @ + Cardinality(absorbed)]
  BY DEF Transport
<1>3. /\ MC /\ b \in Blocks /\ l = Packets(b) /\ at[Force4(RankOf[b])] = 1 /\ at[l] = 2
      /\ l.blocks = {b}
  BY <1>1, <1>2, PacketTask
<1>4. In(l) = held[b] /\ held[b] \subseteq Particles
  BY <1>3 DEF In, Flow, Typed
<1>5. absorbed \subseteq held[b] /\ absorbed \subseteq Particles /\ Cardinality(absorbed) \in Nat
  BY <1>4, Sizes
<1>6. Accounts'
  <2>1. /\ fluid \in [Blocks -> Int] /\ Gcov \in [Blocks -> Int]
        /\ moment \in [Blocks -> Int]
    BY DEF Energy, Accounts
  <2>2. Gcov[b] + Cardinality(absorbed) \in Int
    BY <1>3, <1>5, <2>1
  <2>3. Gcov' \in [Blocks -> Int]
    BY <1>2, <2>1, <2>2
  <2> QED BY <1>1, <2>1, <2>3 DEF Accounts
<1>8. ASSUME Emitting PROVE Balanced'
  <2>1. Balanced
    BY <1>8 DEF Energy
  <2>2. Owing(b) /\ \A c \in Blocks : Owing(c)' <=> Owing(c)
    BY <1>1, <1>3, OwingKept DEF Owing
  <2>3. absorbed \subseteq Alive /\ Alive' = Alive \ absorbed
    <3>1. held'[b] = held[b] \ absorbed /\ \A c \in Blocks : c # b => held'[c] = held[c]
      BY <1>2, <1>3 DEF Flow, Typed
    <3>2. \A p \in absorbed : p \in Particles /\ Lies(p, <<b, b>>)
      BY <1>3, <1>5, BlockSpot
    <3>3. \A p \in absorbed : \A y \in Spots : Lies(p, y) => y = <<b, b>>
      BY <1>3, <3>2, BlockSpot DEF Placed, Once
    <3>4. absorbed \subseteq Alive
      BY <1>3, <3>2, BlockSpot, AliveSpots
    <3>5. Flow'
      BY TransportPlaced
    <3>6. ASSUME NEW p \in Particles, NEW y \in Spots
          PROVE  Lies(p, y)' <=> Lies(p, y) /\ p \notin absorbed
      <4>1. CASE y = <<b, b>>
        BY <1>3, <3>1, <4>1, BlockSpot
      <4>2. CASE y # <<b, b>> /\ y[1] = y[2]
        BY <3>1, <3>3, <4>2, SpotKinds, Held
      <4>3. CASE y[1] # y[2]
        BY <1>1, <3>3, <4>3, Carried
      <4> QED BY <4>1, <4>2, <4>3
    <3>7. Alive' = Alive \ absorbed
      BY <3>5, <3>6, AliveSpots, AliveSpotsNext
    <3> QED BY <3>4, <3>7
  <2>4. Alive \subseteq Particles
    BY DEF Alive
  <2>5. Cardinality(Alive') = Cardinality(Alive) - Cardinality(absorbed)
    BY <2>3, <2>4, Sizes
  <2>6. Total(Owed') = Total(Owed) + Cardinality(absorbed)
    <3>1. /\ Owed[b] = Gcov[b] /\ Owed'[b] = Gcov[b] + Cardinality(absorbed)
          /\ \A c \in Blocks : c # b => Owed'[c] = Owed[c]
      BY <1>2, <1>3, <2>2 DEF Owed, Energy, Accounts
    <3>2. \A c \in Blocks : Gcov[c] \in Int /\ Gcov'[c] \in Int
      BY <1>6 DEF Energy, Accounts
    <3>3. \A c \in Blocks : Owed[c] \in Int /\ Owed'[c] \in Int
      BY <3>2 DEF Owed
    <3>4. Total(Owed') = Total(Owed) + Owed'[b] - Owed[b]
      BY <1>3, <3>1, <3>3, FiniteBlocks, SumChange DEF Total
    <3>5. Total(Owed) \in Int
      BY <3>3, TotalInt
    <3> QED BY <1>3, <1>5, <3>1, <3>2, <3>4, <3>5
  <2>7. Total(fluid)' = Total(fluid) /\ Total(Owed)' = Total(Owed')
    BY <1>1
  <2>8. /\ Total(fluid) \in Int /\ Total(Owed) \in Int /\ Cardinality(Alive) \in Int
        /\ Cardinality(escaped) \in Int
    <3>1. \A c \in Blocks : fluid[c] \in Int /\ Owed[c] \in Int
      BY DEF Owed, Energy, Accounts
    <3> QED BY <2>1, <2>4, <3>1, TotalInt, Sizes DEF Balanced
  <2>9. /\ escaped \subseteq Particles /\ escaped \intersect unborn' = {}
        /\ escaped \intersect Alive' = {}
    BY <1>1, <2>1, <2>3 DEF Balanced
  <2>10. Total(fluid) + Total(Owed') + Cardinality(Alive') + Cardinality(escaped)
           = Cardinality(Particles \ Reserve)
    BY <1>5, <2>1, <2>5, <2>6, <2>8 DEF Balanced
  <2> QED BY <1>1, <2>7, <2>9, <2>10 DEF Balanced
<1> QED BY <1>1, <1>6, <1>8 DEF Energy, Emitting, MC

(* The force of a rank's blocks is added to their fluid, once.             *)
LEMMA ForceEnergy ==
  ASSUME Ordered, Flow, Energy, NEW l \in Lists, ApplyRadiationFourForce(l)
  PROVE  Energy'
<1>1. /\ Run(l, "ApplyRadiationFourForce") /\ Pending(l, "ApplyRadiationFourForce")
      /\ fluid' = [b \in Blocks |-> IF b \in l.blocks THEN fluid[b] + Gcov[b] ELSE fluid[b]]
      /\ set' = set /\ Gcov' = Gcov /\ moment' = moment /\ escaped' = escaped
      /\ held' = held /\ buffer' = buffer /\ unborn' = unborn
      /\ at' = [at EXCEPT ![l] = @ + 1]
  BY DEF ApplyRadiationFourForce, Run, swarm
<1>2. /\ MC /\ \E r \in Ranks : l = Force4(r) /\ region[r] = 4 /\ at[l] = 1
  BY <1>1, ForceTask
<1>3. PICK r \in Ranks : l = Force4(r) /\ region[r] = 4 /\ at[l] = 1
  BY <1>2
<1>4. l.blocks = BlocksOf(r)
  BY <1>3 DEF Force4, PerRank
<1>5. /\ fluid \in [Blocks -> Int] /\ Gcov \in [Blocks -> Int] /\ moment \in [Blocks -> Int]
  BY DEF Energy, Accounts
<1>6. Accounts'
  <2>1. \A b \in Blocks : fluid[b] + Gcov[b] \in Int /\ fluid[b] \in Int
    BY <1>5
  <2> QED BY <1>1, <1>5, <2>1 DEF Accounts
<1>8. ASSUME Emitting PROVE Balanced'
  <2>1. Balanced /\ Alive' = Alive
    BY <1>1, <1>8, SameAlive DEF Energy
  <2>2. ASSUME NEW b \in Blocks
        PROVE  IF RankOf[b] = r THEN Owing(b) /\ ~Owing(b)' ELSE Owing(b)' <=> Owing(b)
    <3>1. /\ Packets(b) \in Lists /\ Packets(b).rank = RankOf[b] /\ Packets(b).region = 2
          /\ Len(Packets(b).chain) = 4 /\ Force4(RankOf[b]) \in Lists
          /\ Force4(RankOf[b]).region = 4
      BY <1>2, PacketLists
    <3>2. Packets(b) # l
      BY <1>3, <3>1 DEF Force4, PerRank
    <3>3. at[Packets(b)] \in Nat /\ at[l] \in Nat
      BY <3>1 DEF Ordered, Lined
    <3>4. at'[Packets(b)] = at[Packets(b)]
          /\ at'[Force4(RankOf[b])] = IF Force4(RankOf[b]) = l THEN 2 ELSE at[Force4(RankOf[b])]
      BY <1>1, <1>3, <3>1, <3>2 DEF Ordered, Lined
    <3>5. CASE RankOf[b] = r
      <4>1. region[Packets(b).rank] > Packets(b).region
        BY <1>3, <3>1, <3>5
      <4>2. at[Packets(b)] > Len(Packets(b).chain)
        BY <3>1, <4>1 DEF Ordered, Lined
      <4>3. at[Packets(b)] > 1
        BY <3>1, <3>3, <4>2
      <4>4. at'[Force4(RankOf[b])] = 2 /\ at[Force4(RankOf[b])] = 1
        BY <1>3, <3>4, <3>5
      <4> QED BY <3>4, <3>5, <4>3, <4>4 DEF Owing
    <3>6. CASE RankOf[b] # r
      <4>1. Force4(RankOf[b]).rank = RankOf[b] /\ l.rank = r
        BY <1>3 DEF Force4, PerRank
      <4> QED BY <3>4, <3>6, <4>1 DEF Owing
    <3> QED BY <3>5, <3>6
  <2>3. \A b \in Blocks : /\ fluid[b] \in Int /\ Owed[b] \in Int
                          /\ fluid'[b] \in Int /\ Owed'[b] \in Int
                          /\ fluid'[b] + Owed'[b] = fluid[b] + Owed[b]
    <3> SUFFICES ASSUME NEW b \in Blocks
                 PROVE  /\ fluid[b] \in Int /\ Owed[b] \in Int
                        /\ fluid'[b] \in Int /\ Owed'[b] \in Int
                        /\ fluid'[b] + Owed'[b] = fluid[b] + Owed[b]
      OBVIOUS
    <3>1. fluid[b] \in Int /\ Gcov[b] \in Int
      BY <1>5
    <3>2. /\ fluid'[b] = IF RankOf[b] = r THEN fluid[b] + Gcov[b] ELSE fluid[b]
          /\ Owed[b] = IF Owing(b) THEN Gcov[b] ELSE 0
          /\ Owed'[b] = IF Owing(b)' THEN Gcov[b] ELSE 0
      BY <1>1, <1>4 DEF Owed, BlocksOf
    <3> QED BY <2>2, <3>1, <3>2
  <2>4. Total(fluid') + Total(Owed') = Total(fluid) + Total(Owed)
    <3> DEFINE both == [b \in Blocks |-> fluid[b] + Owed[b]]
    <3>1. Total(both) = Total(fluid) + Total(Owed)
      <4>1. \A b \in Blocks : fluid[b] \in Int /\ Owed[b] \in Int /\ both[b] = fluid[b] + Owed[b]
        BY <2>3
      <4> HIDE DEF both
      <4> QED BY <4>1, FiniteBlocks, SumPlus DEF Total
    <3>2. Total(both) = Total(fluid') + Total(Owed')
      <4>1. \A b \in Blocks : /\ fluid'[b] \in Int /\ Owed'[b] \in Int
                              /\ both[b] = fluid'[b] + Owed'[b]
        BY <2>3
      <4> HIDE DEF both
      <4> QED BY <4>1, FiniteBlocks, SumPlus DEF Total
    <3> QED BY <3>1, <3>2
  <2>5. Total(fluid)' = Total(fluid') /\ Total(Owed)' = Total(Owed')
    OBVIOUS
  <2>6. /\ Total(fluid) \in Int /\ Total(Owed) \in Int
        /\ Total(fluid') \in Int /\ Total(Owed') \in Int
    BY <2>3, TotalInt
  <2> QED BY <1>1, <2>1, <2>4, <2>5, <2>6 DEF Balanced
<1> QED BY <1>1, <1>6, <1>8 DEF Energy, Emitting, MC

(* Sending moves particles from blocks to links, and no other.             *)
LEMMA SendAlive ==
  ASSUME Ordered, Flow, Placed, NEW l \in Lists, Send(l) PROVE Alive' = Alive
<1>1. Flow' /\ Onward
  BY SendPlaced
<1>2. \A p \in Alive' : p \in Alive
  BY <1>1, AliveSpots, AliveSpotsNext DEF Onward
<1>3. /\ held' = [b \in Blocks |-> IF b \in l.blocks
                    THEN held[b] \ UNION {Leaving(b, n) : n \in Neighbours(b)} ELSE held[b]]
      /\ \A k \in Links : k[1] \in l.blocks =>
           buffer[k] = <<>> /\ buffer'[k] = <<Leaving(k[1], k[2])>>
      /\ \A k \in Links : k[1] \notin l.blocks => buffer'[k] = buffer[k]
  BY SendFlow DEF Send
<1>4. ASSUME NEW p \in Particles, NEW y \in Spots, Lies(p, y)
      PROVE  \E z \in Spots : Lies(p, z)'
  <2>1. CASE y[1] = y[2] /\ (y[1] \in l.blocks => \A n \in Neighbours(y[1]) : p \notin Leaving(y[1], n))
    <3>1. y[1] \in Blocks /\ p \in held[y[1]]
      BY <1>4, <2>1, SpotKinds, Held
    <3>2. p \in held'[y[1]]
      BY <1>3, <2>1, <3>1
    <3> QED BY <2>1, <3>2, Held
  <2>2. CASE \E n \in Neighbours(y[1]) : y[1] = y[2] /\ y[1] \in l.blocks /\ p \in Leaving(y[1], n)
    <3>1. PICK n \in Neighbours(y[1]) : y[1] = y[2] /\ y[1] \in l.blocks /\ p \in Leaving(y[1], n)
      BY <2>2
    <3> DEFINE k == <<y[1], n>>
    <3>2. k \in Links /\ k[1] = y[1] /\ k[2] = n
      BY <3>1, SpotKinds DEF Links, Neighbours
    <3> HIDE DEF k
    <3>3. buffer'[k] = <<Leaving(y[1], n)>>
      BY <1>3, <3>1, <3>2
    <3>4. buffer'[k] # <<>> /\ p \in buffer'[k][1]
      BY <3>1, <3>3, Single
    <3> QED BY <3>2, <3>4, LinkSpot
  <2>3. CASE y[1] # y[2]
    <3>1. y \in Links /\ buffer[y] # <<>>
      BY <1>4, <2>3, SpotKinds, LinkSpot
    <3>2. buffer'[y] = buffer[y]
      BY <1>3, <3>1
    <3> QED BY <1>4, <2>3, <3>2, Carried
  <2> QED BY <2>1, <2>2, <2>3
<1>5. \A p \in Alive : p \in Alive'
  BY <1>1, <1>4, AliveSpots, AliveSpotsNext
<1> QED BY <1>2, <1>5

(* The outflow takes from the particles what it adds to those that have    *)
(* left the domain.                                                        *)
Lost(l) == UNION {Unloaded(b) \ Kept(b) : b \in {c \in l.blocks : Ready(c)}}

LEMMA ReceiveAlive ==
  ASSUME Ordered, Flow, Placed, NEW l \in Lists, Receive(l)
  PROVE  /\ Lost(l) \subseteq Alive /\ Alive' = Alive \ Lost(l)
         /\ escaped' = escaped \union Lost(l)
<1> DEFINE some == {b \in l.blocks : Ready(b)}
<1>1. /\ held' = [b \in Blocks |-> IF b \in some THEN Kept(b) ELSE held[b]]
      /\ escaped' = escaped \union Lost(l) /\ Lost(l) = UNION {Unloaded(b) \ Kept(b) : b \in some}
  BY DEF Receive, Lost
<1>2. /\ Flow' /\ Onward
  BY ReceivePlaced
<1>3. /\ some \subseteq Blocks
      /\ \A k \in Links : k[2] \in some =>
           Len(buffer[k]) = 1 /\ buffer'[k] = <<>> /\ Head(buffer[k]) = buffer[k][1]
      /\ \A k \in Links : k[2] \notin some => buffer'[k] = buffer[k]
  BY ReceiveFlow
<1> HIDE DEF some
<1>4. ASSUME NEW b \in some, NEW p
      PROVE  p \in Unloaded(b) <=>
               \E z \in Spots : z[2] = b /\ Lies(p, z)
  <2>1. ASSUME NEW k \in Links, k[2] = b
        PROVE  k \in Inbox(b) /\ (Lies(p, k) <=> p \in Head(buffer[k]))
    <3>1. Len(buffer[k]) = 1 /\ Head(buffer[k]) = buffer[k][1] /\ buffer[k] \in Seq(SUBSET Particles)
      BY <1>3, <2>1 DEF Flow, Typed
    <3>2. buffer[k] # <<>>
      BY <3>1, Singleton
    <3> QED BY <1>3, <2>1, <3>1, <3>2, LinkSpot, InboxLinks
  <2>2. b \in Blocks /\ <<b, b>> \in Spots /\ (Lies(p, <<b, b>>) <=> p \in held[b])
    BY <1>3, BlockSpot
  <2>3. ASSUME p \in Unloaded(b) PROVE \E z \in Spots : z[2] = b /\ Lies(p, z)
    <3>1. CASE p \in held[b]
      BY <2>2, <3>1
    <3>2. CASE \E k \in Inbox(b) : p \in Head(buffer[k])
      <4>1. PICK k \in Inbox(b) : p \in Head(buffer[k])
        BY <3>2
      <4>2. k \in Links /\ k[2] = b
        BY <2>2, InboxLinks
      <4> QED BY <2>1, <4>1, <4>2, LinkSpot
    <3> QED BY <2>3, <3>1, <3>2 DEF Unloaded
  <2>4. ASSUME NEW z \in Spots, z[2] = b, Lies(p, z) PROVE p \in Unloaded(b)
    <3>1. CASE z[1] = z[2]
      <4>1. p \in held[b]
        BY <2>4, <3>1, Held
      <4> QED BY <4>1 DEF Unloaded
    <3>2. CASE z[1] # z[2]
      <4>1. z \in Links
        BY <3>2, SpotKinds
      <4>2. z \in Inbox(b) /\ p \in Head(buffer[z])
        BY <2>1, <2>4, <4>1
      <4> QED BY <4>2 DEF Unloaded
    <3> QED BY <3>1, <3>2
  <2> QED BY <2>3, <2>4
<1>5. ASSUME NEW b \in some PROVE Unloaded(b) \subseteq Alive
  <2>1. ASSUME NEW p \in Unloaded(b) PROVE p \in Alive
    <3>1. PICK z \in Spots : z[2] = b /\ Lies(p, z)
      BY <1>4
    <3>2. p \in Particles
      <4>1. CASE z[1] = z[2]
        BY <3>1, <4>1, SpotKinds, Held DEF Flow, Typed
      <4>2. CASE z[1] # z[2]
        <5>1. z \in Links /\ buffer[z] # <<>> /\ p \in buffer[z][1]
          BY <3>1, <4>2, SpotKinds, LinkSpot
        <5>2. Len(buffer[z]) = 1 /\ buffer[z] \in Seq(SUBSET Particles)
          BY <1>3, <3>1, <5>1 DEF Flow, Typed
        <5> QED BY <5>1, <5>2, Singleton
      <4> QED BY <4>1, <4>2
    <3> QED BY <3>1, <3>2, AliveSpots
  <2> QED BY <2>1
<1>6. Lost(l) \subseteq Alive
  BY <1>1, <1>5
<1>7. ASSUME NEW p \in Alive, p \notin Lost(l) PROVE p \in Alive'
  <2>1. PICK y \in Spots : Lies(p, y)
    BY AliveSpots
  <2>2. CASE y[2] \in some
    <3>1. y[2] \in Blocks /\ p \in Unloaded(y[2])
      BY <1>3, <1>4, <2>1, <2>2
    <3>2. p \in Kept(y[2])
      BY <1>1, <1>7, <2>2, <3>1
    <3>3. p \in held'[y[2]]
      BY <1>1, <2>2, <3>1, <3>2
    <3> QED BY <1>2, <3>1, <3>3, AliveSpotsNext, BlockSpot DEF Alive
  <2>3. CASE y[2] \notin some
    <3>1. CASE y[1] = y[2]
      <4>1. y[1] \in Blocks /\ p \in held[y[1]]
        BY <2>1, <3>1, SpotKinds, Held
      <4>2. p \in held'[y[1]]
        BY <1>1, <2>3, <3>1, <4>1
      <4> QED BY <1>2, <3>1, <4>2, AliveSpotsNext, Held DEF Alive
    <3>2. CASE y[1] # y[2]
      <4>1. y \in Links /\ buffer'[y] = buffer[y]
        BY <1>3, <2>3, <3>2, SpotKinds
      <4>2. Lies(p, y)'
        BY <2>1, <3>2, <4>1, Carried
      <4> QED BY <1>2, <4>2, AliveSpotsNext DEF Alive
    <3> QED BY <3>1, <3>2
  <2> QED BY <2>2, <2>3
<1>8. ASSUME NEW p \in Alive' PROVE p \in Alive /\ p \notin Lost(l)
  <2>1. p \in Particles /\ \E y \in Spots : Lies(p, y)'
    BY <1>2, AliveSpotsNext
  <2>2. PICK y \in Spots : Lies(p, y)'
    BY <2>1
  <2>3. p \in Alive
    BY <1>2, <2>1, AliveSpots DEF Onward
  <2>4. ASSUME NEW b \in some, p \in Unloaded(b) PROVE p \in Kept(b)
    <3>1. PICK z \in Spots : z[2] = b /\ Lies(p, z)
      BY <1>4, <2>4
    <3>2. CASE y[1] = y[2] /\ y[1] \notin some
      <4>1. y[1] \in Blocks /\ p \in held'[y[1]]
        BY <2>2, <3>2, SpotKinds, Held
      <4>2. p \in held[y[1]]
        BY <1>1, <3>2, <4>1
      <4>3. Lies(p, y)
        BY <3>2, <4>2, Held
      <4>4. y = z
        BY <2>1, <3>1, <4>3 DEF Placed, Once
      <4> QED BY <3>1, <3>2, <4>4
    <3>3. CASE y[1] = y[2] /\ y[1] \in some
      <4>1. y[1] \in Blocks /\ p \in Kept(y[1])
        BY <1>1, <1>3, <2>2, <3>3, Held
      <4>2. p \in Unloaded(y[1])
        BY <4>1 DEF Kept
      <4>3. PICK u \in Spots : u[2] = y[1] /\ Lies(p, u)
        BY <1>4, <3>3, <4>2
      <4>4. u = z
        BY <2>1, <3>1, <4>3 DEF Placed, Once
      <4> QED BY <3>1, <4>1, <4>3, <4>4
    <3>4. CASE y[1] # y[2]
      <4>1. y \in Links /\ buffer'[y] # <<>>
        BY <2>2, <3>4, SpotKinds, LinkSpot
      <4>2. y[2] \notin some /\ buffer'[y] = buffer[y]
        BY <1>3, <4>1
      <4>3. Lies(p, y)
        BY <2>2, <3>4, <4>2, Carried
      <4>4. y = z
        BY <2>1, <3>1, <4>3 DEF Placed, Once
      <4> QED BY <3>1, <4>2, <4>4
    <3> QED BY <3>2, <3>3, <3>4
  <2>5. p \notin Lost(l)
    BY <1>1, <2>4
  <2> QED BY <2>3, <2>5
<1>9. Alive' = Alive \ Lost(l)
  BY <1>7, <1>8
<1> QED BY <1>1, <1>6, <1>9

LEMMA ReceiveEnergy ==
  ASSUME Ordered, Flow, Placed, Energy, NEW l \in Lists, Receive(l) PROVE Energy'
<1>1. /\ Run(l, "Receive") \/ at' = at
      /\ set' = set /\ fluid' = fluid /\ Gcov' = Gcov /\ moment' = moment /\ unborn' = unborn
  BY DEF Receive, Run
<1>2. Accounts'
  BY <1>1 DEF Energy, Accounts
<1>4. (Emitting' <=> Emitting) /\ (Emitting => MC)
  BY <1>1 DEF Emitting, MC
<1>5. ASSUME Emitting PROVE Balanced'
  <2>1. Balanced
    BY <1>5 DEF Energy
  <2>2. \A b \in Blocks : Owing(b)' <=> Owing(b)
    <3>1. CASE Run(l, "Receive")
      BY <1>4, <1>5, <3>1, OwingKept
    <3>2. CASE at' = at
      BY <3>2 DEF Owing
    <3> QED BY <1>1, <3>1, <3>2
  <2>3. Owed' = Owed
    BY <1>1, <2>2 DEF Owed
  <2>4. /\ Lost(l) \subseteq Alive /\ Alive' = Alive \ Lost(l)
        /\ escaped' = escaped \union Lost(l)
    BY ReceiveAlive
  <2>5. Alive \subseteq Particles
    BY DEF Alive
  <2>6. escaped \subseteq Particles /\ escaped \intersect Alive = {} /\ escaped \intersect unborn = {}
    BY <2>1 DEF Balanced
  <2>7. \A p \in Alive : p \notin unborn
    BY AliveSpots DEF Placed, Timely
  <2>8. /\ escaped' \subseteq Particles /\ escaped' \intersect unborn' = {}
        /\ escaped' \intersect Alive' = {} /\ escaped \intersect Lost(l) = {}
    BY <1>1, <2>4, <2>5, <2>6, <2>7
  <2>9. /\ Cardinality(Alive') = Cardinality(Alive) - Cardinality(Lost(l))
        /\ Cardinality(escaped') = Cardinality(escaped) + Cardinality(Lost(l))
        /\ Cardinality(Alive) \in Int /\ Cardinality(escaped) \in Int
        /\ Cardinality(Lost(l)) \in Int
    <3>1. Lost(l) \subseteq Particles /\ Lost(l) \subseteq Alive
      BY <2>4, <2>5
    <3>2. Cardinality(Alive \ Lost(l)) = Cardinality(Alive) - Cardinality(Lost(l))
      BY <2>5, <3>1, Sizes
    <3>3. Cardinality(escaped \union Lost(l)) = Cardinality(escaped) + Cardinality(Lost(l))
      BY <2>6, <2>8, <3>1, Sizes
    <3>4. /\ Cardinality(Alive) \in Int /\ Cardinality(escaped) \in Int
          /\ Cardinality(Lost(l)) \in Int
      BY <2>5, <2>6, <3>1, Sizes
    <3> QED BY <2>4, <3>2, <3>3, <3>4
  <2>10. /\ Total(fluid)' = Total(fluid) /\ Total(Owed)' = Total(Owed)
         /\ Cardinality(Alive)' = Cardinality(Alive')
         /\ Cardinality(escaped)' = Cardinality(escaped')
    BY <1>1, <2>3
  <2>11. Total(fluid) \in Int /\ Total(Owed) \in Int
    <3>1. \A c \in Blocks : fluid[c] \in Int /\ Owed[c] \in Int
      BY DEF Owed, Energy, Accounts
    <3> QED BY <3>1, TotalInt
  <2>12. Total(fluid) + Total(Owed) + Cardinality(Alive) + Cardinality(escaped)
           = Cardinality(Particles \ Reserve)
    BY <2>1 DEF Balanced
  <2>13. Total(fluid) + Total(Owed) + Cardinality(Alive') + Cardinality(escaped')
           = Cardinality(Particles \ Reserve)
    BY <2>9, <2>11, <2>12
  <2> QED BY <2>8, <2>10, <2>13 DEF Balanced
<1> QED BY <1>2, <1>4, <1>5 DEF Energy

(* The moments gain what the fluid loses.                                  *)
LEMMA FluidEnergy ==
  ASSUME Ordered, Energy, NEW l \in Lists, FluidSource(l) PROVE Energy'
<1>1. /\ Pending(l, "FluidSource") /\ set' = set /\ Gcov' = Gcov
      /\ \E dE \in Exchanges : SourceUpdate(l, dE)
  BY DEF FluidSource, Run
<1>2. PICK dE \in Exchanges : SourceUpdate(l, dE)
  BY <1>1
<1>3. dE \in Int /\ - dE \in Int
  BY SwarmsAssumption
<1>4. /\ moment' = [b \in Blocks |-> IF b \in l.blocks THEN moment[b] + dE ELSE moment[b]]
      /\ fluid' = [b \in Blocks |-> IF b \in l.blocks /\ set.update_fluid
                                       THEN fluid[b] - dE ELSE fluid[b]]
  BY <1>2 DEF SourceUpdate
<1>5. ~MC
  BY <1>1, NotMonteCarlo
<1>6. \A b \in Blocks : fluid[b] \in Int /\ moment[b] \in Int
  BY DEF Energy, Accounts
<1>7. Accounts'
  <2>1. \A b \in Blocks : moment[b] + dE \in Int /\ fluid[b] - dE \in Int
    BY <1>3, <1>6
  <2> QED BY <1>1, <1>4, <1>6, <2>1 DEF Energy, Accounts
<1>9. ~Emitting'
  BY <1>1, <1>5 DEF Emitting, MC
<1> QED BY <1>7, <1>9 DEF Energy

LEMMA TaskEnergy ==
  ASSUME Ordered, Flow, Placed, Energy, NEW l \in Lists, ListTask(l) PROVE Energy'
<1>1. CASE \/ SourceParticles(l) \/ Transport(l) \/ ApplyRadiationFourForce(l)
           \/ Receive(l) \/ FluidSource(l)
  BY <1>1, SourceEnergy, TransportEnergy, ForceEnergy, ReceiveEnergy, FluidEnergy
<1>2. CASE Send(l)
  <2>1. Run(l, "Send") /\ energy' = energy /\ unborn' = unborn
    BY <1>2 DEF Send
  <2> QED BY <1>2, <2>1, SendAlive, IdleEnergy
<1>3. CASE ResetCommunication(l)
  <2>1. Run(l, "ResetCommunication") /\ energy' = energy /\ unborn' = unborn /\ held' = held
    BY <1>3 DEF ResetCommunication
  <2>2. buffer' = buffer
    BY <1>3, ResetFlow
  <2> QED BY <2>1, <2>2, SameAlive, IdleEnergy
<1>4. ASSUME NEW task, Run(l, task), task \notin {"SourceParticles", "ApplyRadiationFourForce"},
             energy' = energy, unborn' = unborn, held' = held, buffer' = buffer
      PROVE  Energy'
  BY <1>4, SameAlive, IdleEnergy
<1>5. CASE Defrag(l) \/ Eddington(l) \/ TotalEmissivity(l)
  BY <1>4, <1>5 DEF Defrag, Eddington, TotalEmissivity, swarm
<1>6. CASE UpdateParticleResolution(l) \/ StartReduce(l) \/ CheckReduce(l)
  BY <1>4, <1>6 DEF UpdateParticleResolution, StartReduce, CheckReduce, swarm
<1>7. CASE UpdateTuning(l)
  BY <1>4, <1>7 DEF UpdateTuning, swarm
<1>8. CASE Reconstruction(l)
  BY <1>4, <1>8 DEF Reconstruction
<1>9. ASSUME NEW task, Run(l, task), energy' = energy,
             task \in {"AdvectTracers", "PurgeParticles", "MOCMCTransport", "SampleBoundaries"}
      PROVE  Energy'
  <2>1. ~MC
    BY <1>9, NotMonteCarlo DEF Run
  <2> QED BY <1>9, <2>1, IdleEnergy
<1>10. CASE AdvectTracers(l) \/ PurgeParticles(l) \/ MOCMCTransport(l) \/ SampleBoundaries(l)
  BY <1>9, <1>10 DEF AdvectTracers, PurgeParticles, MOCMCTransport, SampleBoundaries
<1> QED BY <1>1, <1>2, <1>3, <1>5, <1>6, <1>7, <1>8, <1>10 DEF ListTask

(* After a step nothing is owed.                                           *)
LEMMA NothingOwed ==
  ASSUME Ordered, MC, AllComplete, NEW b \in Blocks PROVE ~Owing(b)
<1>1. Force4(RankOf[b]) \in Lists /\ Len(Force4(RankOf[b]).chain) = 1
  BY PacketLists DEF Force4, PerRank
<1>2. at[Force4(RankOf[b])] > 1
  BY <1>1, AllDone DEF Ordered
<1> QED BY <1>2 DEF Owing

LEMMA EndEnergy == ASSUME Ordered, Energy, EndRound PROVE Energy'
<1>1. /\ AllComplete /\ at' = [l \in Lists |-> 1] /\ set' = set /\ energy' = energy
      /\ held' = held /\ buffer' = buffer /\ unborn' = unborn
  BY DEF Over, EndRound, swarm
<1>2. Alive' = Alive
  BY <1>1, SameAlive
<1>3. ASSUME MC, NEW b \in Blocks PROVE ~Owing(b) /\ ~Owing(b)'
  <2>1. ~Owing(b)
    BY <1>1, <1>3, NothingOwed
  <2>2. at'[Packets(b)] = 1
    BY <1>1, <1>3, PacketLists
  <2> QED BY <2>1, <2>2 DEF Owing
<1> QED BY <1>1, <1>2, <1>3, SteadyEnergy

LEMMA StepEnergy == Ordered /\ Flow /\ Placed /\ Energy /\ [Next]_vars => Energy'
<1> SUFFICES ASSUME Ordered, Flow, Placed, Energy, [Next]_vars PROVE Energy'
  OBVIOUS
<1>1. ASSUME set' = set, energy' = energy, at' = at, held' = held, buffer' = buffer,
             unborn' = unborn
      PROVE  Energy'
  <2>1. \A b \in Blocks : Owing(b)' <=> Owing(b)
    BY <1>1 DEF Owing
  <2> QED BY <1>1, <2>1, SameAlive, SteadyEnergy
<1>2. CASE UNCHANGED vars
  BY <1>1, <1>2 DEF vars, swarm
<1>3. CASE EndRound
  BY <1>3, EndEnergy
<1>4. CASE \E r \in Ranks : RegionComplete(r)
  BY <1>1, <1>4 DEF RegionComplete, swarm
<1>5. CASE \E r \in Ranks : \E l \in Here(r) : ListTask(l)
  BY <1>5, TaskEnergy DEF Here
<1> QED BY <1>2, <1>3, <1>4, <1>5 DEF Next, Finished, RankStep

LEMMA InitEnergy == ASSUME Init PROVE Energy
<1>1. /\ fluid = [b \in Blocks |-> 0] /\ Gcov = [b \in Blocks |-> 0]
      /\ moment = [b \in Blocks |-> 0] /\ escaped = {}
      /\ held = [b \in Blocks |-> InitSamples(b)] /\ buffer = [k \in Links |-> <<>>]
      /\ unborn = IF MC THEN Reserve ELSE {}
  BY DEF Init, MC
<1>2. \A p \in Particles : x[p] \in Blocks
  <2>1. set \in Options /\ \E s \in Starts[set.method] : x = s[1]
    BY DEF Init
  <2> QED BY <2>1, SwarmsAssumption DEF Blocks
<1>3. Accounts
  BY <1>1 DEF Accounts
<1>5. ASSUME Emitting PROVE Balanced
  <2>1. unborn = Reserve
    BY <1>1, <1>5 DEF Emitting
  <2>2. Alive = Particles \ Reserve
    <3>1. \A p \in Particles : (\E b \in Blocks : p \in held[b]) <=> p \notin Reserve
      BY <1>1, <1>2, <2>1 DEF InitSamples
    <3>2. \A k \in Links : DOMAIN buffer[k] = {}
      BY <1>1
    <3> QED BY <3>1, <3>2 DEF Alive
  <2>3. \A b \in Blocks : Owed[b] = 0 /\ fluid[b] = 0
    BY <1>1 DEF Owed
  <2>4. Total(Owed) = 0 /\ Total(fluid) = 0
    BY <2>3, FiniteBlocks, SumZero DEF Total
  <2>5. Cardinality(escaped) = 0
    BY <1>1, FS_EmptySet
  <2>6. Cardinality(Particles \ Reserve) \in Int
    BY Sizes
  <2> QED BY <1>1, <2>2, <2>4, <2>5, <2>6 DEF Balanced
<1> QED BY <1>3, <1>5 DEF Energy

LEMMA EnergyAtEnd == Ordered /\ Energy => EnergyKept
<1> SUFFICES ASSUME Ordered, Energy, AllComplete PROVE EnergyKept
  BY DEF EnergyKept
<1>1. ASSUME Emitting
      PROVE  Total(fluid) + Cardinality(Alive) + Cardinality(escaped)
               = Cardinality(Particles \ Reserve)
  <2>1. Balanced /\ MC
    BY <1>1 DEF Energy, Emitting
  <2>2. \A b \in Blocks : Owed[b] = 0
    BY <2>1, NothingOwed DEF Owed
  <2>3. Total(Owed) = 0
    BY <2>2, FiniteBlocks, SumZero DEF Total
  <2>4. Total(fluid) \in Int
    BY TotalInt DEF Energy, Accounts
  <2> QED BY <2>1, <2>3, <2>4 DEF Balanced
<1> QED BY <1>1 DEF EnergyKept, Emitting, Ordered, MC

(* What Monte Carlo emits, absorbs and carries between blocks and out of   *)
(* the domain is taken from and given to the fluid: no energy is created   *)
(* or lost.                                                                *)
THEOREM EnergyIsKept == ASSUME NoSamples PROVE Spec => []EnergyKept
<1>1. Init => Ordered /\ Flow /\ Placed /\ Energy
  BY InitPlaced, InitEnergy
<1>2. Ordered /\ Flow /\ Placed /\ Energy /\ [Next]_vars => (Ordered /\ Flow /\ Placed /\ Energy)'
  BY Invariance, StepEnergy
<1>3. Ordered /\ Energy => EnergyKept
  BY EnergyAtEnd
<1> QED BY <1>1, <1>2, <1>3, PTL DEF Spec

----------------------------------------------------------------------------
(* The directions of a cell among its samples                              *)

Boxes == [mu_lo : Int, mu_hi : Int, phi_lo : Int, phi_hi : Int]
Apart(S, d) == InGrid(S, d) /\ \A p \in S : d[p] \in [mu : Int, phi : Int]

Shares(grid) == [p \in Particles |-> dOmega(grid.box[p])]
(* The boxes of the samples seen are as large as all directions together,  *)
(* and the direction of every other sample is in one of them.              *)
Listed(grid, S) == grid.seen \in Seq(S) /\ grid.box = [p \in Particles |-> grid.box[p]]
Divided(grid, S, d) ==
  /\ Listed(grid, S)
  /\ \A p \in ToSet(grid.seen) : grid.box[p] \in Boxes
  /\ grid.seen # <<>> =>
       /\ SumOver(Shares(grid), ToSet(grid.seen)) = dOmega(Whole)
       /\ \A p \in S : p \notin ToSet(grid.seen) =>
            \E i \in DOMAIN grid.seen : Inside(grid.box[grid.seen[i]], d[p])

LEMMA BoxFields ==
  ASSUME NEW part \in Boxes
  PROVE  part.mu_lo \in Int /\ part.mu_hi \in Int /\ part.phi_lo \in Int /\ part.phi_hi \in Int
BY DEF Boxes

LEMMA BoxInts == ASSUME NEW part \in Boxes PROVE dOmega(part) \in Int
BY BoxFields DEF dOmega, mu0, phi0

LEMMA WholeBox == Whole \in Boxes
<1>1. Mu \in Int /\ 4 * Quarter \in Int
  BY SampleGridAssumption
<1> QED BY <1>1 DEF Whole, Boxes

LEMMA Distributed ==
  ASSUME NEW a \in Int, NEW b \in Int, NEW c \in Int, NEW w \in Int
  PROVE  (b - a) * w + (c - b) * w = (c - a) * w
OBVIOUS

LEMMA DistributedRight ==
  ASSUME NEW a \in Int, NEW b \in Int, NEW c \in Int, NEW w \in Int
  PROVE  w * (b - a) + w * (c - b) = w * (c - a)
OBVIOUS

(* Wherever the split is, both parts are as large as the box was, and they *)
(* cover it but for the edge between them.                                 *)
LEMMA Split ==
  ASSUME NEW part \in Boxes, NEW d \in [mu : Int, phi : Int]
  PROVE  /\ Upper(part, d) \in Boxes /\ Lower(part, d) \in Boxes
         /\ dOmega(Upper(part, d)) + dOmega(Lower(part, d)) = dOmega(part)
         /\ \A e \in [mu : Int, phi : Int] :
              Inside(part, e) /\ e.mu # mu_split(d) /\ e.phi # phi_split(d) =>
                Inside(Upper(part, d), e) \/ Inside(Lower(part, d), e)
<1>1. /\ part.mu_lo \in Int /\ part.mu_hi \in Int /\ part.phi_lo \in Int /\ part.phi_hi \in Int
      /\ d.mu \in Int /\ d.phi \in Int
  BY BoxFields
<1> DEFINE m == mu_split(d)
           f == phi_split(d)
<1>2. m \in Int /\ f \in Int
  BY <1>1, SampleGridAssumption DEF mu_split, phi_split
<1> HIDE DEF m, f
<1>3. CASE mu0(part) > phi0(part)
  <2>1. Upper(part, d) = [part EXCEPT !.mu_lo = m] /\ Lower(part, d) = [part EXCEPT !.mu_hi = m]
    BY <1>3 DEF Upper, Lower, m
  <2>2. [part EXCEPT !.mu_lo = m] \in Boxes /\ [part EXCEPT !.mu_hi = m] \in Boxes
    BY <1>2 DEF Boxes
  <2>3. /\ Upper(part, d).mu_lo = m /\ Upper(part, d).mu_hi = part.mu_hi
        /\ Upper(part, d).phi_lo = part.phi_lo /\ Upper(part, d).phi_hi = part.phi_hi
        /\ Lower(part, d).mu_lo = part.mu_lo /\ Lower(part, d).mu_hi = m
        /\ Lower(part, d).phi_lo = part.phi_lo /\ Lower(part, d).phi_hi = part.phi_hi
    BY <2>1 DEF Boxes
  <2>4. phi0(part) \in Int
    BY <1>1 DEF phi0
  <2>5. (m - part.mu_lo) * phi0(part) + (part.mu_hi - m) * phi0(part)
          = (part.mu_hi - part.mu_lo) * phi0(part)
    BY <1>1, <1>2, <2>4, Distributed
  <2>6. /\ dOmega(Upper(part, d)) = (part.mu_hi - m) * phi0(part)
        /\ dOmega(Lower(part, d)) = (m - part.mu_lo) * phi0(part)
        /\ dOmega(part) = (part.mu_hi - part.mu_lo) * phi0(part)
    BY <2>3 DEF dOmega, mu0, phi0
  <2>7. (part.mu_hi - m) * phi0(part) \in Int /\ (m - part.mu_lo) * phi0(part) \in Int
    BY <1>1, <1>2, <2>4
  <2>8. dOmega(Upper(part, d)) + dOmega(Lower(part, d)) = dOmega(part)
    BY <2>5, <2>6, <2>7
  <2>9. ASSUME NEW e \in [mu : Int, phi : Int], Inside(part, e), e.mu # m
        PROVE  Inside(Upper(part, d), e) \/ Inside(Lower(part, d), e)
    <3>1. e.mu \in Int
      OBVIOUS
    <3> QED BY <1>1, <1>2, <2>3, <2>9, <3>1 DEF Inside
  <2> QED BY <2>1, <2>2, <2>8, <2>9 DEF m
<1>4. CASE ~(mu0(part) > phi0(part))
  <2>1. Upper(part, d) = [part EXCEPT !.phi_lo = f] /\ Lower(part, d) = [part EXCEPT !.phi_hi = f]
    BY <1>4 DEF Upper, Lower, f
  <2>2. [part EXCEPT !.phi_lo = f] \in Boxes /\ [part EXCEPT !.phi_hi = f] \in Boxes
    BY <1>2 DEF Boxes
  <2>3. /\ Upper(part, d).phi_lo = f /\ Upper(part, d).phi_hi = part.phi_hi
        /\ Upper(part, d).mu_lo = part.mu_lo /\ Upper(part, d).mu_hi = part.mu_hi
        /\ Lower(part, d).phi_lo = part.phi_lo /\ Lower(part, d).phi_hi = f
        /\ Lower(part, d).mu_lo = part.mu_lo /\ Lower(part, d).mu_hi = part.mu_hi
    BY <2>1 DEF Boxes
  <2>4. mu0(part) \in Int
    BY <1>1 DEF mu0
  <2>5. mu0(part) * (f - part.phi_lo) + mu0(part) * (part.phi_hi - f)
          = mu0(part) * (part.phi_hi - part.phi_lo)
    BY <1>1, <1>2, <2>4, DistributedRight
  <2>6. /\ dOmega(Upper(part, d)) = mu0(part) * (part.phi_hi - f)
        /\ dOmega(Lower(part, d)) = mu0(part) * (f - part.phi_lo)
        /\ dOmega(part) = mu0(part) * (part.phi_hi - part.phi_lo)
    BY <2>3 DEF dOmega, mu0, phi0
  <2>7. mu0(part) * (part.phi_hi - f) \in Int /\ mu0(part) * (f - part.phi_lo) \in Int
    BY <1>1, <1>2, <2>4
  <2>8. dOmega(Upper(part, d)) + dOmega(Lower(part, d)) = dOmega(part)
    BY <2>5, <2>6, <2>7
  <2>9. ASSUME NEW e \in [mu : Int, phi : Int], Inside(part, e), e.phi # f
        PROVE  Inside(Upper(part, d), e) \/ Inside(Lower(part, d), e)
    <3>1. e.phi \in Int
      OBVIOUS
    <3> QED BY <1>1, <1>2, <2>3, <2>9, <3>1 DEF Inside
  <2> QED BY <2>1, <2>2, <2>8, <2>9 DEF f
<1> QED BY <1>3, <1>4

(* A set of numbers has a least one.                                       *)
LEMMA Least ==
  ASSUME NEW I, I \subseteq Nat, I # {} PROVE Min(I) \in I /\ \A j \in I : Min(I) <= j
<1>1. PICK i \in I : \A j \in I : ~(<<j, i>> \in OpToRel(<, Nat))
  BY NatLessThanWellFounded, WFMin
<1>2. ASSUME NEW j \in I PROVE i <= j
  <2>1. i \in Nat /\ j \in Nat /\ <<j, i>> \in Nat \X Nat
    OBVIOUS
  <2>2. ~(j < i)
    BY <1>1, <2>1 DEF OpToRel
  <2> QED BY <2>1, <2>2
<1> QED BY <1>2 DEF Min

LEMMA Appending ==
  ASSUME NEW S, NEW q \in Seq(S), NEW n \in S
  PROVE  /\ Append(q, n) \in Seq(S) /\ ToSet(Append(q, n)) = ToSet(q) \union {n}
         /\ Append(q, n) # <<>>
         /\ \A i \in DOMAIN q : i \in DOMAIN Append(q, n) /\ Append(q, n)[i] = q[i]
         /\ \E i \in DOMAIN Append(q, n) : Append(q, n)[i] = n
<1>1. /\ Append(q, n) \in Seq(S) /\ Len(Append(q, n)) = Len(q) + 1 /\ Len(q) \in Nat
      /\ DOMAIN q = 1 .. Len(q) /\ DOMAIN Append(q, n) = 1 .. Len(q) + 1
      /\ Append(q, n)[Len(q) + 1] = n
      /\ \A i \in 1 .. Len(q) : Append(q, n)[i] = q[i]
  OBVIOUS
<1>2. \A i \in DOMAIN q : i \in DOMAIN Append(q, n) /\ Append(q, n)[i] = q[i]
  BY <1>1
<1>3. Len(q) + 1 \in DOMAIN Append(q, n)
  BY <1>1
<1>4. \A i \in DOMAIN Append(q, n) : i \in DOMAIN q \/ i = Len(q) + 1
  BY <1>1
<1>5. ToSet(Append(q, n)) = ToSet(q) \union {n}
  <2> DEFINE a == Append(q, n)
  <2>1. \A y : y \in ToSet(a) <=> \E i \in DOMAIN a : a[i] = y
    BY DEF ToSet
  <2>2. \A y : y \in ToSet(q) <=> \E i \in DOMAIN q : q[i] = y
    BY DEF ToSet
  <2>3. \A y : y \in ToSet(a) => y \in ToSet(q) \/ y = n
    BY <1>1, <1>2, <1>4, <2>1, <2>2
  <2>4. \A y : y \in ToSet(q) \/ y = n => y \in ToSet(a)
    BY <1>1, <1>2, <1>3, <2>1, <2>2
  <2> QED BY <2>3, <2>4
<1>6. Append(q, n) # <<>>
  BY <1>1, <1>3
<1> QED BY <1>1, <1>2, <1>3, <1>5, <1>6

(* What an insertion makes of the boxes                                    *)
Hits(grid, n, d) ==
  {i \in 1 .. Len(grid.seen) : Inside(grid.box[grid.seen[i]], d[n])}

LEMMA InsertFirst ==
  ASSUME NEW grid, NEW n, NEW d, grid.seen = <<>>
  PROVE  Insert(grid, n, d) = [seen |-> Append(grid.seen, n), box |-> [grid.box EXCEPT ![n] = Whole]]
BY DEF Insert

LEMMA InsertNext ==
  ASSUME NEW grid, NEW n, NEW d, grid.seen # <<>>, Hits(grid, n, d) # {}, 0 \notin Hits(grid, n, d)
  PROVE  \E i \in Hits(grid, n, d) :
           Insert(grid, n, d) =
             [seen |-> Append(grid.seen, n),
              box |-> [grid.box EXCEPT ![n] = Upper(grid.box[grid.seen[i]], d[n]),
                                       ![grid.seen[i]] = Lower(grid.box[grid.seen[i]], d[n])]]
<1> DEFINE i == Min(Hits(grid, n, d))
<1>1. Hits(grid, n, d) \subseteq Nat
  BY DEF Hits
<1>2. i \in Hits(grid, n, d) /\ i # 0
  BY <1>1, Least
<1>3. SelectInSeq(grid.seen, LAMBDA m : Inside(grid.box[m], d[n])) = i
  BY DEF SelectInSeq, Hits
<1> HIDE DEF i
<1> QED BY <1>2, <1>3 DEF Insert

LEMMA InsertLists ==
  ASSUME NEW S, S \subseteq Particles, NEW d, NEW grid, Listed(grid, S), NEW n \in S
  PROVE  Listed(Insert(grid, n, d), S)
<1>1. grid.seen \in Seq(S) /\ grid.box = [p \in Particles |-> grid.box[p]]
  BY DEF Listed
<1>2. Append(grid.seen, n) \in Seq(S)
  BY <1>1, Appending
<1>3. Insert(grid, n, d).seen = Append(grid.seen, n)
  BY DEF Insert
<1>4. \A b, i, y : b = [p \in Particles |-> b[p]] =>
        [b EXCEPT ![i] = y] = [p \in Particles |-> [b EXCEPT ![i] = y][p]]
  OBVIOUS
<1>5. \A i, j, y, z : [grid.box EXCEPT ![i] = y, ![j] = z]
                        = [p \in Particles |-> [grid.box EXCEPT ![i] = y, ![j] = z][p]]
  BY <1>1
<1>6. Insert(grid, n, d).box = [p \in Particles |-> Insert(grid, n, d).box[p]]
  <2> DEFINE split == SelectInSeq(grid.seen, LAMBDA m : Inside(grid.box[m], d[n]))
             old == grid.box[grid.seen[split]]
  <2>1. Insert(grid, n, d).box =
          CASE grid.seen = <<>> -> [grid.box EXCEPT ![n] = Whole]
            [] grid.seen # <<>> /\ split = 0 -> grid.box
            [] OTHER -> [grid.box EXCEPT ![n] = Upper(old, d[n]),
                                         ![grid.seen[split]] = Lower(old, d[n])]
    BY DEF Insert
  <2> HIDE DEF split, old
  <2>2. \/ Insert(grid, n, d).box = [grid.box EXCEPT ![n] = Whole]
        \/ Insert(grid, n, d).box = grid.box
        \/ Insert(grid, n, d).box = [grid.box EXCEPT ![n] = Upper(old, d[n]),
                                                     ![grid.seen[split]] = Lower(old, d[n])]
    BY <2>1
  <2> QED BY <1>1, <1>4, <1>5, <2>2
<1> QED BY <1>2, <1>3, <1>6 DEF Listed

LEMMA InsertDivides ==
  ASSUME NEW S, S \subseteq Particles, NEW d, Apart(S, d), NEW grid, Divided(grid, S, d),
         NEW n \in S, n \notin ToSet(grid.seen)
  PROVE  Divided(Insert(grid, n, d), S, d)
<1> DEFINE next == Insert(grid, n, d)
           seen == grid.seen
<1>1. /\ seen \in Seq(S) /\ grid.box = [p \in Particles |-> grid.box[p]]
      /\ \A p \in ToSet(seen) : grid.box[p] \in Boxes
  BY DEF Divided, Listed
<1>2. \A p \in S : d[p] \in [mu : Int, phi : Int] /\ Inside(Whole, d[p])
  BY DEF Apart, InGrid
<1>3. /\ Append(seen, n) \in Seq(S) /\ ToSet(Append(seen, n)) = ToSet(seen) \union {n}
      /\ Append(seen, n) # <<>>
      /\ \A i \in DOMAIN seen : i \in DOMAIN Append(seen, n) /\ Append(seen, n)[i] = seen[i]
      /\ \E i \in DOMAIN Append(seen, n) : Append(seen, n)[i] = n
  BY <1>1, Appending
<1>4. ToSet(seen) \subseteq S /\ IsFiniteSet(ToSet(seen) \union {n}) /\ n \in Particles
  <2>1. ToSet(seen) \subseteq S
    BY <1>1 DEF ToSet
  <2>2. ToSet(seen) \union {n} \subseteq Particles
    BY <2>1
  <2> QED BY <2>1, <2>2, SwarmsAssumption, FS_Subset
<1> HIDE DEF next, seen
<1>5. CASE seen = <<>>
  <2>1. next.seen = Append(seen, n) /\ next.box = [grid.box EXCEPT ![n] = Whole]
    BY <1>5, InsertFirst DEF next, seen
  <2>2. ToSet(seen) = {}
    BY <1>5 DEF ToSet
  <2>3. next.box = [p \in Particles |-> IF p = n THEN Whole ELSE grid.box[p]]
    BY <1>1, <2>1
  <2>4. next.box = [p \in Particles |-> next.box[p]] /\ next.box[n] = Whole
    BY <1>4, <2>3
  <2>5. SumOver(Shares(next), {n}) = dOmega(Whole)
    <3>1. Shares(next)[n] = dOmega(Whole) /\ dOmega(Whole) \in Int
      BY <1>4, <2>4, WholeBox, BoxInts DEF Shares
    <3>2. IsFiniteSet({n}) /\ {n} \ {n} = {}
      BY FS_Singleton
    <3>3. SumOver(Shares(next), {n}) = Shares(next)[n] + SumOver(Shares(next), {n} \ {n})
      BY <3>1, <3>2, SumSplit
    <3> QED BY <3>1, <3>2, <3>3, SumEmpty
  <2>6. \A p \in S : \E i \in DOMAIN next.seen : Inside(next.box[next.seen[i]], d[p])
    BY <1>2, <1>3, <2>1, <2>4
  <2>7. \A p \in ToSet(next.seen) : next.box[p] \in Boxes
    BY <1>3, <2>1, <2>2, <2>4, WholeBox
  <2> QED BY <1>3, <2>1, <2>2, <2>4, <2>5, <2>6, <2>7 DEF Divided, Listed, next
<1>6. CASE seen # <<>>
  <2>1. /\ SumOver(Shares(grid), ToSet(seen)) = dOmega(Whole)
        /\ \A p \in S : p \notin ToSet(seen) =>
             \E i \in DOMAIN seen : Inside(grid.box[seen[i]], d[p])
    BY <1>6 DEF Divided, seen
  <2>2. DOMAIN seen = 1 .. Len(seen)
    BY <1>1
  <2>3. Hits(grid, n, d) # {} /\ 0 \notin Hits(grid, n, d)
    <3>1. PICK i \in DOMAIN seen : Inside(grid.box[seen[i]], d[n])
      BY <1>4, <2>1 DEF seen
    <3> QED BY <2>2, <3>1 DEF Hits, seen
  <2>4. PICK i \in Hits(grid, n, d) :
          next = [seen |-> Append(seen, n),
                  box |-> [grid.box EXCEPT ![n] = Upper(grid.box[seen[i]], d[n]),
                                           ![seen[i]] = Lower(grid.box[seen[i]], d[n])]]
    BY <1>6, <2>3, InsertNext DEF next, seen
  <2> DEFINE m == seen[i]
             old == grid.box[m]
             up == Upper(old, d[n])
             low == Lower(old, d[n])
  <2>5. i \in DOMAIN seen /\ Inside(old, d[n])
    BY <2>2 DEF Hits, seen
  <2>6. m \in ToSet(seen) /\ m \in Particles /\ m # n
    BY <1>4, <2>5 DEF ToSet, seen
  <2>7. old \in Boxes /\ d[n] \in [mu : Int, phi : Int]
    BY <1>1, <1>2, <1>4, <2>6
  <2>8. /\ up \in Boxes /\ low \in Boxes /\ dOmega(up) + dOmega(low) = dOmega(old)
        /\ \A e \in [mu : Int, phi : Int] :
             Inside(old, e) /\ e.mu # mu_split(d[n]) /\ e.phi # phi_split(d[n]) =>
               Inside(up, e) \/ Inside(low, e)
    <3> HIDE DEF old
    <3> QED BY <2>7, Split
  <2>9. next.seen = Append(seen, n) /\ next.box = [grid.box EXCEPT ![n] = up, ![m] = low]
    BY <2>4
  <2> HIDE DEF m, up, low, old
  <2>10. next.box = [p \in Particles |-> IF p = m THEN low ELSE IF p = n THEN up ELSE grid.box[p]]
    BY <1>1, <1>4, <2>6, <2>9
  <2>11. /\ next.box[n] = up /\ next.box[m] = low /\ grid.box[m] = old
         /\ \A p \in Particles : p # m /\ p # n => next.box[p] = grid.box[p]
         /\ next.box = [p \in Particles |-> next.box[p]]
    BY <1>4, <2>6, <2>10 DEF old
  <2>12. \A p \in ToSet(next.seen) : next.box[p] \in Boxes
    BY <1>1, <1>3, <1>4, <2>8, <2>9, <2>11
  <2>13. SumOver(Shares(next), ToSet(seen) \union {n}) = dOmega(Whole)
    <3> DEFINE T == ToSet(seen)
    <3>1. T \subseteq Particles /\ IsFiniteSet(T) /\ (T \union {n}) \ {n} = T
      BY <1>4, FS_Subset DEF seen
    <3>2. /\ \A p \in T : Shares(grid)[p] = dOmega(grid.box[p])
          /\ \A p \in T \union {n} : Shares(next)[p] = dOmega(next.box[p])
      BY <1>4, <3>1 DEF Shares
    <3> HIDE DEF T
    <3>3. \A p \in T : Shares(grid)[p] \in Int
      BY <1>1, <3>2, BoxInts DEF T
    <3>4. \A p \in T \union {n} : Shares(next)[p] \in Int
      BY <1>3, <2>9, <2>12, <3>2, BoxInts DEF T
    <3>5. \A p \in T \ {m} : Shares(next)[p] = Shares(grid)[p]
      <4>1. n \notin T
        BY DEF T, seen
      <4> QED BY <2>11, <3>1, <3>2, <4>1
    <3>6. m \in T
      BY <2>6 DEF T
    <3>7. SumOver(Shares(next), T) = SumOver(Shares(grid), T) + Shares(next)[m] - Shares(grid)[m]
      BY <3>1, <3>3, <3>4, <3>5, <3>6, SumChange
    <3>8. SumOver(Shares(next), T \union {n}) = Shares(next)[n] + SumOver(Shares(next), T)
      BY <1>4, <3>1, <3>4, SumSplit DEF T
    <3>9. /\ Shares(next)[m] = dOmega(low) /\ Shares(next)[n] = dOmega(up)
          /\ Shares(grid)[m] = dOmega(old)
      BY <2>11, <3>2, <3>6
    <3>10. /\ dOmega(low) \in Int /\ dOmega(up) \in Int /\ dOmega(old) \in Int
           /\ dOmega(Whole) \in Int
      BY <2>7, <2>8, WholeBox, BoxInts
    <3>11. SumOver(Shares(grid), T) = dOmega(Whole)
      BY <2>1 DEF T
    <3> QED BY <2>8, <3>7, <3>8, <3>9, <3>10, <3>11 DEF T
  <2>14. ASSUME NEW p \in S, p \notin ToSet(next.seen)
         PROVE  \E j \in DOMAIN next.seen : Inside(next.box[next.seen[j]], d[p])
    <3>1. p \notin ToSet(seen) /\ p # n
      BY <1>3, <2>9, <2>14
    <3>2. PICK j \in DOMAIN seen : Inside(grid.box[seen[j]], d[p])
      BY <2>1, <3>1
    <3>3. seen[j] \in ToSet(seen) /\ seen[j] \in Particles /\ seen[j] # n
      BY <1>4 DEF ToSet, seen
    <3>4. j \in DOMAIN next.seen /\ next.seen[j] = seen[j]
      BY <1>3, <2>9
    <3>5. CASE seen[j] # m
      BY <2>11, <3>2, <3>3, <3>4, <3>5
    <3>6. CASE seen[j] = m
      <4>1. d[p].mu # mu_split(d[n]) /\ d[p].phi # phi_split(d[n])
        BY <3>1 DEF Apart, InGrid
      <4>2. Inside(old, d[p])
        BY <2>11, <3>2, <3>6
      <4>3. Inside(up, d[p]) \/ Inside(low, d[p])
        BY <1>2, <2>8, <4>1, <4>2
      <4>4. PICK k \in DOMAIN next.seen : next.seen[k] = n
        BY <1>3, <2>9
      <4> QED BY <2>11, <3>4, <3>6, <4>3, <4>4
    <3> QED BY <3>5, <3>6
  <2> QED BY <1>3, <2>9, <2>11, <2>12, <2>13, <2>14 DEF Divided, Listed, next
<1> QED BY <1>5, <1>6 DEF next

(* The grids after each sample of the list                                 *)
Start(b) == {[seen |-> <<>>, box |-> b]}
More(G, S, d) == UNION {{Insert(grid, n, d) : n \in S \ ToSet(grid.seen)} : grid \in G}
ListedTo(g, N, S, d, b) ==
  g = [k \in 0 .. N |-> IF k = 0 THEN Start(b) ELSE More(g[k - 1], S, d)]
Listing(S, d, b) == CHOOSE g : ListedTo(g, Cardinality(S), S, d, b)

LEMMA GridsListed ==
  ASSUME NEW S, NEW d, NEW b PROVE Grids(S, d, b) = Listing(S, d, b)[Cardinality(S)]
BY DEF Grids, Listing, ListedTo, More, Start

LEMMA Listable ==
  ASSUME NEW S, NEW d, NEW b, NEW N \in Nat PROVE \E g : ListedTo(g, N, S, d, b)
<1> DEFINE C == {k \in Nat : ~(\E g : ListedTo(g, k, S, d, b))}
<1> SUFFICES ASSUME C # {} PROVE FALSE
  OBVIOUS
<1>1. PICK k \in C : \A j \in C : k <= j
  <2>1. C \subseteq Nat
    OBVIOUS
  <2> HIDE DEF C
  <2> QED BY <2>1, Least
<1>2. CASE k = 0
  <2> DEFINE g == [i \in 0 .. 0 |-> Start(b)]
  <2>1. \A i \in 0 .. 0 : i = 0
    OBVIOUS
  <2>2. g = [i \in 0 .. 0 |-> IF i = 0 THEN Start(b) ELSE More(g[i - 1], S, d)]
    BY <2>1
  <2>3. ListedTo(g, 0, S, d, b)
    BY <2>2 DEF ListedTo
  <2> HIDE DEF g
  <2> QED BY <1>1, <1>2, <2>3
<1>3. CASE k # 0
  <2>1. k \in Nat /\ k - 1 \in Nat /\ ~(k <= k - 1)
    BY <1>3
  <2>2. k - 1 \notin C
    BY <1>1, <2>1
  <2>3. PICK g : ListedTo(g, k - 1, S, d, b)
    BY <2>1, <2>2
  <2> HIDE DEF C
  <2> DEFINE h == [i \in 0 .. k |-> IF i = 0 THEN Start(b) ELSE More(g[i - 1], S, d)]
  <2>4. \A i \in 0 .. k - 1 : g[i] = IF i = 0 THEN Start(b) ELSE More(g[i - 1], S, d)
    BY <2>3 DEF ListedTo
  <2>5. \A i \in 0 .. k - 1 : h[i] = g[i]
    <3>1. \A i \in 0 .. k - 1 : i \in 0 .. k
      BY <2>1
    <3> QED BY <2>4, <3>1
  <2>6. \A i \in 0 .. k : i # 0 => i - 1 \in 0 .. k - 1
    BY <2>1
  <2>7. \A i \in 0 .. k : i # 0 => More(h[i - 1], S, d) = More(g[i - 1], S, d)
    BY <2>5, <2>6
  <2>8. h = [i \in 0 .. k |-> IF i = 0 THEN Start(b) ELSE More(h[i - 1], S, d)]
    BY <2>7
  <2>9. ListedTo(h, k, S, d, b)
    BY <2>8 DEF ListedTo
  <2> HIDE DEF h
  <2> QED BY <1>1, <2>9 DEF C
<1> QED BY <1>2, <1>3

LEMMA GridsDivide ==
  ASSUME NEW S, S \subseteq Particles, NEW d, NEW b, b = [p \in Particles |-> b[p]],
         NEW grid \in Grids(S, d, b)
  PROVE  Listed(grid, S) /\ (Apart(S, d) => Divided(grid, S, d))
<1> DEFINE N == Cardinality(S)
           g == Listing(S, d, b)
           Good(w) == Listed(w, S) /\ (Apart(S, d) => Divided(w, S, d))
           C == {k \in Nat : k <= N /\ \E w \in g[k] : ~Good(w)}
<1>1. N \in Nat
  BY SwarmsAssumption, FS_Subset, FS_CardinalityType
<1>2. ListedTo(g, N, S, d, b)
  <2>1. \E f : ListedTo(f, N, S, d, b)
    BY <1>1, Listable
  <2> QED BY <2>1 DEF Listing
<1>3. grid \in g[N]
  BY GridsListed
<1> SUFFICES ASSUME C # {} PROVE FALSE
  BY <1>1, <1>3
<1> HIDE DEF N, g
<1>4. \A k \in 0 .. N : g[k] = IF k = 0 THEN Start(b) ELSE More(g[k - 1], S, d)
  BY <1>2 DEF ListedTo
<1>5. PICK k \in C : \A j \in C : k <= j
  <2>1. C \subseteq Nat
    OBVIOUS
  <2> HIDE DEF C
  <2> QED BY <2>1, Least
<1>6. k \in 0 .. N /\ k \in Nat /\ k <= N
  BY <1>1, <1>5
<1>7. PICK w \in g[k] : ~Good(w)
  BY <1>5
<1> HIDE DEF Good
<1>8. CASE k = 0
  <2>1. w = [seen |-> <<>>, box |-> b]
    BY <1>4, <1>6, <1>7, <1>8 DEF Start
  <2>2. w.seen = <<>> /\ w.box = b /\ ToSet(w.seen) = {}
    BY <2>1 DEF ToSet
  <2>3. w.seen \in Seq(S)
    BY <2>2, EmptySeq
  <2>4. Good(w)
    BY <2>2, <2>3 DEF Good, Divided, Listed
  <2> QED BY <1>7, <2>4
<1>9. CASE k # 0
  <2>1. k - 1 \in Nat /\ k - 1 <= N /\ ~(k <= k - 1)
    BY <1>1, <1>6, <1>9
  <2>2. k - 1 \notin C
    BY <1>5, <2>1
  <2>3. \A v \in g[k - 1] : Good(v)
    BY <2>1, <2>2
  <2>4. w \in More(g[k - 1], S, d)
    BY <1>4, <1>6, <1>7, <1>9
  <2> HIDE DEF C
  <2>5. PICK v \in g[k - 1] : \E n \in S \ ToSet(v.seen) : w = Insert(v, n, d)
    BY <2>4 DEF More
  <2>6. PICK n \in S \ ToSet(v.seen) : w = Insert(v, n, d)
    BY <2>5
  <2>7. Listed(v, S) /\ (Apart(S, d) => Divided(v, S, d))
    BY <2>3 DEF Good
  <2>8. Listed(w, S)
    BY <2>6, <2>7, InsertLists
  <2>9. Apart(S, d) => Divided(w, S, d)
    BY <2>6, <2>7, InsertDivides
  <2> QED BY <1>7, <2>8, <2>9 DEF Good
<1> QED BY <1>8, <1>9

(* Only the reconstruction changes boxes.                                  *)
Boxed == box = [p \in Particles |-> box[p]]

LEMMA SameBoxed == ASSUME Boxed, box' = box PROVE Boxed'
BY DEF Boxed

LEMMA TaskBoxed == ASSUME Boxed, NEW l, ListTask(l) PROVE Boxed'
<1>1. CASE Reconstruction(l)
  <2>1. box' = [p \in Particles |-> box'[p]]
    BY <1>1 DEF Reconstruction
  <2> QED BY <2>1 DEF Boxed
<1>2. CASE ResetCommunication(l) \/ Send(l) \/ Receive(l) \/ Defrag(l)
  BY <1>2, SameBoxed DEF ResetCommunication, Send, Receive, Defrag, swarm
<1>3. CASE SourceParticles(l) \/ Transport(l) \/ ApplyRadiationFourForce(l)
  BY <1>3, SameBoxed DEF SourceParticles, Transport, ApplyRadiationFourForce, swarm
<1>4. CASE UpdateParticleResolution(l) \/ TotalEmissivity(l) \/ StartReduce(l)
  BY <1>4, SameBoxed DEF UpdateParticleResolution, TotalEmissivity, StartReduce, swarm
<1>5. CASE CheckReduce(l) \/ UpdateTuning(l) \/ Eddington(l) \/ FluidSource(l)
  BY <1>5, SameBoxed DEF CheckReduce, UpdateTuning, Eddington, FluidSource, swarm
<1>6. CASE AdvectTracers(l) \/ PurgeParticles(l) \/ MOCMCTransport(l) \/ SampleBoundaries(l)
  BY <1>6, SameBoxed DEF AdvectTracers, PurgeParticles, MOCMCTransport, SampleBoundaries
<1> QED BY <1>1, <1>2, <1>3, <1>4, <1>5, <1>6 DEF ListTask

(* A task runs in its list, or leaves the lists as they are.               *)
LEMMA TaskLined == ASSUME Lined, NEW l \in Lists, ListTask(l) PROVE Lined'
<1>1. CASE Receive(l)
  <2>1. Run(l, "Receive") \/ (set' = set /\ round' = round /\ region' = region /\ at' = at)
    BY <1>1 DEF Receive
  <2> QED BY <2>1, RunLined, SameLined
<1>2. CASE ResetCommunication(l) \/ Send(l) \/ Defrag(l)
  BY <1>2, RunLined DEF ResetCommunication, Send, Defrag
<1>3. CASE SourceParticles(l) \/ Transport(l) \/ ApplyRadiationFourForce(l)
  BY <1>3, RunLined DEF SourceParticles, Transport, ApplyRadiationFourForce
<1>4. CASE UpdateParticleResolution(l) \/ TotalEmissivity(l) \/ StartReduce(l)
  BY <1>4, RunLined DEF UpdateParticleResolution, TotalEmissivity, StartReduce
<1>5. CASE CheckReduce(l) \/ UpdateTuning(l) \/ Eddington(l) \/ FluidSource(l)
  BY <1>5, RunLined DEF CheckReduce, UpdateTuning, Eddington, FluidSource
<1>6. CASE AdvectTracers(l) \/ PurgeParticles(l) \/ MOCMCTransport(l) \/ SampleBoundaries(l)
  BY <1>6, RunLined DEF AdvectTracers, PurgeParticles, MOCMCTransport, SampleBoundaries
<1>7. CASE Reconstruction(l)
  BY <1>7, RunLined DEF Reconstruction
<1> QED BY <1>1, <1>2, <1>3, <1>4, <1>5, <1>6, <1>7 DEF ListTask

LEMMA StepGrid == Lined /\ Boxed /\ [Next]_vars => (Lined /\ Boxed)'
<1> SUFFICES ASSUME Lined, Boxed, [Next]_vars PROVE Lined' /\ Boxed'
  OBVIOUS
<1>1. CASE UNCHANGED vars
  <2>1. set' = set /\ round' = round /\ region' = region /\ at' = at /\ box' = box
    BY <1>1 DEF vars, swarm
  <2> QED BY <2>1, SameLined, SameBoxed
<1>2. CASE EndRound
  <2>1. box' = box
    BY <1>2 DEF Over, EndRound, swarm
  <2> QED BY <1>2, <2>1, EndLined, SameBoxed
<1>3. CASE \E r \in Ranks : RegionComplete(r)
  <2>1. box' = box
    BY <1>3 DEF RegionComplete, swarm
  <2> QED BY <1>3, <2>1, RegionLined, SameBoxed
<1>4. CASE \E r \in Ranks : \E l \in Here(r) : ListTask(l)
  <2>1. PICK l \in Lists : ListTask(l)
    BY <1>4 DEF Here
  <2> QED BY <2>1, TaskLined, TaskBoxed
<1> QED BY <1>1, <1>2, <1>3, <1>4 DEF Next, Finished, RankStep

LEMMA InitBoxed == Init => Boxed
<1> SUFFICES ASSUME Init PROVE Boxed
  OBVIOUS
<1>1. box = [p \in Particles |-> Whole]
  BY DEF Init
<1> QED BY <1>1 DEF Boxed

LEMMA ReconstructionShares ==
  ASSUME Lined, Boxed, NEW l \in Lists, Reconstruction(l),
         NEW b \in l.blocks, Cell(b) # {}, InGrid(Cell(b), dir')
  PROVE  SumOver([p \in Cell(b) |-> dOmega(box'[p])], Cell(b)) = dOmega(Whole)
<1>1. PICK d \in Directions : \E grid \in GridsOf(l, d) :
        /\ dir' = [p \in Particles |-> IF p \in UNION {Cell(c) : c \in l.blocks} THEN d[p]
                                                                                ELSE dir[p]]
        /\ box' = [p \in Particles |-> IF p \in UNION {Cell(c) : c \in l.blocks}
                                         THEN grid[x[p]].box[p] ELSE box[p]]
  BY DEF Reconstruction
<1>2. PICK grid \in GridsOf(l, d) :
        /\ dir' = [p \in Particles |-> IF p \in UNION {Cell(c) : c \in l.blocks} THEN d[p]
                                                                                ELSE dir[p]]
        /\ box' = [p \in Particles |-> IF p \in UNION {Cell(c) : c \in l.blocks}
                                         THEN grid[x[p]].box[p] ELSE box[p]]
  BY <1>1
<1>3. \A c : Cell(c) \subseteq Particles /\ \A p \in Cell(c) : x[p] = c
  BY DEF Cell
<1>4. \A p \in Cell(b) : /\ p \in Particles /\ p \in UNION {Cell(c) : c \in l.blocks}
                         /\ x[p] = b
  BY <1>3
<1>5. \A p \in Cell(b) : dir'[p] = d[p] /\ box'[p] = grid[b].box[p]
  BY <1>2, <1>4
<1>6. Apart(Cell(b), d)
  <2>1. \A p \in Particles : d[p] \in [mu : Int, phi : Int]
    BY SwarmsAssumption
  <2>2. InGrid(Cell(b), d)
    BY <1>5 DEF InGrid
  <2> QED BY <1>4, <2>1, <2>2 DEF Apart
<1>7. /\ ToSet(grid[b].seen) = Cell(b)
      /\ \E c \in l.blocks : grid[b] \in Grids(Cell(c), d, box)
  BY DEF GridsOf
<1>8. PICK c \in l.blocks : grid[b] \in Grids(Cell(c), d, box)
  BY <1>7
<1>9. /\ Listed(grid[b], Cell(c))
      /\ Apart(Cell(c), d) => Divided(grid[b], Cell(c), d)
  BY <1>3, <1>8, GridsDivide DEF Boxed
<1>10. Cell(b) \subseteq Cell(c)
  BY <1>7, <1>9 DEF ToSet, Listed
<1>11. c = b
  BY <1>3, <1>10
<1>12. grid[b].seen # <<>>
  BY <1>7 DEF ToSet
<1>13. SumOver(Shares(grid[b]), Cell(b)) = dOmega(Whole)
  BY <1>6, <1>7, <1>9, <1>11, <1>12 DEF Divided
<1> DEFINE f == [p \in Cell(b) |-> dOmega(box'[p])]
<1>14. \A p \in Cell(b) : f[p] = Shares(grid[b])[p]
  BY <1>4, <1>5 DEF Shares
<1>15. IsFiniteSet(Cell(b))
  BY <1>3, SwarmsAssumption, FS_Subset
<1> HIDE DEF f
<1>16. SumOver(f, Cell(b)) = SumOver(Shares(grid[b]), Cell(b))
  BY <1>14, <1>15, SumSame
<1> QED BY <1>13, <1>16 DEF f

(* A list passes its reconstruction by reconstructing.                     *)
LEMMA PassedByTask ==
  ASSUME Lined, NEW l \in Lists, NEW m \in Lists, ListTask(m), Pending(l, "Reconstruction"),
         at'[l] # at[l]
  PROVE  Reconstruction(l)
<1>1. ASSUME NEW task, Run(m, task) PROVE m = l /\ task = "Reconstruction"
  <2>1. Pending(m, task) /\ at' = [at EXCEPT ![m] = @ + 1]
    BY <1>1 DEF Run
  <2>2. m = l
    BY <2>1 DEF Lined
  <2> QED BY <2>1, <2>2 DEF Over, Pending
<1>2. ~(ResetCommunication(m) \/ Send(m) \/ Defrag(m))
  <2>1. ResetCommunication(m) => Run(m, "ResetCommunication")
    BY DEF ResetCommunication
  <2>2. Send(m) => Run(m, "Send")
    BY DEF Send
  <2>3. Defrag(m) => Run(m, "Defrag")
    BY DEF Defrag
  <2> QED BY <1>1, <2>1, <2>2, <2>3
<1>3. ~Receive(m)
  <2>1. Receive(m) => Run(m, "Receive") \/ at' = at
    BY DEF Receive
  <2> QED BY <1>1, <2>1
<1>4. ~(SourceParticles(m) \/ Transport(m) \/ ApplyRadiationFourForce(m))
  <2>1. SourceParticles(m) => Run(m, "SourceParticles")
    BY DEF SourceParticles
  <2>2. Transport(m) => Run(m, "Transport")
    BY DEF Transport
  <2>3. ApplyRadiationFourForce(m) => Run(m, "ApplyRadiationFourForce")
    BY DEF ApplyRadiationFourForce
  <2> QED BY <1>1, <2>1, <2>2, <2>3
<1>5. ~(UpdateParticleResolution(m) \/ TotalEmissivity(m) \/ StartReduce(m) \/ CheckReduce(m))
  BY <1>1 DEF UpdateParticleResolution, TotalEmissivity, StartReduce, CheckReduce
<1>6. ~(UpdateTuning(m) \/ AdvectTracers(m) \/ PurgeParticles(m))
  <2>1. UpdateTuning(m) => Run(m, "UpdateTuning")
    BY DEF UpdateTuning
  <2>2. AdvectTracers(m) => Run(m, "AdvectTracers")
    BY DEF AdvectTracers
  <2>3. PurgeParticles(m) => Run(m, "PurgeParticles")
    BY DEF PurgeParticles
  <2> QED BY <1>1, <2>1, <2>2, <2>3
<1>7. ~(MOCMCTransport(m) \/ SampleBoundaries(m) \/ Eddington(m) \/ FluidSource(m))
  <2>1. MOCMCTransport(m) => Run(m, "MOCMCTransport")
    BY DEF MOCMCTransport
  <2>2. SampleBoundaries(m) => Run(m, "SampleBoundaries")
    BY DEF SampleBoundaries
  <2> QED BY <1>1, <2>1, <2>2 DEF Eddington, FluidSource
<1>8. Reconstruction(m)
  BY <1>2, <1>3, <1>4, <1>5, <1>6, <1>7 DEF ListTask
<1>9. m = l
  BY <1>1, <1>8 DEF Reconstruction
<1> QED BY <1>8, <1>9

LEMMA ChainLength == ASSUME Lined, NEW l \in Lists PROVE Len(l.chain) \in Nat
<1>1. ASSUME NEW r \in Ranks, l = ResetAlone(r) \/ l = Tune3(r) \/ l = Force4(r)
      PROVE  Len(l.chain) \in Nat
  BY <1>1 DEF ResetAlone, Tune3, Force4, PerRank, Tuning
<1>2. ASSUME NEW b \in Blocks, l = Packets(b) PROVE Len(l.chain) \in Nat
  BY <1>2 DEF Packets, PerBlock
<1>3. ASSUME NEW r \in Ranks, l = Advection(r) PROVE Len(l.chain) \in Nat
  BY <1>3 DEF Advection, PerRank
<1>4. ASSUME NEW n \in 1 .. NStages, NEW r \in Ranks,
             l = Samples(n, r) \/ l = Grid(n, r) \/ l = Source(n, r)
      PROVE  Len(l.chain) \in Nat
  BY <1>4 DEF Samples, Grid, Source, PerRank
<1> QED BY <1>1, <1>2, <1>3, <1>4, MethodLists DEF Lined

LEMMA Passed ==
  ASSUME Lined, [Next]_vars, NEW l \in Lists, Pending(l, "Reconstruction"), at'[l] # at[l]
  PROVE  Reconstruction(l)
<1>1. at' # at
  OBVIOUS
<1>2. ~UNCHANGED vars /\ ~Finished /\ \A r \in Ranks : ~RegionComplete(r)
  BY <1>1 DEF Finished, vars, RegionComplete
<1>3. ~EndRound
  <2> SUFFICES ASSUME EndRound PROVE FALSE
    OBVIOUS
  <2>1. at[l] > Len(l.chain)
    BY AllDone DEF Over, EndRound
  <2>2. at[l] <= Len(l.chain) /\ at[l] \in Nat /\ Len(l.chain) \in Nat
    <3>1. at[l] <= Len(l.chain) /\ at[l] \in Nat
      BY DEF Over, Pending, Lined
    <3>2. Len(l.chain) \in Nat
      BY ChainLength
    <3> QED BY <3>1, <3>2
  <2> QED BY <2>1, <2>2
<1>4. PICK m \in Lists : ListTask(m)
  BY <1>2, <1>3 DEF Next, RankStep, Here
<1> QED BY <1>4, PassedByTask

LEMMA StepShares ==
  Lined /\ Boxed /\ [Next]_vars =>
    \A l \in Lists : Pending(l, "Reconstruction") /\ at'[l] # at[l] =>
      \A b \in l.blocks : Cell(b) # {} /\ InGrid(Cell(b), dir') =>
        SumOver([p \in Cell(b) |-> dOmega(box'[p])], Cell(b)) = dOmega(Whole)
BY Passed, ReconstructionShares

(* However the samples of a cell are listed, and whatever shares they had, *)
(* the reconstruction gives those it sees in the grid the whole solid      *)
(* angle and no more.                                                      *)
THEOREM SolidAngleIsShared == Spec => SolidAngleShared
<1>1. Init => Lined /\ Boxed
  BY InitLined, InitBoxed
<1>2. Lined /\ Boxed /\ [Next]_vars => (Lined /\ Boxed)'
  BY StepGrid
<1>3. Lined /\ Boxed /\ [Next]_vars =>
        [\A l \in Lists : Pending(l, "Reconstruction") /\ at'[l] # at[l] =>
           \A b \in l.blocks : Cell(b) # {} /\ InGrid(Cell(b), dir') =>
             SumOver([p \in Cell(b) |-> dOmega(box'[p])], Cell(b)) = dOmega(Whole)]_vars
  BY StepShares
<1> QED BY <1>1, <1>2, <1>3, PTL DEF Spec, SolidAngleShared

=============================================================================
