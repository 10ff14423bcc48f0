---------------------------- MODULE RadCellsProofs ----------------------------
(* Five properties of RadCells for blocks of any width, all bad moments    *)
(* and fluids the update may leave, all settings and every outcome of the  *)
(* source, with the one species the source solvers support                 *)
(* (moments_source.cpp: "Multiple species not implemented").               *)
EXTENDS RadCells, TLAPS, FiniteSetTheorems

(* Time for the provers on a machine with other work to do *)
USE SMTT(20), ZenonT(40)

IsMoment(m) == m = Moment(m.E, m.kind) /\ m.E \in Int /\ m.kind \in Kinds

Shape(x) ==
  /\ x = [v |-> x.v, e |-> x.e, thin |-> x.thin, inverts |-> x.inverts,
          ok |-> x.ok, radok |-> x.radok, rad |-> x.rad, prim |-> x.prim,
          frame |-> x.frame]
  /\ x.radok \in BOOLEAN /\ x.e \in Int
  /\ x.rad = [s \in Species |-> x.rad[s]]
  /\ x.prim = [s \in Species |-> x.prim[s]]
  /\ x.frame = [s \in Species |-> x.frame[s]]
  /\ \A s \in Species : IsMoment(x.rad[s]) /\ IsMoment(x.prim[s])

LEMMA MomentFields ==
  ASSUME NEW E \in Int, NEW kind \in Kinds
  PROVE  /\ IsMoment(Moment(E, kind))
         /\ Moment(E, kind).E = E /\ Moment(E, kind).kind = kind
BY DEF IsMoment, Moment

----------------------------------------------------------------------------
(* What the operators make of a cell, with one species                     *)

LEMMA InFrameCell ==
  ASSUME NEW s \in Species, NEW x, Shape(x), NEW m, IsMoment(m)
  PROVE  LET y == InFrame(x, s, m) IN
         /\ Shape(y) /\ y.v = x.v /\ y.e = x.e /\ y.radok = x.radok /\ y.rad = x.rad
         /\ y.prim[s] = m /\ y.frame[s] = x.v
<1> DEFINE y == InFrame(x, s, m)
<1>1. /\ y = [x EXCEPT !.prim = [x.prim EXCEPT ![s] = m],
                       !.frame = [x.frame EXCEPT ![s] = x.v]]
  BY DEF InFrame
<1> HIDE DEF y
<1>2. /\ y = [v |-> y.v, e |-> y.e, thin |-> y.thin, inverts |-> y.inverts,
              ok |-> y.ok, radok |-> y.radok, rad |-> y.rad, prim |-> y.prim,
              frame |-> y.frame]
      /\ y.v = x.v /\ y.e = x.e /\ y.radok = x.radok /\ y.rad = x.rad
      /\ y.prim = [x.prim EXCEPT ![s] = m]
      /\ y.frame = [x.frame EXCEPT ![s] = x.v]
  BY <1>1 DEF Shape
<1>3. /\ y.prim = [t \in Species |-> y.prim[t]] /\ y.prim[s] = m
      /\ y.frame = [t \in Species |-> y.frame[t]] /\ y.frame[s] = x.v
      /\ \A t \in Species : t # s => y.prim[t] = x.prim[t]
  BY <1>2 DEF Shape
<1> QED BY <1>2, <1>3 DEF Shape, y

LEMMA BothCell ==
  ASSUME NEW s \in Species, NEW x, Shape(x), NEW m, IsMoment(m)
  PROVE  LET y == Both(x, s, m) IN
         /\ Shape(y) /\ y.v = x.v /\ y.radok = x.radok /\ y.rad[s] = m
         /\ y.prim[s] = m /\ y.frame[s] = x.v
<1> DEFINE z == InFrame(x, s, m)
           y == Both(x, s, m)
<1>1. /\ Shape(z) /\ z.v = x.v /\ z.radok = x.radok /\ z.rad = x.rad
      /\ z.prim[s] = m /\ z.frame[s] = x.v
  BY InFrameCell
<1>2. y = [z EXCEPT !.rad = [z.rad EXCEPT ![s] = m]]
  BY DEF Both
<1> HIDE DEF z, y
<1>3. /\ y = [v |-> y.v, e |-> y.e, thin |-> y.thin, inverts |-> y.inverts,
              ok |-> y.ok, radok |-> y.radok, rad |-> y.rad, prim |-> y.prim,
              frame |-> y.frame]
      /\ y.v = x.v /\ y.e = z.e /\ y.radok = x.radok
      /\ y.prim = z.prim /\ y.frame = z.frame
      /\ y.rad = [z.rad EXCEPT ![s] = m]
  BY <1>1, <1>2 DEF Shape
<1>4. /\ y.rad = [t \in Species |-> y.rad[t]] /\ y.rad[s] = m
      /\ \A t \in Species : t # s => y.rad[t] = z.rad[t]
  BY <1>1, <1>3 DEF Shape
<1> QED BY <1>1, <1>3, <1>4 DEF Shape, y

(* Changing what is not a moment.                                          *)
LEMMA FluidMoved ==
  ASSUME NEW x, Shape(x), NEW y, NEW v, NEW thin,
         \/ y = [x EXCEPT !.v = v]
         \/ y = [x EXCEPT !.v = v, !.thin = thin]
  PROVE  /\ Shape(y) /\ y.v = v /\ y.e = x.e /\ y.radok = x.radok
         /\ y.rad = x.rad /\ y.prim = x.prim /\ y.frame = x.frame
BY DEF Shape

LEMMA FluidSet ==
  ASSUME NEW x, Shape(x), NEW y, NEW v, NEW e \in Int, NEW thin,
         y = [x EXCEPT !.v = v, !.e = e, !.thin = thin]
  PROVE  Shape(y) /\ y.v = v /\ y.e = e /\ y.rad = x.rad
BY DEF Shape

LEMMA FluidClamped ==
  ASSUME NEW x, Shape(x), NEW y, NEW v, NEW e \in Int, y = [x EXCEPT !.v = v, !.e = e]
  PROVE  Shape(y) /\ y.v = v /\ y.e = e /\ y.rad = x.rad
BY DEF Shape

LEMMA CeilingInt ==
  ASSUME NEW e \in Int
  PROVE  /\ UnderCeiling(e) \in Int /\ UnderCeiling(e) <= e
         /\ UnderCeiling(e) < EMax => UnderCeiling(e) = e
BY RadCellsAssumption DEF UnderCeiling

LEMMA FluidFailed ==
  ASSUME NEW x, Shape(x), NEW y, y = [x EXCEPT !.ok = FALSE]
  PROVE  Shape(y)
BY DEF Shape

LEMMA RadiationFailed ==
  ASSUME NEW x, Shape(x), NEW y, y = [x EXCEPT !.radok = FALSE]
  PROVE  /\ Shape(y) /\ y.v = x.v /\ y.radok = FALSE
         /\ y.rad = x.rad /\ y.prim = x.prim /\ y.frame = x.frame
BY DEF Shape

(* A cell of these fields is well formed.                                  *)
LEMMA ShapeMade ==
  ASSUME NEW x, NEW rad, NEW prim, NEW frame,
         x = [v |-> x.v, e |-> x.e, thin |-> x.thin, inverts |-> x.inverts,
              ok |-> x.ok, radok |-> x.radok, rad |-> rad, prim |-> prim,
              frame |-> frame],
         x.radok \in BOOLEAN, x.e \in Int,
         rad = [s \in Species |-> rad[s]], prim = [s \in Species |-> prim[s]],
         frame = [s \in Species |-> frame[s]],
         \A s \in Species : IsMoment(rad[s]), \A s \in Species : IsMoment(prim[s])
  PROVE  Shape(x)
<1>1. x.rad = rad /\ x.prim = prim /\ x.frame = frame
  OBVIOUS
<1> QED BY <1>1, Zenon DEF Shape

LEMMA Con2PrimMoment ==
  ASSUME NEW m, IsMoment(m), NEW strategy
  PROVE  /\ IsMoment(Con2Prim(m, strategy))
         /\ m.kind # "beamed" \/ strategy # "robust" => Con2Prim(m, strategy) = m
         /\ strategy = "robust" => Con2Prim(m, strategy).kind # "beamed"
BY MomentFields DEF Con2Prim, IsMoment, Kinds

(* x with the moments of p.                                                *)
Taken(x, p) ==
  [x EXCEPT !.rad = [t \in Species |-> p.rad[t]],
            !.prim = [t \in Species |-> p.prim[t]],
            !.frame = [t \in Species |-> p.frame[t]]]

LEMMA TakenOver ==
  ASSUME NEW s, Species = {s}, NEW x, Shape(x), NEW p, Shape(p)
  PROVE  LET y == Taken(x, p) IN
         /\ Shape(y) /\ y.v = x.v /\ y.radok = x.radok
         /\ y.rad[s] = p.rad[s] /\ y.prim[s] = p.prim[s] /\ y.frame[s] = p.frame[s]
<1> DEFINE rad == [t \in Species |-> p.rad[t]]
           prim == [t \in Species |-> p.prim[t]]
           frame == [t \in Species |-> p.frame[t]]
           y == Taken(x, p)
<1>1. y = [x EXCEPT !.rad = rad, !.prim = prim, !.frame = frame]
  BY DEF Taken
<1>2. /\ rad = [t \in Species |-> rad[t]] /\ prim = [t \in Species |-> prim[t]]
      /\ frame = [t \in Species |-> frame[t]]
      /\ \A t \in Species : /\ rad[t] = p.rad[t] /\ prim[t] = p.prim[t]
                            /\ frame[t] = p.frame[t]
  OBVIOUS
<1> HIDE DEF rad, prim, frame, y
<1>3. /\ y = [v |-> y.v, e |-> y.e, thin |-> y.thin, inverts |-> y.inverts,
              ok |-> y.ok, radok |-> y.radok, rad |-> y.rad, prim |-> y.prim,
              frame |-> y.frame]
      /\ y.v = x.v /\ y.e = x.e /\ y.radok = x.radok
      /\ y.rad = rad /\ y.prim = prim /\ y.frame = frame
  BY <1>1 DEF Shape
<1>4. x.radok \in BOOLEAN /\ x.e \in Int /\ \A t \in Species : IsMoment(p.rad[t]) /\ IsMoment(p.prim[t])
  BY DEF Shape
<1> QED BY <1>2, <1>3, <1>4 DEF Shape, y

RecomputeAll(x) == EachSpecies(Recomputed, x, Species)
RadBoundAll(x) == EachSpecies(RadBound, x, Species)

LEMMA RecomputedAll ==
  ASSUME NEW s, Species = {s}, NEW x, Shape(x)
  PROVE  LET y == RecomputeAll(x) IN
         /\ Shape(y) /\ y.v = x.v /\ y.radok = x.radok /\ y.rad[s] = x.rad[s]
         /\ y.prim[s] = Con2Prim(x.rad[s], "robust") /\ y.frame[s] = x.v
<1> DEFINE p == Recomputed(x, s)
           y == RecomputeAll(x)
<1>1. IsMoment(Con2Prim(x.rad[s], "robust"))
  BY Con2PrimMoment DEF Shape
<1>2. /\ Shape(p) /\ p.rad = x.rad /\ p.prim[s] = Con2Prim(x.rad[s], "robust")
      /\ p.frame[s] = x.v
  BY <1>1, InFrameCell DEF Recomputed
<1>3. y = Taken(x, p)
  <2>1. \A t \in Species : Recomputed(x, t) = p
    OBVIOUS
  <2> HIDE DEF p
  <2> QED BY <2>1 DEF RecomputeAll, EachSpecies, Taken
<1> HIDE DEF p, y
<1>4. /\ Shape(y) /\ y.v = x.v /\ y.radok = x.radok
      /\ y.rad[s] = p.rad[s] /\ y.prim[s] = p.prim[s] /\ y.frame[s] = p.frame[s]
  BY <1>2, <1>3, TakenOver
<1> QED BY <1>2, <1>4 DEF y

(* Nothing to recompute or to bound without floors of the radiation.       *)
LEMMA NoSpecies ==
  ASSUME NEW x, Shape(x)
  PROVE  /\ EachSpecies(Recomputed, x, {}) = x
         /\ EachSpecies(RadBound, x, {}) = x
<1> DEFINE same == [x EXCEPT !.rad = [s \in Species |-> x.rad[s]],
                             !.prim = [s \in Species |-> x.prim[s]],
                             !.frame = [s \in Species |-> x.frame[s]]]
<1>1. EachSpecies(Recomputed, x, {}) = same /\ EachSpecies(RadBound, x, {}) = same
  BY DEF EachSpecies
<1>2. same = [x EXCEPT !.rad = x.rad, !.prim = x.prim, !.frame = x.frame]
  <2>1. /\ x.rad = [s \in Species |-> x.rad[s]]
        /\ x.prim = [s \in Species |-> x.prim[s]]
        /\ x.frame = [s \in Species |-> x.frame[s]]
    BY DEF Shape
  <2> QED BY <2>1, Zenon
<1>3. x = [v |-> x.v, e |-> x.e, thin |-> x.thin, inverts |-> x.inverts,
           ok |-> x.ok, radok |-> x.radok, rad |-> x.rad, prim |-> x.prim,
           frame |-> x.frame]
  BY Zenon DEF Shape
<1> DEFINE rad == x.rad
           prim == x.prim
           frame == x.frame
<1>4. [x EXCEPT !.rad = rad, !.prim = prim, !.frame = frame] = x
  <2> HIDE DEF same
  <2> QED BY <1>3
<1> QED BY <1>1, <1>2, <1>4

LEMMA RadBoundCell ==
  ASSUME NEW s \in Species, NEW x, Shape(x)
  PROVE  LET y == RadBound(x, s) IN
         /\ Shape(y) /\ y.v = x.v /\ y.radok = x.radok
         /\ x.frame[s] = x.v /\ x.prim[s] = x.rad[s] =>
              y.frame[s] = y.v /\ y.prim[s] = y.rad[s]
         /\ x.prim[s].kind # "nan" => y.prim[s].kind = "ok"
<1> DEFINE y == RadBound(x, s)
           up == Moment(x.rad[s].E + 1, "ok")
           cut == Moment(x.rad[s].E, "ok")
<1>1. /\ IsMoment(up) /\ IsMoment(cut) /\ up.kind = "ok" /\ cut.kind = "ok"
  <2>1. x.rad[s].E \in Int /\ x.rad[s].E + 1 \in Int
    BY DEF Shape, IsMoment
  <2> QED BY <2>1, MomentFields DEF Kinds
<1> HIDE DEF up, cut
<1>2. CASE x.prim[s].kind \in {"low", "negative"}
  <2>1. y = Both(x, s, up)
    BY <1>2 DEF RadBound, up
  <2> QED BY <1>1, <2>1, BothCell
<1>3. CASE x.prim[s].kind = "beamed"
  <2>1. y = Both(x, s, cut)
    BY <1>3 DEF RadBound, cut
  <2> QED BY <1>1, <2>1, BothCell
<1>4. CASE x.prim[s].kind \in {"ok", "nan"}
  <2>1. y = x
    BY <1>4 DEF RadBound
  <2> QED BY <1>4, <2>1
<1>5. x.prim[s].kind \in Kinds
  BY DEF Shape, IsMoment
<1> QED BY <1>2, <1>3, <1>4, <1>5 DEF Kinds

LEMMA BoundAll ==
  ASSUME NEW s, Species = {s}, NEW x, Shape(x)
  PROVE  LET y == RadBoundAll(x) IN
         /\ Shape(y) /\ y.radok = x.radok
         /\ x.frame[s] = x.v /\ x.prim[s] = x.rad[s] =>
              y.frame[s] = y.v /\ y.prim[s] = y.rad[s]
         /\ x.prim[s].kind # "nan" => y.prim[s].kind = "ok"
<1> DEFINE p == RadBound(x, s)
           y == RadBoundAll(x)
<1>1. /\ Shape(p) /\ p.v = x.v /\ p.radok = x.radok
      /\ x.frame[s] = x.v /\ x.prim[s] = x.rad[s] =>
           p.frame[s] = p.v /\ p.prim[s] = p.rad[s]
      /\ x.prim[s].kind # "nan" => p.prim[s].kind = "ok"
  BY RadBoundCell
<1>2. y = Taken(x, p)
  <2>1. \A t \in Species : RadBound(x, t) = p
    OBVIOUS
  <2> HIDE DEF p
  <2> QED BY <2>1 DEF RadBoundAll, EachSpecies, Taken
<1> HIDE DEF p, y
<1>3. /\ Shape(y) /\ y.v = x.v /\ y.radok = x.radok
      /\ y.rad[s] = p.rad[s] /\ y.prim[s] = p.prim[s] /\ y.frame[s] = p.frame[s]
  BY <1>1, <1>2, TakenOver
<1> QED BY <1>1, <1>3 DEF y

(* The moments of x are those of the fluid as it moves.                    *)
Seen(x, s) == x.frame[s] = x.v /\ x.prim[s] = x.rad[s]

LEMMA BoundedCell ==
  ASSUME NEW s, Species = {s}, NEW x, Shape(x)
  PROVE  LET y == BoundCell(x) IN
         /\ Shape(y)
         /\ set.enable_rad_floors /\ Seen(x, s) /\ x.rad[s].kind # "beamed" =>
              /\ Seen(y, s)
              /\ x.rad[s].kind # "nan" => y.prim[s].kind = "ok"
<1> DEFINE moved == [x EXCEPT !.v = @ + 1, !.e = UnderCeiling(@ + Full), !.thin = FALSE]
           f == FluidBound(x)
           y == BoundCell(x)
<1>1. Shape(moved) /\ moved.rad = x.rad
  <2>1. x.e + Full \in Int
    BY DEF Shape, Full
  <2>2. UnderCeiling(x.e + Full) \in Int
    BY <2>1, CeilingInt
  <2> QED BY <2>2, FluidSet
<1>2. /\ Shape(f)
      /\ set.enable_rad_floors /\ Seen(x, s) /\ x.rad[s].kind # "beamed" =>
           Seen(f, s) /\ f.rad[s] = x.rad[s]
  <2>1. CASE ~x.thin
    BY <2>1 DEF FluidBound
  <2>2. CASE x.thin /\ set.enable_rad_floors
    <3>1. f = RecomputeAll(moved)
      BY <2>2 DEF FluidBound, num_species, RecomputeAll
    <3> HIDE DEF moved, f
    <3>2. x.rad[s].kind # "beamed" => Con2Prim(moved.rad[s], "robust") = x.rad[s]
      BY <1>1, Con2PrimMoment DEF Shape
    <3> QED BY <1>1, <3>1, <3>2, RecomputedAll DEF Seen
  <2>3. CASE x.thin /\ ~set.enable_rad_floors
    <3>1. f = EachSpecies(Recomputed, moved, {})
      BY <2>3 DEF FluidBound, num_species
    <3>2. EachSpecies(Recomputed, moved, {}) = moved
      BY <1>1, NoSpecies
    <3> HIDE DEF moved
    <3> QED BY <1>1, <2>3, <3>1, <3>2
  <2> QED BY <2>1, <2>2, <2>3
<1>3. y = IF set.enable_rad_floors THEN RadBoundAll(f) ELSE f
  <2>1. EachSpecies(RadBound, f, {}) = f
    BY <1>2, NoSpecies
  <2> QED BY <2>1 DEF BoundCell, num_species, RadBoundAll
<1> HIDE DEF moved, f, y
<1>4. CASE set.enable_rad_floors
  BY <1>2, <1>3, <1>4, BoundAll DEF Seen, y
<1>5. CASE ~set.enable_rad_floors
  BY <1>2, <1>3, <1>5 DEF y
<1> QED BY <1>4, <1>5

LEMMA InvertedCell ==
  ASSUME NEW s \in Species, NEW x, Shape(x),
         set.closure_c2p_strategy \in {"robust", "frail"}
  PROVE  LET y == Inverted(x, s) IN
         /\ Shape(y) /\ Seen(y, s)
         /\ y.radok <=> ~ClosureFails(x.rad[s], set.closure_c2p_strategy)
         /\ y.radok => y.rad[s].kind \notin {"beamed", "nan"}
<1> DEFINE m == Con2Prim(x.rad[s], set.closure_c2p_strategy)
           bad == ClosureFails(x.rad[s], set.closure_c2p_strategy)
           z == InFrame(x, s, m)
           y == Inverted(x, s)
<1>1. /\ IsMoment(m) /\ IsMoment(x.rad[s])
      /\ bad => m = x.rad[s]
      /\ ~bad => m.kind \notin {"beamed", "nan"}
  <2>1. IsMoment(x.rad[s]) /\ x.rad[s].kind \in Kinds
    BY DEF Shape, IsMoment
  <2>2. IsMoment(m)
    BY <2>1, Con2PrimMoment
  <2>3. bad => m = x.rad[s]
    BY <2>1, Con2PrimMoment DEF ClosureFails
  <2>4. ~bad => m.kind \notin {"beamed", "nan"}
    <3>1. CASE x.rad[s].kind = "beamed" /\ set.closure_c2p_strategy = "robust"
      <4>1. m = Moment(x.rad[s].E, "ok")
        BY <3>1 DEF Con2Prim
      <4> QED BY <4>1 DEF Moment
    <3>2. CASE ~(x.rad[s].kind = "beamed" /\ set.closure_c2p_strategy = "robust")
      <4>1. m = x.rad[s]
        BY <3>2 DEF Con2Prim
      <4> QED BY <3>2, <4>1 DEF ClosureFails
    <3> QED BY <3>1, <3>2
  <2> QED BY <2>1, <2>2, <2>3, <2>4
<1>2. /\ Shape(z) /\ z.v = x.v /\ z.rad = x.rad /\ z.prim[s] = m /\ z.frame[s] = x.v
  BY <1>1, InFrameCell
<1>3. y = IF bad THEN [z EXCEPT !.radok = FALSE]
          ELSE [z EXCEPT !.rad = [z.rad EXCEPT ![s] = m], !.radok = TRUE]
  BY DEF Inverted
<1> HIDE DEF m, bad, z, y
<1>4. CASE bad
  <2>1. y = [z EXCEPT !.radok = FALSE]
    BY <1>3, <1>4
  <2>2. /\ Shape(y) /\ y.v = z.v /\ y.radok = FALSE
        /\ y.rad = z.rad /\ y.prim = z.prim /\ y.frame = z.frame
    BY <1>2, <2>1, RadiationFailed
  <2>3. Seen(y, s)
    BY <1>1, <1>2, <1>4, <2>2 DEF Seen
  <2> QED BY <1>4, <2>2, <2>3 DEF y, bad
<1>5. CASE ~bad
  <2>1. /\ y = [v |-> y.v, e |-> y.e, thin |-> y.thin, inverts |-> y.inverts,
                ok |-> y.ok, radok |-> y.radok, rad |-> y.rad, prim |-> y.prim,
                frame |-> y.frame]
        /\ y.v = z.v /\ y.e = z.e /\ y.radok = TRUE /\ y.prim = z.prim /\ y.frame = z.frame
        /\ y.rad = [z.rad EXCEPT ![s] = m]
    BY <1>2, <1>3, <1>5 DEF Shape
  <2>2. /\ y.rad = [t \in Species |-> y.rad[t]] /\ y.rad[s] = m
        /\ \A t \in Species : t # s => y.rad[t] = z.rad[t]
    BY <1>2, <2>1 DEF Shape
  <2>3. \A t \in Species : IsMoment(y.rad[t])
    BY <1>1, <1>2, <2>2 DEF Shape
  <2>4. /\ z.prim = [t \in Species |-> z.prim[t]]
        /\ z.frame = [t \in Species |-> z.frame[t]]
        /\ z.e \in Int /\ \A t \in Species : IsMoment(z.prim[t])
    BY <1>2 DEF Shape
  <2>5. Shape(y)
    <3>1. y.radok \in BOOLEAN /\ y.e \in Int
      BY <2>1, <2>4
    <3>2. /\ y.prim = [t \in Species |-> y.prim[t]]
          /\ y.frame = [t \in Species |-> y.frame[t]]
          /\ \A t \in Species : IsMoment(y.prim[t])
      BY <2>1, <2>4
    <3> QED BY <2>1, <2>2, <2>3, <3>1, <3>2, ShapeMade
  <2>6. Seen(y, s)
    BY <1>2, <2>1, <2>2 DEF Seen
  <2>7. y.radok = TRUE /\ y.rad[s] = m /\ m.kind \notin {"beamed", "nan"}
    BY <1>1, <1>5, <2>1, <2>2
  <2> QED BY <1>5, <2>5, <2>6, <2>7 DEF y, bad
<1> QED BY <1>4, <1>5

LEMMA FluidRepairedCell ==
  ASSUME NEW s, Species = {s}, NEW x, Shape(x)
  PROVE  LET y == FluidRepaired(x) IN
         /\ Shape(y) /\ y.radok = x.radok /\ y.rad[s] = x.rad[s]
         /\ x.radok /\ x.rad[s].kind # "beamed" => Seen(y, s)
<1> DEFINE moved == [x EXCEPT !.v = @ + 1]
           y == FluidRepaired(x)
<1>1. Shape(moved) /\ moved.radok = x.radok /\ moved.rad = x.rad
  <2> DEFINE v == x.v + 1
  <2>1. moved = [x EXCEPT !.v = v]
    OBVIOUS
  <2> HIDE DEF moved, v
  <2> QED BY <2>1, FluidMoved, Zenon
<1>2. y = IF x.radok THEN RecomputeAll(moved) ELSE moved
  BY DEF FluidRepaired, RecomputeAll
<1> HIDE DEF moved, y
<1>3. CASE x.radok
  <2>1. x.rad[s].kind # "beamed" => Con2Prim(moved.rad[s], "robust") = x.rad[s]
    BY <1>1, Con2PrimMoment DEF Shape
  <2>2. y = RecomputeAll(moved)
    BY <1>2, <1>3
  <2>3. /\ Shape(y) /\ y.v = moved.v /\ y.radok = moved.radok
        /\ y.rad[s] = moved.rad[s] /\ y.frame[s] = moved.v
        /\ y.prim[s] = Con2Prim(moved.rad[s], "robust")
    BY <1>1, <2>2, RecomputedAll
  <2> QED BY <1>1, <2>1, <2>3 DEF Seen, y
<1>4. CASE ~x.radok
  BY <1>1, <1>2, <1>4 DEF y
<1> QED BY <1>3, <1>4

LEMMA MeanEnergy ==
  ASSUME NEW s \in Species, NEW c, \A n \in Neighbours(c) : Shape(cell[n]),
         Valid(c) # {}
  PROVE  Mean(c, s) \in Int
<1> DEFINE left == cell[c - 1].prim[s].E
           right == cell[c + 1].prim[s].E
<1>1. left \in Int /\ right \in Int
  <2>1. Shape(cell[c - 1]) /\ Shape(cell[c + 1])
    BY DEF Neighbours
  <2>2. IsMoment(cell[c - 1].prim[s]) /\ IsMoment(cell[c + 1].prim[s])
    BY <2>1, Zenon DEF Shape
  <2> QED BY <2>2, Zenon DEF IsMoment
<1>2. /\ fail(c - 1) \in {0, 1} /\ fail(c + 1) \in {0, 1}
      /\ fail(c - 1) = 1 \/ fail(c + 1) = 1
  BY DEF fail, Valid, Neighbours
<1>3. Mean(c, s) = (fail(c - 1) * left + fail(c + 1) * right)
                     \div (fail(c - 1) + fail(c + 1))
  BY DEF Mean
<1> HIDE DEF left, right
<1>4. CASE fail(c - 1) = 1 /\ fail(c + 1) = 1
  BY <1>1, <1>3, <1>4
<1>5. CASE fail(c - 1) = 1 /\ fail(c + 1) = 0
  BY <1>1, <1>3, <1>5
<1>6. CASE fail(c - 1) = 0 /\ fail(c + 1) = 1
  BY <1>1, <1>3, <1>6
<1> QED BY <1>2, <1>4, <1>5, <1>6

LEMMA StencilMoment ==
  ASSUME NEW s \in Species, NEW c, \A n \in Neighbours(c) : Shape(cell[n])
  PROVE  LET m == Stencil(c, s) IN
         /\ IsMoment(m) /\ m.kind # "beamed"
         /\ \/ set.rad_c2p_failure_strategy # "interpolate"
            \/ \A n \in Neighbours(c) : Sound(cell[n].prim[s])
            => Sound(m)
<1> DEFINE m == Stencil(c, s)
           E == Mean(c, s)
           k == KindOf(Valid(c), s)
<1>1. k \in {"ok", "negative", "low"}
  BY DEF KindOf
<1>2. (\A n \in Neighbours(c) : Sound(cell[n].prim[s])) => k # "negative"
  BY DEF KindOf, Sound, Valid
<1>3. CASE m = Tiny
  BY <1>3, MomentFields DEF Tiny, Sound, Kinds
<1>4. CASE m # Tiny
  <2>1. /\ set.rad_c2p_failure_strategy = "interpolate"
        /\ m = Interpolated(c, s)
    BY <1>4 DEF Stencil
  <2>2. CASE \E n \in Neighbours(c) : cell[n].prim[s].kind = "nan"
    <3>1. m = Moment(0, "nan")
      BY <2>1, <2>2 DEF Interpolated
    <3> QED BY <2>1, <2>2, <3>1, MomentFields DEF Sound, Kinds
  <2>3. CASE ~\E n \in Neighbours(c) : cell[n].prim[s].kind = "nan"
    <3>1. m = Moment(E, k)
      BY <2>1, <2>3 DEF Interpolated
    <3>2. E \in Int
      <4>1. Valid(c) # {}
        BY <1>4 DEF Stencil
      <4> QED BY <4>1, MeanEnergy
    <3> HIDE DEF m, E, k
    <3>3. IsMoment(m) /\ m.kind = k
      BY <1>1, <3>1, <3>2, MomentFields DEF Kinds
    <3> QED BY <1>1, <1>2, <2>1, <3>3 DEF Sound, m
  <2> QED BY <2>2, <2>3
<1> QED BY <1>3, <1>4

LEMMA RadRepairedCell ==
  ASSUME NEW s, Species = {s}, NEW c, Shape(cell[c]), IsMoment(Stencil(c, s))
  PROVE  LET y == RadRepaired(c) IN
         /\ Shape(y) /\ y.radok = cell[c].radok /\ Seen(y, s)
         /\ y.rad[s] = Stencil(c, s)
<1> DEFINE p == Both(cell[c], s, Stencil(c, s))
           y == RadRepaired(c)
<1>1. y = Taken(cell[c], p)
  <2>1. \A t \in Species : Both(cell[c], t, Stencil(c, t)) = p
    OBVIOUS
  <2> HIDE DEF p
  <2> QED BY <2>1 DEF RadRepaired, EachSpecies, Taken
<1>2. /\ Shape(p) /\ p.v = cell[c].v /\ p.rad[s] = Stencil(c, s)
      /\ p.prim[s] = Stencil(c, s) /\ p.frame[s] = cell[c].v
  BY BothCell
<1> HIDE DEF p, y
<1>3. /\ Shape(y) /\ y.v = cell[c].v /\ y.radok = cell[c].radok
      /\ y.rad[s] = p.rad[s] /\ y.prim[s] = p.prim[s] /\ y.frame[s] = p.frame[s]
  BY <1>1, <1>2, TakenOver
<1> QED BY <1>2, <1>3 DEF Seen, y

(* The cell the source solvers leave is recovered or set to near zero.     *)
LEMMA SourcedCell ==
  ASSUME NEW s, Species = {s}, NEW x, Shape(x), NEW r, r.dE \in Int
  PROVE  LET z == FluidLoss(RadGain(x, s, r), r) IN
         /\ Shape(SetToFloors(z, s)) /\ Seen(SetToFloors(z, s), s)
         /\ Sound(SetToFloors(z, s).prim[s])
         /\ Shape(Recovered(z, s)) /\ Seen(Recovered(z, s), s)
         /\ ~ClosureFails(z.rad[s], "frail") => Sound(Recovered(z, s).prim[s])
         /\ set.update_fluid /\ r.success =>
              LET had == x.e + x.rad[s].E
                  has == Recovered(z, s).e + Recovered(z, s).rad[s].E
              IN has <= had /\ (Recovered(z, s).e < EMax => has = had)
<1> DEFINE w == RadGain(x, s, r)
           z == FluidLoss(w, r)
           y == IF set.update_fluid THEN [z EXCEPT !.v = @ + 1, !.e = UnderCeiling(@)] ELSE z
           u == IF set.update_fluid
                THEN [z EXCEPT !.v = @ + 1, !.e = 0, !.thin = TRUE] ELSE z
<1>1. /\ Shape(w) /\ w.e = x.e
      /\ r.success => w.rad[s].E = x.rad[s].E + r.dE
  <2>1. CASE ~r.success
    BY <2>1 DEF RadGain
  <2>2. CASE r.success
    <3> DEFINE m == [x.rad[s] EXCEPT !.E = @ + r.dE]
    <3>1. w = [x EXCEPT !.rad = [x.rad EXCEPT ![s] = m]]
      BY <2>2 DEF RadGain
    <3>2. IsMoment(m) /\ m.E = x.rad[s].E + r.dE
      BY DEF Shape, IsMoment, Moment
    <3> HIDE DEF m, w
    <3> QED BY <3>1, <3>2 DEF Shape
  <2> QED BY <2>1, <2>2
<1>2. /\ Shape(z) /\ z.rad = w.rad
      /\ set.update_fluid => z.e = w.e - r.dE
  <2> HIDE DEF w
  <2>1. w.e - r.dE \in Int
    BY <1>1 DEF Shape
  <2> QED BY <1>1, <2>1 DEF FluidLoss, Shape
<1>3. /\ Shape(y) /\ y.rad = z.rad /\ Shape(u)
      /\ set.update_fluid => y.e = UnderCeiling(z.e)
  <2> HIDE DEF z
  <2>1. CASE set.update_fluid
    <3>1. Shape(y) /\ y.rad = z.rad /\ y.e = UnderCeiling(z.e)
      <4>1. UnderCeiling(z.e) \in Int
        BY <1>2, CeilingInt DEF Shape
      <4> DEFINE v == z.v + 1
                 e == UnderCeiling(z.e)
      <4>2. y = [z EXCEPT !.v = v, !.e = e]
        BY <2>1
      <4>3. e \in Int /\ Shape(z)
        BY <1>2, <4>1 DEF e
      <4> HIDE DEF y, u, v, e
      <4>4. Shape(y) /\ y.rad = z.rad /\ y.e = e
        BY <4>2, <4>3 DEF Shape
      <4> QED BY <4>4 DEF e
    <3>2. Shape(u)
      <4> DEFINE reset == [z EXCEPT !.v = @ + 1, !.e = 0, !.thin = TRUE]
      <4>1. 0 \in Int /\ Shape(z)
        BY <1>2
      <4>2. Shape(reset)
        BY <4>1, FluidSet
      <4>3. u = reset
        BY <2>1
      <4> HIDE DEF u, reset
      <4> QED BY <4>2, <4>3
    <3> HIDE DEF u, y
    <3> QED BY <3>1, <3>2
  <2>2. CASE ~set.update_fluid
    BY <1>2, <2>2
  <2> QED BY <2>1, <2>2
<1>4. IsMoment(Tiny) /\ Sound(Tiny)
  BY MomentFields DEF Tiny, Sound, Kinds
<1>5. IsMoment(z.rad[s])
  BY <1>2 DEF Shape
<1>6. SetToFloors(z, s) = Both(u, s, Tiny) /\ Recovered(z, s) = InFrame(y, s, z.rad[s])
  BY DEF SetToFloors, Recovered
<1>7. ~ClosureFails(z.rad[s], "frail") => Sound(z.rad[s])
  BY <1>5 DEF ClosureFails, Sound, IsMoment, Kinds
<1> DEFINE left == SetToFloors(z, s)
           kept == Recovered(z, s)
<1> HIDE DEF w, z, y, u
<1>a1. Shape(y) /\ Shape(u) /\ left = Both(u, s, Tiny) /\ kept = InFrame(y, s, z.rad[s])
  BY <1>3, <1>6, Zenon DEF left, kept
<1>b1. (set.update_fluid => y.e = UnderCeiling(z.e)) /\ y.rad = z.rad
  BY <1>3, Zenon
<1>8. /\ Shape(SetToFloors(z, s)) /\ Seen(SetToFloors(z, s), s)
      /\ Sound(SetToFloors(z, s).prim[s])
  <2> HIDE DEF left
  <2>1. /\ Shape(left) /\ left.v = u.v /\ left.rad[s] = Tiny
        /\ left.prim[s] = Tiny /\ left.frame[s] = u.v
    BY <1>a1, <1>4, BothCell
  <2>2. Shape(left) /\ Seen(left, s) /\ Sound(left.prim[s])
    BY <2>1, <1>4 DEF Seen
  <2> QED BY <2>2 DEF left
<1>9. /\ Shape(Recovered(z, s)) /\ Seen(Recovered(z, s), s)
      /\ Recovered(z, s).prim[s] = z.rad[s]
      /\ set.update_fluid => Recovered(z, s).e = UnderCeiling(z.e)
      /\ Recovered(z, s).rad = z.rad
  <2> HIDE DEF kept
  <2>1. /\ Shape(kept) /\ kept.v = y.v /\ kept.e = y.e /\ kept.rad = y.rad
        /\ kept.prim[s] = z.rad[s] /\ kept.frame[s] = y.v
    BY <1>a1, <1>5, InFrameCell
  <2>2. Seen(kept, s)
    BY <2>1, <1>b1 DEF Seen
  <2>3. set.update_fluid => kept.e = UnderCeiling(z.e)
    BY <2>1, <1>b1
  <2>4. kept.rad = z.rad
    BY <2>1, <1>b1
  <2> QED BY <2>1, <2>2, <2>3, <2>4 DEF kept
<1>10. /\ x.e \in Int /\ x.rad[s].E \in Int
       /\ set.update_fluid /\ r.success =>
            z.e = x.e - r.dE /\ z.rad[s].E = x.rad[s].E + r.dE
  BY <1>1, <1>2 DEF Shape, IsMoment
<1>11. set.update_fluid /\ r.success =>
         LET had == x.e + x.rad[s].E
             has == Recovered(z, s).e + Recovered(z, s).rad[s].E
         IN has <= had /\ (Recovered(z, s).e < EMax => has = had)
  <2> SUFFICES ASSUME set.update_fluid, r.success
               PROVE  LET had == x.e + x.rad[s].E
                          has == Recovered(z, s).e + Recovered(z, s).rad[s].E
                      IN has <= had /\ (Recovered(z, s).e < EMax => has = had)
    OBVIOUS
  <2> DEFINE e == z.e
             q == Recovered(z, s).e
  <2>1. e \in Int /\ x.rad[s].E \in Int /\ x.e \in Int /\ r.dE \in Int
    BY <1>2, <1>10 DEF Shape
  <2>2. e = x.e - r.dE /\ Recovered(z, s).rad[s].E = x.rad[s].E + r.dE
    BY <1>9, <1>10
  <2>3. q = UnderCeiling(e)
    BY <1>9
  <2> HIDE DEF e, q
  <2>4. q \in Int /\ q <= e /\ (q < EMax => q = e)
    BY <2>1, <2>3, CeilingInt
  <2>5. q + (x.rad[s].E + r.dE) <= x.e + x.rad[s].E
    BY <2>1, <2>2, <2>4
  <2>6. q < EMax => q + (x.rad[s].E + r.dE) = x.e + x.rad[s].E
    BY <2>1, <2>2, <2>4
  <2> QED BY <2>2, <2>5, <2>6 DEF q
<1> QED BY <1>7, <1>8, <1>9, <1>11 DEF z, w

----------------------------------------------------------------------------
(* The inductive invariant                                                 *)

(* The flag of the inversion tells which moments failed, and the moments   *)
(* that did not are those of the fluid, however it was repaired            *)
Intact(c, s) ==
  LET x == cell[c] IN
  /\ x.radok <=> <<c, s>> \notin failed
  /\ x.radok => Seen(x, s) /\ x.rad[s].kind \notin {"beamed", "nan"}

Inversions ==
  \A c \in Row, s \in Species :
    /\ step \in 1 .. 2 => (step = 1 \/ <<c, s>> \in pending => <<c, s>> \notin failed)
    /\ step = 2 /\ <<c, s>> \notin pending => Intact(c, s)
    /\ step \in 3 .. 5 => Intact(c, s)

(* What a repair of the radiation relies on *)
SoundAround(c, s) ==
  set.rad_c2p_failure_strategy = "interpolate" =>
    \A n \in Neighbours(c) : <<n, s>> \notin failed /\ Sound(cell[n].prim[s])

Repairs ==
  \A c \in Interior, s \in Species : LET x == cell[c] IN
    /\ (step = 4 /\ c \notin pending) \/ step = 5
    /\ ~x.radok /\ set.enable_rad_floors
    => /\ Seen(x, s) /\ x.rad[s].kind # "beamed"
       /\ SoundAround(c, s) => Sound(x.prim[s])

Bounds ==
  \A c \in Interior, s \in Species : LET x == cell[c] IN
    /\ step = 6 /\ c \in pending /\ set.enable_rad_floors => Seen(x, s)
    /\ (step = 6 /\ c \notin pending) \/ step = 7 => Seen(x, s) /\ Sound(x.prim[s])
    /\ step = 8 /\ set.enable_rad_floors => Seen(x, s) /\ x.prim[s].kind = "ok"

Shapes ==
  /\ step \in 1 .. 8 /\ set \in Options /\ failed \subseteq Pairs
  /\ cell = [c \in Row |-> cell[c]]
  /\ \A c \in Row : Shape(cell[c])

(* The energy of a cell is what it was until its source; then it is kept   *)
(* unless the source could not be solved                                   *)
Budgets ==
  \A c \in Interior :
    /\ step = 6 /\ c \in pending => budget[c] = EnergyIn(cell[c])
    /\ (step = 6 /\ c \notin pending) \/ step = 7 =>
         (set.update_fluid /\ c \notin fell => Kept(cell[c], budget[c]))

RadInv == Shapes /\ Inversions /\ Repairs /\ Bounds /\ Budgets

LEMMA RadRows == Interior \subseteq Row /\ \A c \in Interior : Neighbours(c) \subseteq Row
BY RadCellsAssumption DEF Interior, Row, Neighbours

LEMMA StepNumbers ==
  ASSUME NEW n \in 1 .. 8
  PROVE  /\ Tasks[n] = "FillDerived" <=> n = 1
         /\ Tasks[n] = "MomentCon2Prim" <=> n = 2
         /\ Tasks[n] = "C2PFixup" <=> n = 3
         /\ Tasks[n] = "RadFixup" <=> n = 4
         /\ Tasks[n] = "ApplyFloors" <=> n \in {5, 7}
         /\ Tasks[n] = "MomentFluidSource" <=> n = 6
         /\ Tasks[n] = "Done" <=> n = 8
<1>1. n \in {1, 2, 3, 4, 5, 6, 7, 8}
  OBVIOUS
<1> QED BY <1>1 DEF Tasks

----------------------------------------------------------------------------
(* The kernels keep it                                                     *)

LEMMA RadInvInit ==
  ASSUME NEW s, Species = {s}, Init
  PROVE  RadInv
<1>1. \A up \in Updates : Shape(Start(up))
  <2> SUFFICES ASSUME NEW up \in Updates PROVE Shape(Start(up))
    OBVIOUS
  <2>1. IsMoment(Moment(Full, up[2])) /\ IsMoment(Moment(Full, "ok"))
    BY RadCellsAssumption, MomentFields DEF Kinds, Full
  <2> QED BY <2>1 DEF Start, Shape, Full
<1>2. Shape(Start(Calm))
  <2>1. IsMoment(Moment(Full, Calm[2])) /\ IsMoment(Moment(Full, "ok"))
    BY MomentFields DEF Kinds, Calm, Full
  <2> QED BY <2>1 DEF Start, Shape, Full
<1>3. PICK up \in [Interior -> Updates] :
        cell = [c \in Row |-> Start(IF c \in Interior THEN up[c] ELSE Calm)]
  BY DEF Init
<1>4. \A c \in Row : Shape(cell[c])
  <2> SUFFICES ASSUME NEW c \in Row PROVE Shape(cell[c])
    OBVIOUS
  <2>1. CASE c \in Interior
    BY <1>1, <1>3, <2>1
  <2>2. CASE c \notin Interior
    BY <1>2, <1>3, <2>2
  <2> QED BY <2>1, <2>2
<1>5. step = 1 /\ failed = {} /\ set \in Options /\ cell = [c \in Row |-> cell[c]]
  BY <1>3 DEF Init
<1>6. Shapes
  BY <1>4, <1>5 DEF Shapes
<1>7. Inversions /\ Repairs /\ Bounds /\ Budgets
  BY <1>5 DEF Inversions, Repairs, Bounds, Budgets
<1> QED BY <1>6, <1>7 DEF RadInv

LEMMA FillDerivedKeeps ==
  ASSUME NEW s, Species = {s}, RadInv, FillDerived
  PROVE  RadInv'
<1> DEFINE derived(x) == [x EXCEPT !.v = @ + 1, !.thin = x.inverts = "thin"]
           new(c) == IF cell[c].inverts = "fails" THEN [cell[c] EXCEPT !.ok = FALSE]
                     ELSE derived(cell[c])
<1>1. step = 1
  <2>1. step \in 1 .. 8
    BY DEF RadInv, Shapes
  <2>2. Tasks[step] = "FillDerived"
    BY DEF FillDerived, Doing
  <2> QED BY <2>1, <2>2, StepNumbers
<1>2. /\ cell' = [c \in Row |-> new(c)]
      /\ step' = step + 1 /\ pending' = Pairs /\ failed' = failed /\ set' = set
  BY Zenon DEF FillDerived
<1>3. ASSUME NEW c \in Row PROVE Shape(new(c))
  <2> DEFINE x == cell[c]
             thin == x.inverts = "thin"
  <2>1. Shape(x)
    BY DEF RadInv, Shapes
  <2>2. new(c) = IF x.inverts = "fails" THEN [x EXCEPT !.ok = FALSE]
                 ELSE [x EXCEPT !.v = @ + 1, !.thin = thin]
    OBVIOUS
  <2> HIDE DEF x, thin, new
  <2>3. CASE x.inverts = "fails"
    <3>1. new(c) = [x EXCEPT !.ok = FALSE]
      BY <2>2, <2>3
    <3> QED BY <2>1, <3>1, FluidFailed
  <2>4. CASE x.inverts # "fails"
    <3> DEFINE v == x.v + 1
    <3>1. new(c) = [x EXCEPT !.v = v, !.thin = thin]
      BY <2>2, <2>4
    <3> HIDE DEF v
    <3> QED BY <2>1, <3>1, FluidMoved, Zenon
  <2> QED BY <2>3, <2>4
<1> HIDE DEF new
<1>4. step' = 2
  BY <1>1, <1>2
<1>5. Shapes'
  BY <1>2, <1>3, <1>4 DEF RadInv, Shapes, Pairs
<1>6. \A c \in Row : <<c, s>> \notin failed
  BY <1>1 DEF RadInv, Inversions
<1>7. \A c \in Row : <<c, s>> \in Pairs
  BY DEF Pairs
<1>8. Inversions'
  BY <1>2, <1>4, <1>6, <1>7 DEF Inversions
<1>9. Repairs' /\ Bounds' /\ Budgets'
  BY <1>4 DEF Repairs, Bounds, Budgets
<1> QED BY <1>5, <1>8, <1>9 DEF RadInv

LEMMA MomentCon2PrimKeeps ==
  ASSUME NEW s, Species = {s}, RadInv, NEW c \in Row, MomentCon2Prim(c, s)
  PROVE  RadInv'
<1> DEFINE y == Inverted(cell[c], s)
           bad == ClosureFails(cell[c].rad[s], set.closure_c2p_strategy)
<1>1. /\ step = 2 /\ <<c, s>> \in pending /\ pending' = pending \ {<<c, s>>}
      /\ cell' = [cell EXCEPT ![c] = y] /\ set' = set
      /\ failed' = IF bad THEN failed \union {<<c, s>>} ELSE failed
      /\ step' = IF pending' = {} THEN 3 ELSE 2
  BY StepNumbers DEF MomentCon2Prim, Doing, RadInv, Shapes
<1>2. set.closure_c2p_strategy \in {"robust", "frail"}
  BY RadCellsAssumption DEF RadInv, Shapes
<1>3. /\ Shape(y) /\ Seen(y, s) /\ (y.radok <=> ~bad)
      /\ y.radok => y.rad[s].kind \notin {"beamed", "nan"}
  BY <1>2, InvertedCell DEF RadInv, Shapes
<1> HIDE DEF y, bad
<1>4. /\ cell' = [d \in Row |-> cell'[d]] /\ cell'[c] = y
      /\ \A d \in Row : d # c => cell'[d] = cell[d]
  BY <1>1 DEF RadInv, Shapes
<1>5. Shapes'
  BY <1>1, <1>3, <1>4 DEF RadInv, Shapes, Pairs
<1>6. <<c, s>> \notin failed
  BY <1>1 DEF RadInv, Inversions
<1>7. \A d \in Row : <<d, s>> \notin pending' => Intact(d, s)'
  <2> SUFFICES ASSUME NEW d \in Row, <<d, s>> \notin pending' PROVE Intact(d, s)'
    OBVIOUS
  <2>1. CASE d = c
    BY <1>1, <1>3, <1>4, <1>6, <2>1 DEF Intact, Seen
  <2>2. CASE d # c
    <3>1. Intact(d, s)
      BY <1>1, <2>2 DEF RadInv, Inversions
    <3> QED BY <1>1, <1>4, <2>2, <3>1 DEF Intact, Seen
  <2> QED BY <2>1, <2>2
<1>8. \A d \in Row : <<d, s>> \in pending' => <<d, s>> \notin failed'
  BY <1>1 DEF RadInv, Inversions
<1>9. Inversions'
  BY <1>1, <1>7, <1>8 DEF Inversions
<1>10. Repairs' /\ Bounds' /\ Budgets'
  BY <1>1 DEF Repairs, Bounds, Budgets
<1> QED BY <1>5, <1>9, <1>10 DEF RadInv

LEMMA C2PFixupKeeps ==
  ASSUME NEW s, Species = {s}, RadInv, C2PFixup
  PROVE  RadInv'
<1> DEFINE new(c) == IF c \in Interior /\ ~cell[c].ok THEN FluidRepaired(cell[c])
                     ELSE cell[c]
<1>1. /\ step = 3 /\ step' = 4 /\ pending' = Interior /\ failed' = failed /\ set' = set
      /\ cell' = [c \in Row |-> new(c)]
  BY StepNumbers DEF C2PFixup, Doing, RadInv, Shapes
<1>2. ASSUME NEW c \in Row PROVE Shape(cell'[c]) /\ Intact(c, s)'
  <2>1. Shape(cell[c]) /\ Intact(c, s)
    BY <1>1 DEF RadInv, Shapes, Inversions
  <2>2. CASE cell'[c] = FluidRepaired(cell[c])
    <3>1. /\ Shape(cell'[c]) /\ cell'[c].radok = cell[c].radok
          /\ cell'[c].rad[s] = cell[c].rad[s]
          /\ cell[c].radok /\ cell[c].rad[s].kind # "beamed" => Seen(cell'[c], s)
      BY <2>1, <2>2, FluidRepairedCell
    <3> QED BY <1>1, <2>1, <3>1 DEF Intact, Seen
  <2>3. CASE cell'[c] = cell[c]
    BY <1>1, <2>1, <2>3 DEF Intact, Seen
  <2> QED BY <1>1, <2>2, <2>3
<1>3. Shapes'
  BY <1>1, <1>2 DEF RadInv, Shapes, Pairs
<1>4. Inversions' /\ Repairs' /\ Bounds' /\ Budgets'
  BY <1>1, <1>2 DEF Inversions, Repairs, Bounds, Budgets
<1> QED BY <1>3, <1>4 DEF RadInv

LEMMA RadFixupCellKeeps ==
  ASSUME NEW s, Species = {s}, RadInv, NEW c \in Interior, RadFixupCell(c)
  PROVE  RadInv'
<1> DEFINE y == RadRepaired(c)
           m == Stencil(c, s)
<1>1. /\ step = 4 /\ c \in pending /\ pending' = pending \ {c}
      /\ cell' = IF cell[c].radok \/ ~set.enable_rad_floors THEN cell
                 ELSE [cell EXCEPT ![c] = y]
      /\ set' = set /\ failed' = failed
      /\ step' = IF pending' = {} THEN 5 ELSE 4
  BY StepNumbers DEF RadFixupCell, Doing, RadInv, Shapes
<1>2. c \in Row /\ c \notin Neighbours(c) /\ Neighbours(c) \subseteq Row
  BY RadRows DEF Neighbours, Interior
<1>3. /\ cell = [d \in Row |-> cell[d]]
      /\ \A d \in Row : Shape(cell[d]) /\ Intact(d, s)
  BY <1>1 DEF RadInv, Shapes, Inversions
<1>4. /\ IsMoment(m) /\ m.kind # "beamed"
      /\ SoundAround(c, s) => Sound(m)
  BY <1>2, <1>3, StencilMoment DEF SoundAround
<1>5. Shape(y) /\ y.radok = cell[c].radok /\ Seen(y, s) /\ y.rad[s] = m
  BY <1>2, <1>3, <1>4, RadRepairedCell
<1> HIDE DEF y, m
<1>6. /\ cell' = [d \in Row |-> cell'[d]]
      /\ \A d \in Row : d # c => cell'[d] = cell[d]
      /\ cell'[c] = IF cell[c].radok \/ ~set.enable_rad_floors THEN cell[c] ELSE y
  BY <1>1, <1>2, <1>3
<1>7. Shapes'
  BY <1>1, <1>3, <1>5, <1>6 DEF RadInv, Shapes, Pairs
<1>8. \A d \in Row : Intact(d, s)'
  <2> SUFFICES ASSUME NEW d \in Row PROVE Intact(d, s)'
    OBVIOUS
  <2>1. cell'[d] = cell[d] \/ (d = c /\ ~cell[c].radok /\ cell'[d] = y)
    BY <1>6
  <2> QED BY <1>1, <1>3, <1>5, <2>1 DEF Intact, Seen
(* A cell that is repaired is one that failed: where it is sound by its    *)
(* repair only, its neighbours are not promised anything                   *)
<1>9. \A d \in Interior : SoundAround(d, s)' => SoundAround(d, s)
  <2> SUFFICES ASSUME NEW d \in Interior, SoundAround(d, s)',
                      set.rad_c2p_failure_strategy = "interpolate",
                      NEW n \in Neighbours(d)
               PROVE  <<n, s>> \notin failed /\ Sound(cell[n].prim[s])
    BY DEF SoundAround
  <2>1. n \in Row
    BY RadRows
  <2>2. <<n, s>> \notin failed /\ Sound(cell'[n].prim[s])
    BY <1>1 DEF SoundAround, Neighbours
  <2>3. cell[n].radok
    BY <1>3, <2>1, <2>2 DEF Intact
  <2>4. cell'[n] = cell[n]
    BY <1>6, <2>1, <2>3
  <2> QED BY <2>2, <2>4
<1>10. Repairs'
  <2> SUFFICES ASSUME NEW d \in Interior, d \notin pending',
                      ~cell'[d].radok, set.enable_rad_floors
               PROVE  /\ Seen(cell'[d], s) /\ cell'[d].rad[s].kind # "beamed"
                      /\ SoundAround(d, s)' => Sound(cell'[d].prim[s])
    BY <1>1 DEF Repairs, Seen
  <2>1. CASE d = c
    <3>1. cell'[c] = y
      BY <1>6, <2>1
    <3> QED BY <1>4, <1>5, <1>9, <2>1, <3>1 DEF Seen
  <2>2. CASE d # c
    <3>1. cell'[d] = cell[d] /\ d \notin pending
      BY <1>1, <1>6, <2>2, RadRows
    <3>2. /\ Seen(cell[d], s) /\ cell[d].rad[s].kind # "beamed"
          /\ SoundAround(d, s) => Sound(cell[d].prim[s])
      BY <1>1, <3>1 DEF RadInv, Repairs
    <3> QED BY <1>9, <3>1, <3>2
  <2> QED BY <2>1, <2>2
<1>11. Inversions' /\ Bounds' /\ Budgets'
  BY <1>1, <1>8 DEF Inversions, Bounds, Budgets
<1> QED BY <1>7, <1>10, <1>11 DEF RadInv

LEMMA ApplyFloorsKeeps ==
  ASSUME NEW s, Species = {s}, RadInv, ApplyFloors
  PROVE  RadInv'
<1>1. /\ step \in {5, 7} /\ step' = step + 1 /\ pending' = Interior
      /\ failed' = failed /\ set' = set
      /\ cell' = [c \in Row |-> BoundCell(cell[c])]
  BY StepNumbers DEF ApplyFloors, Doing, RadInv, Shapes
<1>2. ASSUME NEW c \in Row
      PROVE  /\ Shape(cell'[c])
             /\ set.enable_rad_floors /\ Seen(cell[c], s) /\ cell[c].rad[s].kind # "beamed" =>
                  /\ Seen(cell'[c], s)
                  /\ cell[c].rad[s].kind # "nan" => cell'[c].prim[s].kind = "ok"
  <2>1. Shape(cell[c]) /\ cell'[c] = BoundCell(cell[c])
    BY <1>1 DEF RadInv, Shapes
  <2> QED BY <2>1, BoundedCell
<1>3. Shapes'
  BY <1>1, <1>2 DEF RadInv, Shapes, Pairs
<1>4. ASSUME NEW c \in Interior, set.enable_rad_floors
      PROVE  /\ Seen(cell[c], s) /\ cell[c].rad[s].kind # "beamed"
             /\ step = 7 => cell[c].rad[s].kind # "nan"
  <2>1. c \in Row
    BY RadRows
  <2>2. CASE step = 5
    <3>1. CASE cell[c].radok
      <4>1. Intact(c, s)
        BY <2>1, <2>2 DEF RadInv, Inversions
      <4> QED BY <2>2, <3>1, <4>1 DEF Intact
    <3>2. CASE ~cell[c].radok
      BY <1>4, <2>2, <3>2 DEF RadInv, Repairs
    <3> QED BY <3>1, <3>2
  <2>3. CASE step = 7
    <3>1. Seen(cell[c], s) /\ Sound(cell[c].prim[s])
      BY <2>3 DEF RadInv, Bounds
    <3> QED BY <2>3, <3>1 DEF Seen, Sound
  <2>4. step = 5 \/ step = 7
    BY <1>1
  <2> QED BY <2>2, <2>3, <2>4
<1>5. ASSUME NEW c \in Interior, set.enable_rad_floors
      PROVE  /\ Seen(cell'[c], s)
             /\ step = 7 => cell'[c].prim[s].kind = "ok"
  BY <1>2, <1>4, <1>5, RadRows
<1>6. Inversions' /\ Repairs'
  BY <1>1 DEF Inversions, Repairs
<1>7. Bounds'
  BY <1>1, <1>5 DEF Bounds, Seen
<1>8. Budgets'
  <2>1. budget' = [c \in Interior |-> EnergyIn(BoundCell(cell[c]))]
    BY DEF ApplyFloors
  <2>2. \A c \in Interior : budget'[c] = EnergyIn(cell'[c])
    BY <1>1, <2>1, RadRows
  <2>3. step' # 7
    BY <1>1
  <2>4. pending' = Interior
    BY DEF ApplyFloors
  <2> QED BY <2>2, <2>3, <2>4 DEF Budgets, EnergyIn
<1> QED BY <1>3, <1>6, <1>7, <1>8 DEF RadInv

LEMMA EnergyExchanged ==
  ASSUME set \in Options, NEW r \in oned \union fourd
  PROVE  r.dE \in Int
<1> DEFINE solved == {Solved(d) : d \in Exchanged}
           unsolved == {Unsolved(d) : d \in Exchanged}
           all == solved \union unsolved \union {Solved(0)}
<1>1. \A q \in all : q.dE \in Int
  BY DEF Exchanged, Solved, Unsolved
<1>2. oned \subseteq all
  <2>1. set.oned_fixup_strategy \in {"none", "ignore_dJ", "ignore_all"}
    BY RadCellsAssumption
  <2> HIDE DEF solved, unsolved
  <2> QED BY <2>1 DEF oned, solved, unsolved
<1>3. fourd \subseteq all
  <2> SUFFICES ASSUME NEW q \in fourd PROVE q \in all
    OBVIOUS
  <2>1. q \in solved \/ q \in oned \/ q \in unsolved
    BY DEF fourd
  <2> HIDE DEF solved, unsolved
  <2> QED BY <1>2, <2>1
<1> HIDE DEF all
<1> QED BY <1>1, <1>2, <1>3

LEMMA MomentFluidSourceKeeps ==
  ASSUME NEW s, Species = {s}, RadInv, NEW c \in Interior,
         NEW r \in oned \union fourd, NEW f, NEW g, MomentFluidSource(c, r, f, g)
  PROVE  RadInv'
<1> DEFINE x == FluidLoss(RadGain(cell[c], s, r), r)
           y == cell'[c]
<1>1. Coupled = s
  BY DEF Coupled
<1>2. /\ step = 6 /\ c \in pending /\ pending' = pending \ {c}
      /\ set' = set /\ failed' = failed /\ budget' = budget
      /\ step' = IF pending' = {} THEN 7 ELSE 6
  BY StepNumbers DEF MomentFluidSource, Doing, RadInv, Shapes
<1>3. \/ /\ cell' = [cell EXCEPT ![c] = SetToFloors(x, s)]
         /\ fell' = fell \union {c}
      \/ /\ cell' = [cell EXCEPT ![c] = Recovered(x, s)]
         /\ ~ClosureFails(x.rad[s], "frail")
         /\ fell' = IF r.success THEN fell ELSE fell \union {c}
  <2> DEFINE fluid == ~set.update_fluid \/ (f /\ x.e > 0)
             rad == ~ClosureFails(x.rad[s], "frail") /\ (g \/ ~set.update_fluid)
  <2>1. /\ cell' = [cell EXCEPT ![c] =
                      IF fluid /\ rad THEN Recovered(x, s) ELSE SetToFloors(x, s)]
        /\ fell' = IF r.success /\ fluid /\ rad THEN fell ELSE fell \union {c}
    BY <1>1, Zenon DEF MomentFluidSource
  <2>2. rad => ~ClosureFails(x.rad[s], "frail")
    OBVIOUS
  <2> HIDE DEF fluid, rad, x
  <2> QED BY <2>1, <2>2
<1>4. c \in Row /\ Shape(cell[c]) /\ cell = [d \in Row |-> cell[d]]
  BY RadRows DEF RadInv, Shapes
<1>5. /\ Shape(SetToFloors(x, s)) /\ Seen(SetToFloors(x, s), s)
      /\ Sound(SetToFloors(x, s).prim[s])
      /\ Shape(Recovered(x, s)) /\ Seen(Recovered(x, s), s)
      /\ ~ClosureFails(x.rad[s], "frail") => Sound(Recovered(x, s).prim[s])
      /\ set.update_fluid /\ r.success =>
           LET had == cell[c].e + cell[c].rad[s].E
               has == Recovered(x, s).e + Recovered(x, s).rad[s].E
           IN has <= had /\ (Recovered(x, s).e < EMax => has = had)
  <2>1. r.dE \in Int
    BY EnergyExchanged DEF RadInv, Shapes
  <2> HIDE DEF x
  <2> QED BY <1>4, <2>1, SourcedCell DEF x
<1> HIDE DEF x
<1>6. /\ Shape(y) /\ Seen(y, s) /\ Sound(y.prim[s])
      /\ cell' = [d \in Row |-> cell'[d]]
      /\ \A d \in Row : d # c => cell'[d] = cell[d]
  BY <1>3, <1>4, <1>5
<1>7. Shapes'
  BY <1>2, <1>6 DEF RadInv, Shapes, Pairs
<1>8. Bounds'
  <2> SUFFICES ASSUME NEW d \in Interior
               PROVE  /\ d \in pending' /\ set.enable_rad_floors => Seen(cell'[d], s)
                      /\ d \notin pending' => Seen(cell'[d], s) /\ Sound(cell'[d].prim[s])
    BY <1>2 DEF Bounds, Seen
  <2>1. CASE d = c
    BY <1>6, <2>1
  <2>2. CASE d # c
    <3>1. cell'[d] = cell[d] /\ (d \in pending' <=> d \in pending)
      BY <1>2, <1>6, <2>2, RadRows
    <3> QED BY <1>2, <3>1 DEF RadInv, Bounds
  <2> QED BY <2>1, <2>2
<1>9. Inversions' /\ Repairs'
  BY <1>2 DEF Inversions, Repairs
<1>10. Budgets'
  <2> SUFFICES ASSUME NEW d \in Interior
               PROVE  /\ d \in pending' => budget[d] = EnergyIn(cell'[d])
                      /\ d \notin pending' /\ set.update_fluid /\ d \notin fell' =>
                           Kept(cell'[d], budget[d])
    BY <1>2 DEF Budgets, EnergyIn, Kept
  <2>1. CASE d = c
    <3> SUFFICES ASSUME set.update_fluid, c \notin fell' PROVE Kept(cell'[c], budget[c])
      BY <1>2, <2>1
    <3>1. r.success /\ cell'[c] = Recovered(x, s)
      BY <1>3, <1>4
    <3>2. budget[c] = EnergyIn(cell[c])
      BY <1>2 DEF RadInv, Budgets
    <3> QED BY <1>1, <1>5, <3>1, <3>2 DEF EnergyIn, Kept
  <2>2. CASE d # c
    <3>1. cell'[d] = cell[d] /\ (d \in pending' <=> d \in pending)
      BY <1>2, <1>6, <2>2, RadRows
    <3>2. d \notin fell' => d \notin fell
      BY <1>3
    <3> QED BY <1>2, <3>1, <3>2 DEF RadInv, Budgets
  <2> QED BY <2>1, <2>2
<1> QED BY <1>7, <1>8, <1>9, <1>10 DEF RadInv

----------------------------------------------------------------------------
(* The theorems                                                            *)

LEMMA RadInvNext ==
  ASSUME NEW s, Species = {s}, RadInv, [Next]_vars
  PROVE  RadInv'
<1>1. CASE FillDerived
  BY <1>1, FillDerivedKeeps
<1>2. CASE C2PFixup
  BY <1>2, C2PFixupKeeps
<1>3. CASE ApplyFloors
  BY <1>3, ApplyFloorsKeeps
<1>4. CASE \E c \in Row, t \in Species : MomentCon2Prim(c, t)
  <2>1. PICK c \in Row : MomentCon2Prim(c, s)
    BY <1>4
  <2> QED BY <2>1, MomentCon2PrimKeeps
<1>5. CASE \E c \in Interior : RadFixupCell(c)
  BY <1>5, RadFixupCellKeeps
<1>6. CASE \E c \in Interior, r \in oned \union fourd, f, g \in BOOLEAN :
             MomentFluidSource(c, r, f, g)
  <2>1. PICK c \in Interior, r \in oned \union fourd, f \in BOOLEAN, g \in BOOLEAN :
          MomentFluidSource(c, r, f, g)
    BY <1>6
  <2> QED BY <2>1, MomentFluidSourceKeeps
<1>7. CASE UNCHANGED vars
  <2>1. Shapes' /\ Inversions'
    BY <1>7 DEF vars, RadInv, Shapes, Inversions, Intact, Seen
  <2>2. Repairs' /\ Bounds'
    BY <1>7 DEF vars, RadInv, Repairs, Bounds, SoundAround, Seen
  <2>3. Budgets'
    BY <1>7 DEF vars, RadInv, Budgets, EnergyIn, Kept
  <2> QED BY <2>1, <2>2, <2>3 DEF RadInv
<1> QED BY <1>1, <1>2, <1>3, <1>4, <1>5, <1>6, <1>7 DEF Next, Finished

(* With one species: through all kernels the flag of a cell tells which    *)
(* inversions failed, moments that did not fail are those of the fluid     *)
(* however it was repaired, repaired ones are physical where the           *)
(* neighbours are, and the source leaves physical moments only.            *)
THEOREM RadInvariant ==
  ASSUME Cardinality(Species) = 1
  PROVE  Spec => []RadInv
<1>1. PICK s : Species = {s}
  BY FS_Singleton, RadCellsAssumption
<1>2. Init => RadInv
  BY <1>1, RadInvInit
<1>3. RadInv /\ [Next]_vars => RadInv'
  BY <1>1, RadInvNext
<1> QED BY <1>2, <1>3, PTL DEF Spec

(* The moments the source starts from, and those the stage ends with, are  *)
(* the conserved ones seen from the fluid as it moves after its repairs.   *)
THEOREM SourceSeesTheFluid ==
  ASSUME Cardinality(Species) = 1
  PROVE  Spec => []MomentsInFluidFrame
<1>1. PICK s : Species = {s}
  BY FS_Singleton, RadCellsAssumption
<1>2. RadInv => MomentsInFluidFrame
  <2>1. ASSUME RadInv, set.enable_rad_floors, NEW c \in Interior,
               (step = 6 /\ c \in pending) \/ step = 8
        PROVE  Seen(cell[c], s)
    BY <1>1, <2>1 DEF RadInv, Bounds
  <2>2. RadInv => /\ Doing("MomentFluidSource") => step = 6
                  /\ Doing("Done") => step = 8
    BY StepNumbers DEF Doing, RadInv, Shapes
  <2> QED BY <1>1, <2>1, <2>2 DEF MomentsInFluidFrame, Current, Seen
<1> QED BY <1>2, RadInvariant, PTL

(* A moment that cannot be inverted leaves the repair of the radiation     *)
(* physical, when its neighbours could be and are.                         *)
THEOREM FailuresFixedUp ==
  ASSUME Cardinality(Species) = 1
  PROVE  Spec => []LoneFailuresFixedUp
<1>1. PICK s : Species = {s}
  BY FS_Singleton, RadCellsAssumption
<1>2. RadInv => LoneFailuresFixedUp
  <2> SUFFICES ASSUME RadInv, Repairing, set.enable_rad_floors,
                      NEW p \in failed, p[1] \in Interior,
                      set.rad_c2p_failure_strategy = "interpolate" =>
                        \A n \in Neighbours(p[1]) :
                          <<n, p[2]>> \notin failed /\ Sound(cell[n].prim[p[2]])
               PROVE  Fixed(p[1], p[2])
    BY DEF LoneFailuresFixedUp
  <2>1. PICK c \in Row : p = <<c, s>>
    BY <1>1 DEF RadInv, Shapes, Pairs
  <2>2. c \in Interior /\ step = 5 /\ SoundAround(c, s)
    BY <2>1 DEF Repairing, SoundAround
  <2>3. ~cell[c].radok
    BY <1>1, <2>1, <2>2 DEF RadInv, Inversions, Intact
  <2>4. Sound(cell[c].prim[s])
    BY <1>1, <2>2, <2>3 DEF RadInv, Repairs
  <2> QED BY <2>1, <2>4 DEF Fixed
<1> QED BY <1>2, RadInvariant, PTL

(* Whatever the solver returned, and whether fluid and moments could be    *)
(* recovered from it, the source leaves physical moments in the frame of   *)
(* the fluid.                                                              *)
THEOREM SourceLeavesSensible ==
  ASSUME Cardinality(Species) = 1
  PROVE  Spec => []SensibleStateReturned
<1>1. PICK s : Species = {s}
  BY FS_Singleton, RadCellsAssumption
<1>2. RadInv => SensibleStateReturned
  <2>1. ASSUME RadInv, step = 7, NEW c \in Interior
        PROVE  Seen(cell[c], s) /\ Sound(cell[c].prim[s])
    BY <1>1, <2>1 DEF RadInv, Bounds
  <2> QED BY <1>1, <2>1 DEF SensibleStateReturned, Sourced, Current, Seen, Fixed
<1> QED BY <1>2, RadInvariant, PTL

(* A source that is solved and recovered moves energy between the fluid    *)
(* and the radiation of its cell, creates none, and loses none where the   *)
(* fluid ends below its ceiling.                                           *)
THEOREM SourceKeepsEnergy ==
  ASSUME Cardinality(Species) = 1
  PROVE  Spec => []SourceConserves
<1>1. RadInv => SourceConserves
  BY DEF RadInv, Budgets, SourceConserves, Sourced
<1> QED BY <1>1, RadInvariant, PTL

(* With floors of the radiation no cell ends the stage below them.         *)
THEOREM FloorsKept ==
  ASSUME Cardinality(Species) = 1
  PROVE  Spec => []RadiationAboveFloors
<1>1. PICK s : Species = {s}
  BY FS_Singleton, RadCellsAssumption
<1>2. RadInv => RadiationAboveFloors
  <2>1. ASSUME RadInv, step = 8, set.enable_rad_floors, NEW c \in Interior
        PROVE  cell[c].prim[s].kind = "ok"
    BY <1>1, <2>1 DEF RadInv, Bounds
  <2>2. RadInv => (Doing("Done") => step = 8)
    BY StepNumbers DEF Doing, RadInv, Shapes
  <2> QED BY <1>1, <2>1, <2>2 DEF RadiationAboveFloors
<1> QED BY <1>2, RadInvariant, PTL

=============================================================================
