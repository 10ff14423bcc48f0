----------------------------- MODULE CellsProofs ------------------------------
(* The properties of Cells for blocks of any width, all bounds, all        *)
(* settings and all conserved states the update may leave.                 *)
EXTENDS Cells, TLAPS

(* Time for the provers on a machine with other work to do *)
USE SMTT(20), ZenonT(40)

(* What the kernels keep of a cell, whatever its values are *)
Shape(x) == x = Cell(x.prim, x.cons, x.ok) /\ x.ok \in BOOLEAN
Same(x) == x.prim = x.cons

LEMMA CellFields ==
  ASSUME NEW p, NEW q, NEW ok \in BOOLEAN
  PROVE  /\ Shape(Cell(p, q, ok))
         /\ Cell(p, q, ok).prim = p
         /\ Cell(p, q, ok).cons = q
         /\ Cell(p, q, ok).ok = ok
BY DEF Shape, Cell

----------------------------------------------------------------------------
(* The kernels of one cell                                                 *)

LEMMA RobustSolveShape ==
  ASSUME NEW x, Shape(x), NEW f, NEW g
  PROVE  /\ Shape(RobustSolve(x, f, g))
         /\ RobustSolve(x, f, g).ok => Same(RobustSolve(x, f, g))
<1>1. CASE x.cons = NaN
  <2>1. RobustSolve(x, f, g) = Cell(x.prim, x.cons, FALSE)
    BY <1>1 DEF RobustSolve, Shape, Cell
  <2> QED BY <2>1 DEF Cell, Shape
<1>2. CASE x.cons # NaN
  <2> DEFINE hat == Clamped(x.cons)
  <2>1. PICK ok \in BOOLEAN : RobustSolve(x, f, g) = Cell(hat, hat, ok)
    BY <1>2 DEF RobustSolve
  <2> HIDE DEF hat
  <2> QED BY <2>1, CellFields DEF Same
<1> QED BY <1>1, <1>2

LEMMA ClassicSolveShape ==
  ASSUME NEW x, Shape(x)
  PROVE  /\ Shape(ClassicSolve(x))
         /\ ClassicSolve(x).ok => Same(ClassicSolve(x))
<1>1. CASE GuessIsNaN(x)
  <2>1. ClassicSolve(x) = Cell(NaN, x.cons, FALSE)
    BY <1>1 DEF ClassicSolve
  <2> QED BY <2>1 DEF Cell, Shape
<1>2. CASE ~GuessIsNaN(x) /\ x.cons.u < 0
  <2>1. ClassicSolve(x) = Cell(State(x.cons.rho, 0, x.cons.w), x.cons, FALSE)
    BY <1>2 DEF ClassicSolve
  <2> QED BY <2>1 DEF Cell, Shape
<1>3. CASE ~GuessIsNaN(x) /\ ~(x.cons.u < 0)
  <2>1. ClassicSolve(x) = Cell(x.cons, x.cons, TRUE)
    BY <1>3 DEF ClassicSolve
  <2> QED BY <2>1 DEF Cell, Shape, Same
<1> QED BY <1>1, <1>2, <1>3

(* An inversion that succeeds leaves primitives and conserved variables    *)
(* that belong together.                                                   *)
LEMMA InversionShape ==
  ASSUME NEW x, Shape(x)
  PROVE  /\ Shape(ConservedToPrimitive(x))
         /\ ConservedToPrimitive(x).ok => Same(ConservedToPrimitive(x))
BY RobustSolveShape, ClassicSolveShape DEF ConservedToPrimitive, ConservedToPrimitiveRobust

(* Floors and ceilings keep them together.                                 *)
LEMMA BoundShape ==
  ASSUME NEW x, Shape(x)
  PROVE  /\ Shape(Bound(x))
         /\ Same(x) => Same(Bound(x))
<1> DEFINE f == set.c2p_fail_on_floors
           g == set.c2p_fail_on_ceilings
           y == FloorCell(x, f, g)
<1>1. Shape(y) /\ (Same(x) => Same(y))
  <2>1. CASE ~FloorApplied(x.prim)
    BY <2>1 DEF FloorCell
  <2>2. CASE FloorApplied(x.prim)
    <3> DEFINE add == Missing(x.prim)
               poured == [x EXCEPT !.cons = Inject(x.cons, add.rho, add.u)]
               solved == RobustSolve(poured, f, g)
    <3>1. y = IF solved.ok THEN [solved EXCEPT !.ok = x.ok] ELSE Cell(add, add, x.ok)
      BY <2>2 DEF FloorCell
    <3>2. Shape(poured)
      BY DEF Shape, Cell
    <3>3. Shape(solved) /\ (solved.ok => Same(solved))
      BY <3>2, RobustSolveShape
    <3> HIDE DEF solved, add, y
    <3>4. CASE solved.ok
      <4>1. y = Cell(solved.prim, solved.cons, x.ok)
        BY <3>1, <3>3, <3>4 DEF Shape, Cell
      <4> QED BY <4>1, <3>3, <3>4, CellFields DEF Shape, Same
    <3>5. CASE ~solved.ok
      BY <3>1, <3>5, CellFields DEF Shape, Same
    <3> QED BY <3>4, <3>5
  <2> QED BY <2>1, <2>2
<1>2. Bound(x) = CeilCell(y)
  BY DEF Bound
<1> HIDE DEF y
<1>3. Shape(CeilCell(y)) /\ (Same(y) => Same(CeilCell(y)))
  <2>1. CASE y.prim = NaN \/ CeilingsHold(y.prim)
    BY <1>1, <2>1 DEF CeilCell
  <2>2. CASE ~(y.prim = NaN \/ CeilingsHold(y.prim))
    <3>1. CeilCell(y) = Cell(Rescaled(y.prim), Rescaled(y.prim), y.ok)
      BY <2>2 DEF CeilCell
    <3> QED BY <3>1, <1>1, CellFields DEF Shape, Same
  <2> QED BY <2>1, <2>2
<1> QED BY <1>1, <1>2, <1>3

(* The repair of one cell leaves all others alone.                         *)
LEMMA RepairShape ==
  ASSUME NEW r, r = [k \in Row |-> r[k]], NEW c \in Row, Shape(r[c])
  PROVE  /\ RepairRow(r, c) = [k \in Row |-> RepairRow(r, c)[k]]
         /\ \A k \in Row : k # c => RepairRow(r, c)[k] = r[k]
         /\ Shape(RepairRow(r, c)[c])
         /\ r[c].ok => RepairRow(r, c)[c] = r[c]
         /\ ~r[c].ok => Same(RepairRow(r, c)[c])
<1>1. CASE r[c].ok
  BY <1>1 DEF RepairRow
<1>2. CASE ~r[c].ok
  <2> DEFINE s == SlowDown(Stencil(r, c))
  <2>1. Repaired(r, c) = Cell(s, s, r[c].ok)
    BY DEF Repaired
  <2> HIDE DEF s
  <2>2. RepairRow(r, c) = [r EXCEPT ![c] = Cell(s, s, r[c].ok)]
    BY <1>2, <2>1 DEF RepairRow
  <2> QED BY <1>2, <2>2, CellFields DEF Same, Shape
<1> QED BY <1>1, <1>2

----------------------------------------------------------------------------
(* The tasks of a block, and what every step keeps                         *)

Shapes ==
  /\ row = [b \in Blocks |-> [c \in Row |-> row[b][c]]]
  /\ \A b \in Blocks : \A c \in Row : Shape(row[b][c])
  /\ step \in [Blocks -> 1 .. 9]
  /\ pending \in [Blocks -> SUBSET Interior]

LEMMA TaskNumbers ==
  ASSUME NEW n \in 1 .. 9
  PROVE  /\ Tasks[n] = "FillDerived" <=> n \in {1, 6}
         /\ Tasks[n] = "C2PFixup" <=> n \in {2, 7}
         /\ Tasks[n] = "ApplyFloors" <=> n \in {3, 8}
         /\ Tasks[n] = "Send" <=> n = 4
         /\ Tasks[n] = "Receive" <=> n = 5
         /\ Tasks[n] = "Done" <=> n = 9
<1>1. n \in {1, 2, 3, 4, 5, 6, 7, 8, 9}
  OBVIOUS
<1> QED BY <1>1 DEF Tasks

LEMMA Rows == Interior \subseteq Row /\ 0 \notin Interior /\ Width + 1 \notin Interior
BY CellsAssumption DEF Interior, Row

LEMMA FillDerivedRow ==
  ASSUME Shapes, NEW b \in Blocks, FillDerived(b)
  PROVE  /\ Shapes'
         /\ step[b] \in {1, 6} /\ step' = [step EXCEPT ![b] = @ + 1]
         /\ \A c \in Row : row'[b][c] = ConservedToPrimitive(row[b][c])
         /\ \A a \in Blocks \ {b} : row'[a] = row[a] /\ pending'[a] = pending[a]
         /\ set.enable_c2p_fixup => pending'[b] = Interior
<1>1. step[b] \in {1, 6} /\ step' = [step EXCEPT ![b] = @ + 1]
  BY TaskNumbers DEF FillDerived, Doing, Advance, Shapes
<1>2. row' = [row EXCEPT ![b] = [c \in Row |-> ConservedToPrimitive(row[b][c])]]
  BY DEF FillDerived, Shapes
<1>3. /\ \A c \in Row : row'[b][c] = ConservedToPrimitive(row[b][c])
      /\ \A a \in Blocks \ {b} : row'[a] = row[a]
      /\ row' = [a \in Blocks |-> [c \in Row |-> row'[a][c]]]
  BY <1>2 DEF Shapes
<1>4. /\ pending' \in [Blocks -> SUBSET Interior]
      /\ \A a \in Blocks \ {b} : pending'[a] = pending[a]
      /\ set.enable_c2p_fixup => pending'[b] = Interior
  BY DEF FillDerived, Shapes
<1>5. \A a \in Blocks : \A c \in Row : Shape(row'[a][c])
  BY <1>3, InversionShape DEF Shapes
<1>6. step' \in [Blocks -> 1 .. 9]
  BY <1>1 DEF Shapes
<1> QED BY <1>1, <1>3, <1>4, <1>5, <1>6 DEF Shapes

LEMMA FixupCellRow ==
  ASSUME Shapes, NEW b \in Blocks, NEW c \in Interior, C2PFixupCell(b, c)
  PROVE  /\ Shapes'
         /\ step[b] \in {2, 7} /\ step' = step
         /\ row'[b] = RepairRow(row[b], c)
         /\ \A a \in Blocks \ {b} : row'[a] = row[a] /\ pending'[a] = pending[a]
         /\ pending'[b] = pending[b] \ {c}
<1>1. step[b] \in {2, 7} /\ step' = step
  BY TaskNumbers DEF C2PFixupCell, Doing, Shapes
<1>2. row' = [row EXCEPT ![b] = RepairRow(row[b], c)]
  BY Zenon DEF C2PFixupCell
<1>3. row'[b] = RepairRow(row[b], c) /\ \A a \in Blocks \ {b} : row'[a] = row[a]
  BY <1>2 DEF Shapes
<1>4. c \in Row /\ row[b] = [k \in Row |-> row[b][k]] /\ \A k \in Row : Shape(row[b][k])
  BY Rows DEF Shapes
<1>5. /\ row'[b] = [k \in Row |-> row'[b][k]]
      /\ \A k \in Row : Shape(row'[b][k])
  <2>1. /\ row'[b] = [k \in Row |-> RepairRow(row[b], c)[k]]
        /\ \A k \in Row : k # c => row'[b][k] = row[b][k]
        /\ Shape(row'[b][c])
    BY <1>3, <1>4, RepairShape
  <2>2. row'[b] = [k \in Row |-> row'[b][k]]
    BY <1>3, <2>1
  <2> QED BY <1>4, <2>1, <2>2
<1>6. row' = [a \in Blocks |-> [k \in Row |-> row'[a][k]]]
  BY <1>2, <1>3, <1>5 DEF Shapes
<1>7. /\ pending' \in [Blocks -> SUBSET Interior]
      /\ \A a \in Blocks \ {b} : pending'[a] = pending[a]
      /\ pending'[b] = pending[b] \ {c}
  BY DEF C2PFixupCell, Shapes
<1>8. \A a \in Blocks : \A k \in Row : Shape(row'[a][k])
  BY <1>3, <1>5 DEF Shapes
<1> QED BY <1>1, <1>3, <1>6, <1>7, <1>8 DEF Shapes

LEMMA FloorsRow ==
  ASSUME Shapes, NEW b \in Blocks, ApplyFloors(b)
  PROVE  /\ Shapes'
         /\ step[b] \in {3, 8} /\ step' = [step EXCEPT ![b] = @ + 1]
         /\ \A c \in Row : row'[b][c] = row[b][c] \/ row'[b][c] = Bound(row[b][c])
         /\ set.enable_floors => \A c \in Row : row'[b][c] = Bound(row[b][c])
         /\ \A a \in Blocks \ {b} : row'[a] = row[a]
         /\ pending' = pending
<1>1. step[b] \in {3, 8} /\ step' = [step EXCEPT ![b] = @ + 1] /\ pending' = pending
  BY TaskNumbers DEF ApplyFloors, Doing, Advance, Shapes
<1>2. row' = [row EXCEPT ![b] =
                IF set.enable_floors THEN [c \in Row |-> Bound(row[b][c])] ELSE row[b]]
  BY DEF ApplyFloors
<1>3. /\ \A c \in Row : row'[b][c] = row[b][c] \/ row'[b][c] = Bound(row[b][c])
      /\ set.enable_floors => \A c \in Row : row'[b][c] = Bound(row[b][c])
      /\ \A a \in Blocks \ {b} : row'[a] = row[a]
      /\ row' = [a \in Blocks |-> [c \in Row |-> row'[a][c]]]
  BY <1>2 DEF Shapes
<1>4. \A a \in Blocks : \A c \in Row : Shape(row'[a][c])
  <2>1. \A a \in Blocks : \A c \in Row : Shape(row[a][c])
    BY DEF Shapes
  <2>2. \A c \in Row : Shape(row'[b][c])
    BY <1>3, <2>1, BoundShape
  <2> QED BY <1>3, <2>1, <2>2
<1>5. step' \in [Blocks -> 1 .. 9]
  BY <1>1 DEF Shapes
<1> QED BY <1>1, <1>3, <1>4, <1>5 DEF Shapes

LEMMA ReceiveRow ==
  ASSUME Shapes, NEW b \in Blocks, Receive(b)
  PROVE  /\ row' = [a \in Blocks |-> [c \in Row |-> row'[a][c]]]
         /\ \A a \in Blocks : \A c \in Row : Shape(row'[a][c])
         /\ \A a \in Blocks \ {b} : row'[a] = row[a]
         /\ \A c \in Row \ {0, Width + 1} : row'[b][c] = row[b][c]
         /\ row'[b][0] = [row[b][0] EXCEPT !.cons = sent[other(b)][2]]
         /\ row'[b][Width + 1] = [row[b][Width + 1] EXCEPT !.cons = sent[other(b)][1]]
<1> DEFINE l == sent[other(b)][2]
           h == sent[other(b)][1]
           left == [row[b] EXCEPT ![0] = [@ EXCEPT !.cons = l]]
<1>1. 0 \in Row /\ Width + 1 \in Row /\ Width + 1 # 0
  BY CellsAssumption DEF Row
<1> DEFINE mid == [row EXCEPT ![b] = left]
           right == [mid[b] EXCEPT ![Width + 1] = [mid[b][Width + 1] EXCEPT !.cons = h]]
<1>2. row' = [mid EXCEPT ![b] = right]
  BY DEF Receive
<1>9. /\ row = [a \in Blocks |-> row[a]] /\ row[b] = [c \in Row |-> row[b][c]]
      /\ mid[b] = left /\ left[Width + 1] = row[b][Width + 1]
  BY <1>1 DEF Shapes
<1> HIDE DEF l, h, mid
<1>10. row' = [row EXCEPT ![b] = [left EXCEPT ![Width + 1] = [@ EXCEPT !.cons = h]]]
  <2> HIDE DEF left
  <2>1. right = [left EXCEPT ![Width + 1] = [@ EXCEPT !.cons = h]]
    BY <1>9
  <2> HIDE DEF right
  <2> QED BY <1>2, <1>9, <2>1 DEF mid
<1>3. /\ \A a \in Blocks \ {b} : row'[a] = row[a]
      /\ row'[b] = [c \in Row |-> row'[b][c]]
      /\ \A c \in Row \ {0, Width + 1} : row'[b][c] = row[b][c]
      /\ row'[b][0] = [row[b][0] EXCEPT !.cons = l]
      /\ row'[b][Width + 1] = [row[b][Width + 1] EXCEPT !.cons = h]
  BY <1>1, <1>9, <1>10
<1>4. Shape(row'[b][0]) /\ Shape(row'[b][Width + 1])
  <2>1. Shape(row[b][0]) /\ Shape(row[b][Width + 1])
    BY <1>1 DEF Shapes
  <2>2. \A y, z : Shape(y) => Shape([y EXCEPT !.cons = z])
    BY DEF Shape, Cell
  <2>3. Shape([row[b][0] EXCEPT !.cons = l])
    BY <2>1, <2>2
  <2>4. Shape([row[b][Width + 1] EXCEPT !.cons = h])
    BY <2>1, <2>2
  <2> QED BY <1>3, <2>3, <2>4, Zenon
<1>5. \A a \in Blocks : \A c \in Row : Shape(row'[a][c])
  <2>1. \A a \in Blocks : \A c \in Row : Shape(row[a][c])
    BY DEF Shapes
  <2> QED BY <1>3, <1>4, <2>1, Zenon
<1> HIDE DEF left
<1>6. row' = [a \in Blocks |-> row'[a]]
  BY <1>9, <1>10
<1>7. \A a \in Blocks : row'[a] = [c \in Row |-> row'[a][c]]
  BY <1>3 DEF Shapes
<1>8. row' = [a \in Blocks |-> [c \in Row |-> row'[a][c]]]
  BY <1>6, <1>7
<1> QED BY <1>3, <1>5, <1>8 DEF l, h

(* The end of a repair, a send and a receive move no interior cell.        *)
LEMMA OtherRow ==
  ASSUME Shapes, NEW b \in Blocks, C2PFixupEnds(b) \/ Send(b) \/ Receive(b)
  PROVE  /\ Shapes'
         /\ \/ step[b] \in {2, 7} /\ pending[b] = {}
            \/ step[b] \in {4, 5}
         /\ step' = [step EXCEPT ![b] = @ + 1]
         /\ \A a \in Blocks : \A c \in Interior : row'[a][c] = row[a][c]
         /\ pending' = pending
<1>1. /\ \/ step[b] \in {2, 7} /\ pending[b] = {}
         \/ step[b] \in {4, 5}
      /\ step' = [step EXCEPT ![b] = @ + 1] /\ pending' = pending
  BY TaskNumbers DEF C2PFixupEnds, Send, Receive, Doing, Advance, Shapes
<1>2. /\ row' = [a \in Blocks |-> [c \in Row |-> row'[a][c]]]
      /\ \A a \in Blocks : \A c \in Row : Shape(row'[a][c])
      /\ \A a \in Blocks : \A c \in Interior : row'[a][c] = row[a][c]
  <2>1. CASE row' = row
    BY <2>1, Rows DEF Shapes
  <2>2. CASE Receive(b)
    BY <2>2, ReceiveRow, Rows DEF Shapes
  <2> QED BY <2>1, <2>2 DEF C2PFixupEnds, Send
<1>3. step' \in [Blocks -> 1 .. 9]
  BY <1>1 DEF Shapes
<1> QED BY <1>1, <1>2, <1>3 DEF Shapes

----------------------------------------------------------------------------
(* The states of the run                                                   *)

LEMMA InitShapes == Init => Shapes
<1> SUFFICES ASSUME Init PROVE Shapes
  OBVIOUS
<1>1. row = [b \in Blocks |-> [c \in Row |->
              Cell(Old, IF c \in Interior THEN updated[b][c] ELSE Old, TRUE)]]
  BY DEF Init
<1>2. \A b \in Blocks : \A c \in Row :
        row[b][c] = Cell(Old, IF c \in Interior THEN updated[b][c] ELSE Old, TRUE)
  BY <1>1
<1>3. \A b \in Blocks : \A c \in Row : Shape(row[b][c])
  <2> SUFFICES ASSUME NEW b \in Blocks, NEW c \in Row PROVE Shape(row[b][c])
    OBVIOUS
  <2> DEFINE q == IF c \in Interior THEN updated[b][c] ELSE Old
  <2>1. row[b][c] = Cell(Old, q, TRUE)
    BY <1>2
  <2> HIDE DEF q
  <2> QED BY <2>1 DEF Shape, Cell
<1>4. row = [b \in Blocks |-> [c \in Row |-> row[b][c]]]
  BY <1>1
<1>5. step \in [Blocks -> 1 .. 9] /\ pending \in [Blocks -> SUBSET Interior]
  BY DEF Init
<1> QED BY <1>3, <1>4, <1>5 DEF Shapes

(* Conserved variables belong to the primitives once the repair has dealt  *)
(* with the cell; before, they do unless the inversion is known to have    *)
(* failed.                                                                 *)
Together(b) ==
  /\ step[b] \in {2, 7} =>
       \A c \in Interior : (c \in pending[b] => row[b][c].ok) => Same(row[b][c])
  /\ step[b] \in {3, 4, 8, 9} => \A c \in Interior : Same(row[b][c])
Matching == set.enable_c2p_fixup => \A b \in Blocks : Together(b)

(* A block whose row, task and pending cells stay is as matched as before. *)
LEMMA OthersTogether ==
  ASSUME Matching, NEW b \in Blocks, set' = set,
         \A a \in Blocks \ {b} :
           row'[a] = row[a] /\ pending'[a] = pending[a] /\ step'[a] = step[a],
         set.enable_c2p_fixup => Together(b)'
  PROVE  Matching'
<1> SUFFICES ASSUME set.enable_c2p_fixup, NEW a \in Blocks \ {b} PROVE Together(a)'
  BY DEF Matching
<1>1. Together(a)
  BY DEF Matching
<1> QED BY <1>1 DEF Together, Same

LEMMA StepMatching == Shapes /\ Matching /\ [Next]_vars => Shapes' /\ Matching'
<1> SUFFICES ASSUME Shapes, Matching, [Next]_vars PROVE Shapes' /\ Matching'
  OBVIOUS
<1> step \in [Blocks -> 1 .. 9]
  BY DEF Shapes
<1>1. CASE UNCHANGED vars
  BY <1>1 DEF vars, Shapes, Matching, Together, Same
<1>2. ASSUME NEW b \in Blocks, FillDerived(b) PROVE Shapes' /\ Matching'
  <2>1. /\ Shapes'
        /\ step[b] \in {1, 6} /\ step' = [step EXCEPT ![b] = @ + 1]
        /\ \A c \in Row : row'[b][c] = ConservedToPrimitive(row[b][c])
        /\ \A a \in Blocks \ {b} : row'[a] = row[a] /\ pending'[a] = pending[a]
        /\ set.enable_c2p_fixup => pending'[b] = Interior
    BY <1>2, FillDerivedRow
  <2>2. set' = set
    BY <1>2 DEF FillDerived
  <2>3. \A c \in Interior : row'[b][c].ok => Same(row'[b][c])
    BY <2>1, InversionShape, Rows DEF Shapes
  <2>4. step'[b] \in {2, 7} /\ \A a \in Blocks \ {b} : step'[a] = step[a]
    BY <2>1
  <2>5. set.enable_c2p_fixup => Together(b)'
    BY <2>1, <2>3, <2>4 DEF Together, Same
  <2> QED BY <2>1, <2>2, <2>4, <2>5, OthersTogether
<1>3. ASSUME NEW b \in Blocks, NEW c \in Interior, C2PFixupCell(b, c)
      PROVE  Shapes' /\ Matching'
  <2>1. /\ Shapes'
        /\ step[b] \in {2, 7} /\ step' = step
        /\ row'[b] = RepairRow(row[b], c)
        /\ \A a \in Blocks \ {b} : row'[a] = row[a] /\ pending'[a] = pending[a]
        /\ pending'[b] = pending[b] \ {c}
    BY <1>3, FixupCellRow
  <2>2. set' = set
    BY <1>3 DEF C2PFixupCell
  <2>3. c \in Row /\ row[b] = [k \in Row |-> row[b][k]] /\ Shape(row[b][c])
    BY Rows DEF Shapes
  <2>4. /\ \A k \in Row : k # c => row'[b][k] = row[b][k]
        /\ row[b][c].ok => row'[b][c] = row[b][c]
        /\ ~row[b][c].ok => Same(row'[b][c])
    BY <2>1, <2>3, RepairShape
  <2>5. ASSUME set.enable_c2p_fixup PROVE Together(b)'
    <3>1. \A k \in Interior : (k \in pending[b] => row[b][k].ok) => Same(row[b][k])
      BY <2>1, <2>5 DEF Matching, Together
    <3>2. Same(row'[b][c])
      BY <2>4, <3>1 DEF Same
    <3>3. \A k \in Interior : (k \in pending'[b] => row'[b][k].ok) => Same(row'[b][k])
      BY <2>1, <2>4, <3>1, <3>2, Rows
    <3> QED BY <2>1, <3>3 DEF Together, Same
  <2> QED BY <2>1, <2>2, <2>5, OthersTogether
<1>4. ASSUME NEW b \in Blocks, ApplyFloors(b) PROVE Shapes' /\ Matching'
  <2>1. /\ Shapes'
        /\ step[b] \in {3, 8} /\ step' = [step EXCEPT ![b] = @ + 1]
        /\ \A c \in Row : row'[b][c] = row[b][c] \/ row'[b][c] = Bound(row[b][c])
        /\ \A a \in Blocks \ {b} : row'[a] = row[a]
        /\ pending' = pending
    BY <1>4, FloorsRow
  <2>2. set' = set
    BY <1>4 DEF ApplyFloors
  <2>3. \A c \in Interior : Same(row[b][c]) => Same(row'[b][c])
    BY <2>1, BoundShape, Rows DEF Shapes
  <2>4. step'[b] \in {4, 9} /\ \A a \in Blocks \ {b} : step'[a] = step[a]
    BY <2>1
  <2>5. set.enable_c2p_fixup => Together(b)'
    BY <2>1, <2>3, <2>4 DEF Matching, Together, Same
  <2> QED BY <2>1, <2>2, <2>4, <2>5, OthersTogether
<1>5. ASSUME NEW b \in Blocks, C2PFixupEnds(b) \/ Send(b) \/ Receive(b)
      PROVE  Shapes' /\ Matching'
  <2>1. /\ Shapes'
        /\ \/ step[b] \in {2, 7} /\ pending[b] = {}
           \/ step[b] \in {4, 5}
        /\ step' = [step EXCEPT ![b] = @ + 1]
        /\ \A a \in Blocks : \A c \in Interior : row'[a][c] = row[a][c]
        /\ pending' = pending
    BY <1>5, OtherRow
  <2>2. set' = set
    BY <1>5 DEF C2PFixupEnds, Send, Receive
  <2>3. ASSUME set.enable_c2p_fixup, NEW a \in Blocks PROVE Together(a)'
    <3>1. Together(a)
      BY <2>3 DEF Matching
    <3>2. CASE a # b
      BY <2>1, <3>1, <3>2 DEF Together, Same
    <3>3. CASE a = b
      BY <2>1, <3>1, <3>3 DEF Together, Same
    <3> QED BY <3>2, <3>3
  <2> QED BY <2>1, <2>2, <2>3 DEF Matching
<1> QED BY <1>1, <1>2, <1>3, <1>4, <1>5 DEF Next, Finished

(* With repairs every interior cell leaves the bounds of a stage, and the  *)
(* stage, with conserved variables that are those of its primitives, for   *)
(* both inversions and whatever failed on the way.                         *)
THEOREM CellsConsistent == Spec => []PrimitivesMatchConserved
<1>1. Init => Matching
  BY DEF Init, Matching, Together
<1>2. Shapes /\ Matching => PrimitivesMatchConserved
  <2> SUFFICES ASSUME Shapes, Matching, NEW b \in Blocks, Bounded(b), set.enable_c2p_fixup,
                      NEW c \in Interior
               PROVE  Same(row[b][c])
    BY DEF PrimitivesMatchConserved, Same
  <2>1. step[b] \in 1 .. 9 /\ Together(b)
    BY DEF Shapes, Matching
  <2>2. step[b] \in {4, 9}
    BY <2>1, TaskNumbers DEF Bounded, Done, Doing
  <2> QED BY <2>1, <2>2 DEF Together
<1> QED BY <1>1, <1>2, InitShapes, StepMatching, PTL DEF Spec

----------------------------------------------------------------------------
(* Cells that need neither repair nor bounds                               *)

Values == [rho : Int, u : Int, w : Int]

(* The robust inversion finds a state strictly inside as it is, and says   *)
(* so, whether or not it has to fail on floors and ceilings.               *)
LEMMA InsideSolved ==
  ASSUME NEW x, x.cons \in Values, StrictlyInside(x.cons), NEW f, NEW g
  PROVE  RobustSolve(x, f, g) = Cell(x.cons, x.cons, TRUE)
<1> DEFINE s == x.cons
<1>1. SieFloor * s.rho \in Int /\ SieMax * s.rho \in Int
  BY InversionAssumption DEF Values
<1>2. /\ s # NaN /\ s.rho > RhoFloor /\ s.u > SieFloor * s.rho
      /\ s.w <= WMax /\ s.u <= SieMax * s.rho
  BY DEF StrictlyInside, InBounds, CeilingsHold
<1>3. rhohat(s) = s.rho
  BY <1>2, InversionAssumption DEF rhohat, AtLeast, Values
<1>4. ehat(s) = s.u
  BY <1>1, <1>2, <1>3 DEF ehat, AtLeast, AtMost, Values
<1>5. written(s) = s.w
  BY <1>2 DEF written
<1>6. Clamped(s) = s
  BY <1>3, <1>4, <1>5 DEF Clamped, State, Values
<1>7. ~used_density_floor(s) /\ ~used_gamma_max(s)
  BY <1>2, InversionAssumption DEF used_density_floor, used_gamma_max, Values
<1>8. ~used_energy_floor(s)
  BY <1>1, <1>2, <1>3 DEF used_energy_floor, Values
<1> QED BY <1>2, <1>6, <1>7, <1>8 DEF RobustSolve

(* Floors and ceilings do nothing to it.                                   *)
LEMMA InsideUnbounded ==
  ASSUME NEW x, StrictlyInside(x.prim)
  PROVE  Bound(x) = x
<1>1. FloorsHold(x.prim) /\ CeilingsHold(x.prim)
  BY DEF StrictlyInside, InBounds
<1>2. FloorCell(x, set.c2p_fail_on_floors, set.c2p_fail_on_ceilings) = x
  BY <1>1 DEF FloorCell, FloorApplied
<1>3. CeilCell(x) = x
  BY <1>1 DEF CeilCell
<1> QED BY <1>2, <1>3 DEF Bound

(* From its first inversion on, a cell the update left inside is what the  *)
(* update left.                                                            *)
Kept(b, c) ==
  StrictlyInside(updated[b][c]) =>
    /\ row[b][c].cons = updated[b][c]
    /\ step[b] # 1 => row[b][c].prim = updated[b][c] /\ row[b][c].ok
AllKept ==
  /\ updated \in [Blocks -> [Interior -> Values]]
  /\ Robust => \A b \in Blocks : \A c \in Interior : Kept(b, c)

LEMMA StepKept == Shapes /\ AllKept /\ [Next]_vars => AllKept'
<1> SUFFICES ASSUME Shapes, AllKept, [Next]_vars PROVE AllKept'
  OBVIOUS
<1> step \in [Blocks -> 1 .. 9]
  BY DEF Shapes
<1>1. set' = set /\ updated' = updated
  BY DEF Next, Finished, vars, FillDerived, C2PFixupCell, C2PFixupEnds, ApplyFloors, Send, Receive
<1>2. SUFFICES ASSUME Robust, NEW a \in Blocks, NEW k \in Interior,
                      StrictlyInside(updated[a][k])
               PROVE  /\ row'[a][k].cons = updated[a][k]
                      /\ step'[a] # 1 => row'[a][k].prim = updated[a][k] /\ row'[a][k].ok
  BY <1>1 DEF AllKept, Kept, Robust, StrictlyInside, InBounds
<1> DEFINE s == updated[a][k]
<1>3. /\ k \in Row /\ s \in Values
      /\ row[a][k].cons = s
      /\ step[a] # 1 => row[a][k].prim = s /\ row[a][k].ok
  BY <1>2, Rows DEF AllKept, Kept
<1>4. CASE UNCHANGED vars
  BY <1>3, <1>4 DEF vars
<1>5. ASSUME NEW b \in Blocks, FillDerived(b)
      PROVE  row'[a][k].cons = s /\ (step'[a] # 1 => row'[a][k].prim = s /\ row'[a][k].ok)
  <2>1. /\ step' = [step EXCEPT ![b] = @ + 1]
        /\ \A c \in Row : row'[b][c] = ConservedToPrimitive(row[b][c])
        /\ \A d \in Blocks \ {b} : row'[d] = row[d]
    BY <1>5, FillDerivedRow
  <2>2. CASE a # b
    BY <1>3, <2>1, <2>2
  <2>3. CASE a = b
    <3>1. ConservedToPrimitive(row[a][k]) = Cell(s, s, TRUE)
      BY <1>2, <1>3, InsideSolved DEF ConservedToPrimitive, ConservedToPrimitiveRobust, Robust
    <3> QED BY <1>3, <2>1, <2>3, <3>1 DEF Cell
  <2> QED BY <2>2, <2>3
<1>6. ASSUME NEW b \in Blocks, NEW c \in Interior, C2PFixupCell(b, c)
      PROVE  row'[a][k].cons = s /\ (step'[a] # 1 => row'[a][k].prim = s /\ row'[a][k].ok)
  <2>1. /\ step[b] \in {2, 7} /\ step' = step
        /\ row'[b] = RepairRow(row[b], c)
        /\ \A d \in Blocks \ {b} : row'[d] = row[d]
    BY <1>6, FixupCellRow
  <2>2. CASE a # b
    BY <1>3, <2>1, <2>2
  <2>3. CASE a = b
    <3>1. c \in Row /\ row[b] = [n \in Row |-> row[b][n]] /\ Shape(row[b][c])
      BY Rows DEF Shapes
    <3>2. /\ \A n \in Row : n # c => row'[b][n] = row[b][n]
          /\ row[b][c].ok => row'[b][c] = row[b][c]
      BY <2>1, <3>1, RepairShape
    <3> QED BY <1>3, <2>1, <2>3, <3>2
  <2> QED BY <2>2, <2>3
<1>7. ASSUME NEW b \in Blocks, ApplyFloors(b)
      PROVE  row'[a][k].cons = s /\ (step'[a] # 1 => row'[a][k].prim = s /\ row'[a][k].ok)
  <2>1. /\ step[b] \in {3, 8} /\ step' = [step EXCEPT ![b] = @ + 1]
        /\ \A c \in Row : row'[b][c] = row[b][c] \/ row'[b][c] = Bound(row[b][c])
        /\ \A d \in Blocks \ {b} : row'[d] = row[d]
    BY <1>7, FloorsRow
  <2>2. CASE a # b
    BY <1>3, <2>1, <2>2
  <2>3. CASE a = b
    <3>1. row[a][k].prim = s /\ row[a][k].ok
      BY <1>3, <2>1, <2>3
    <3>2. Bound(row[a][k]) = row[a][k]
      BY <1>2, <3>1, InsideUnbounded
    <3> QED BY <1>3, <2>1, <2>3, <3>1, <3>2
  <2> QED BY <2>2, <2>3
<1>8. ASSUME NEW b \in Blocks, C2PFixupEnds(b) \/ Send(b) \/ Receive(b)
      PROVE  row'[a][k].cons = s /\ (step'[a] # 1 => row'[a][k].prim = s /\ row'[a][k].ok)
  <2>1. /\ step[b] \in {2, 4, 5, 7} /\ step' = [step EXCEPT ![b] = @ + 1]
        /\ \A d \in Blocks : \A c \in Interior : row'[d][c] = row[d][c]
    BY <1>8, OtherRow
  <2> QED BY <1>3, <2>1
<1> QED BY <1>4, <1>5, <1>6, <1>7, <1>8 DEF Next, Finished

(* Whatever fails around it and however the kernels are ordered, repairs   *)
(* and bounds do not touch a cell the update left strictly within bounds.  *)
THEOREM HealthyKept == Spec => []HealthyCellsKept
<1>1. Init => AllKept
  <2> SUFFICES ASSUME Init PROVE AllKept
    OBVIOUS
  <2>1. updated \in [Blocks -> [Interior -> Values]]
    BY CellsAssumption DEF Init, Values
  <2>2. step = [b \in Blocks |-> 1]
    BY DEF Init
  <2>3. ASSUME NEW b \in Blocks, NEW c \in Interior PROVE row[b][c].cons = updated[b][c]
    BY Rows DEF Init, Cell
  <2> QED BY <2>1, <2>2, <2>3 DEF AllKept, Kept
<1>2. Shapes /\ AllKept => HealthyCellsKept
  <2> SUFFICES ASSUME Shapes, AllKept, Robust, NEW b \in Blocks, Done(b),
                      NEW c \in Interior, StrictlyInside(updated[b][c])
               PROVE  row[b][c].prim = updated[b][c]
    BY DEF HealthyCellsKept
  <2>1. step[b] = 9
    BY TaskNumbers DEF Done, Doing, Shapes
  <2> QED BY <2>1 DEF AllKept, Kept
<1>3. Shapes /\ [Next]_vars => Shapes'
  <2> SUFFICES ASSUME Shapes, [Next]_vars PROVE Shapes'
    OBVIOUS
  <2>1. CASE UNCHANGED vars
    BY <2>1 DEF vars, Shapes
  <2>2. CASE Next
    BY <2>2, FillDerivedRow, FixupCellRow, FloorsRow, OtherRow DEF Next, Finished, vars, Shapes
  <2> QED BY <2>1, <2>2
<1> QED BY <1>1, <1>2, <1>3, InitShapes, StepKept, PTL DEF Spec

----------------------------------------------------------------------------
(* Bounds of what the inversion and the repair leave                       *)

LEMMA Product ==
  ASSUME NEW k \in Nat, NEW x \in Int, NEW y \in Int, x <= y
  PROVE  k * x \in Int /\ k * y \in Int /\ k * x <= k * y
<1>1. PICK d \in Nat : y = x + d
  <2>1. y - x \in Nat /\ y = x + (y - x)
    OBVIOUS
  <2> QED BY <2>1
<1>2. k * y = k * x + k * d /\ k * d \in Nat /\ k * x \in Int
  BY <1>1
<1> QED BY <1>2

(* Density and energy within bounds, whatever the motion.                  *)
Held(s) == s # NaN /\ FloorsHold(s) /\ s.u <= SieMax * s.rho

LEMMA HeldInBounds == ASSUME NEW s PROVE InBounds(s) <=> Held(s) /\ s.w <= WMax
BY DEF InBounds, Held, CeilingsHold

LEMMA WrittenMotion ==
  ASSUME NEW s \in Values
  PROVE  written(s) \in Int /\ (s.w <= WMax => written(s) = s.w)
<1>1. s.w \in Int /\ One \in Nat \ {0} /\ WMax \in Nat
  BY InversionAssumption DEF Values
<1>2. CASE s.w <= WMax
  BY <1>1, <1>2 DEF written
<1>3. CASE ~(s.w <= WMax)
  <2> DEFINE a == -((One + WMax) * s.w)
             d == One + s.w
  <2>1. a \in Int /\ d \in Nat \ {0}
    BY <1>1, <1>3
  <2>2. written(s) = -(a \div d)
    BY <1>3 DEF written
  <2> HIDE DEF a, d
  <2> QED BY <1>3, <2>1, <2>2
<1> QED BY <1>2, <1>3

LEMMA ClampedHeld ==
  ASSUME NEW s \in Values
  PROVE  /\ Clamped(s) \in Values /\ Held(Clamped(s))
         /\ s.w <= WMax => InBounds(Clamped(s))
<1> DEFINE r == rhohat(s)
           e == ehat(s)
           w == written(s)
<1>1. r \in Int /\ r >= RhoFloor /\ r \in Nat
  BY InversionAssumption DEF rhohat, AtLeast, Values
<1>2. w \in Int /\ (s.w <= WMax => w <= WMax)
  BY WrittenMotion
<1>3. /\ RhoFloor * SieFloor \in Int /\ SieFloor * r \in Int /\ SieMax * r \in Int
      /\ RhoFloor * SieFloor <= SieFloor * r
      /\ SieFloor * r <= SieMax * r
  <2>1. SieFloor * RhoFloor <= SieFloor * r
    BY <1>1, Product, InversionAssumption
  <2>2. r * SieFloor <= r * SieMax
    BY <1>1, Product, InversionAssumption
  <2>3. /\ RhoFloor * SieFloor = SieFloor * RhoFloor
        /\ r * SieFloor = SieFloor * r /\ r * SieMax = SieMax * r
    BY <1>1, InversionAssumption
  <2>4. RhoFloor * SieFloor \in Int /\ SieFloor * r \in Int /\ SieMax * r \in Int
    BY <1>1, InversionAssumption
  <2> QED BY <2>1, <2>2, <2>3, <2>4
<1>4. e = AtMost(AtLeast(s.u, SieFloor * r), SieMax * r)
  BY DEF ehat
<1>5. Clamped(s) = State(r, e, w)
  BY DEF Clamped
<1> HIDE DEF r, e, w
<1>6. e \in Int /\ SieFloor * r <= e /\ e <= SieMax * r
  <2> DEFINE lo == SieFloor * r
             hi == SieMax * r
  <2>1. lo \in Int /\ hi \in Int /\ lo <= hi /\ e = AtMost(AtLeast(s.u, lo), hi)
    BY <1>3, <1>4
  <2>2. s.u \in Int
    BY DEF Values
  <2> HIDE DEF lo, hi
  <2>3. e \in Int /\ lo <= e /\ e <= hi
    BY <2>1, <2>2 DEF AtMost, AtLeast
  <2> QED BY <2>3 DEF lo, hi
<1>7. e >= RhoFloor * SieFloor
  BY <1>3, <1>6
<1>8. State(r, e, w) # NaN
  BY <1>1 DEF State, NaN
<1>9. State(r, e, w) \in Values /\ Held(State(r, e, w))
  BY <1>1, <1>2, <1>6, <1>7, <1>8 DEF Held, FloorsHold, State, Values
<1>10. State(r, e, w).w = w
  BY DEF State
<1> QED BY <1>2, <1>5, <1>9, <1>10, HeldInBounds

(* What is too fast is slowed to W^2 - 1 of one or less.                   *)
LEMMA RescaledHeld ==
  ASSUME NEW s \in Values, Held(s), s.w > WMax
  PROVE  /\ Rescaled(s) \in Values /\ Held(Rescaled(s))
         /\ Rescaled(s).rho = s.rho /\ Rescaled(s).u = s.u
         /\ CeilingsBind => InBounds(Rescaled(s))
<1> DEFINE q == (WMax * One) \div s.w
<1>1. s.w \in Nat \ {0} /\ One \in Nat /\ WMax \in Nat
  BY InversionAssumption DEF Values
<1>2. WMax * One \in Int /\ WMax * One <= s.w * One
  <2>1. One * WMax <= One * s.w
    BY <1>1, Product
  <2> QED BY <1>1, <2>1
<1>3. q \in Int /\ q <= One
  <2> DEFINE a == WMax * One
             d == s.w
             k == One
  <2>1. a \in Int /\ d \in Nat \ {0} /\ k \in Nat /\ a <= d * k
    BY <1>1, <1>2
  <2> HIDE DEF a, d, k
  <2>2. a \div d \in Int /\ d * (a \div d) <= a
    BY <2>1
  <2>3. ~(a \div d > k)
    <3> SUFFICES ASSUME a \div d > k PROVE FALSE
      OBVIOUS
    <3>1. k + 1 <= a \div d
      BY <2>1, <2>2
    <3>2. d * (k + 1) <= d * (a \div d) /\ d * (k + 1) \in Int /\ d * (a \div d) \in Int
      BY <2>1, <2>2, <3>1, Product
    <3>3. d * (k + 1) = d * k + d /\ d * k \in Int
      BY <2>1
    <3> QED BY <2>1, <2>2, <3>2, <3>3
  <2>4. a \div d <= k
    BY <2>1, <2>2, <2>3
  <2> QED BY <2>2, <2>4 DEF a, d, k
<1> HIDE DEF q
<1>4. Rescaled(s) = State(s.rho, s.u, q)
  BY <1>1 DEF Rescaled, State, Values, q
<1>5. State(s.rho, s.u, q) \in Values /\ Held(State(s.rho, s.u, q))
  <2>1. s.rho \in Int /\ s.u \in Int /\ s.rho # -1
    BY InversionAssumption DEF Values, Held, FloorsHold
  <2> QED BY <1>3, <2>1 DEF Held, FloorsHold, State, NaN, Values
<1>6. CeilingsBind => State(s.rho, s.u, q).w <= WMax
  BY <1>1, <1>3 DEF State, CeilingsBind
<1>7. State(s.rho, s.u, q).rho = s.rho /\ State(s.rho, s.u, q).u = s.u
  BY DEF State
<1> QED BY <1>4, <1>5, <1>6, <1>7, HeldInBounds

(* The mean of the valid ones of two states lies between them, and within  *)
(* bounds if they do.                                                      *)
HalfUp(a, b) == -((-(a + b)) \div 2)
HalfDown(a, b) == (a + b) \div 2

LEMMA RoundedUp ==
  ASSUME NEW a \in Int, NEW b \in Int
  PROVE  /\ HalfUp(a, b) \in Int /\ a + b <= 2 * HalfUp(a, b)
         /\ a <= b => a <= HalfUp(a, b) /\ HalfUp(a, b) <= b
         /\ b <= a => b <= HalfUp(a, b) /\ HalfUp(a, b) <= a
BY DEF HalfUp

LEMMA RoundedDown ==
  ASSUME NEW a \in Int, NEW b \in Int
  PROVE  /\ HalfDown(a, b) \in Int /\ 2 * HalfDown(a, b) <= a + b
         /\ a <= b => a <= HalfDown(a, b) /\ HalfDown(a, b) <= b
         /\ b <= a => b <= HalfDown(a, b) /\ HalfDown(a, b) <= a
BY DEF HalfDown

(* What a cell next to others of such density and energy is given.         *)
LEMMA MeanHeld ==
  ASSUME NEW r, NEW c \in Int, Valid(r, c) # {},
         \A n \in Neighbours(c) : r[n].prim \in Values,
         \A n \in Valid(r, c) : Held(r[n].prim)
  PROVE  /\ Average(r, c) \in Values /\ Held(Average(r, c))
         /\ \E lo, hi \in Valid(r, c) :
              r[lo].prim.rho <= Average(r, c).rho /\ Average(r, c).rho <= r[hi].prim.rho
         /\ \E lo, hi \in Valid(r, c) :
              r[lo].prim.u <= Average(r, c).u /\ Average(r, c).u <= r[hi].prim.u
<1> DEFINE x == r[c - 1].prim
           y == r[c + 1].prim
           m == Average(r, c)
<1>1. /\ x \in Values /\ y \in Values
      /\ r[c - 1].ok => Held(x) /\ c - 1 \in Valid(r, c)
      /\ r[c + 1].ok => Held(y) /\ c + 1 \in Valid(r, c)
      /\ r[c - 1].ok \/ r[c + 1].ok
  BY DEF Neighbours, Valid
<1>2. CASE r[c - 1].ok /\ ~r[c + 1].ok
  <2>1. num_valid(r, c) = 1
    BY <1>2 DEF num_valid, fail
  <2>2. /\ Sum(r, c, "rho") = x.rho /\ Sum(r, c, "u") = x.u /\ Sum(r, c, "w") = x.w
    BY <1>1, <1>2 DEF Sum, fail, Values
  <2>3. x.rho \in Int /\ x.u \in Int /\ x.w \in Int /\ x = State(x.rho, x.u, x.w)
    BY <1>1 DEF Values, State
  <2>4. m = State(-((-x.rho) \div 1), x.u \div 1, x.w \div 1)
    BY <2>1, <2>2 DEF Average
  <2>5. m = x
    BY <2>3, <2>4
  <2> HIDE DEF x, y, m
  <2> QED BY <1>1, <1>2, <2>3, <2>5 DEF x, m
<1>3. CASE ~r[c - 1].ok /\ r[c + 1].ok
  <2>1. num_valid(r, c) = 1
    BY <1>3 DEF num_valid, fail
  <2>2. /\ Sum(r, c, "rho") = y.rho /\ Sum(r, c, "u") = y.u /\ Sum(r, c, "w") = y.w
    BY <1>1, <1>3 DEF Sum, fail, Values
  <2>3. y.rho \in Int /\ y.u \in Int /\ y.w \in Int /\ y = State(y.rho, y.u, y.w)
    BY <1>1 DEF Values, State
  <2>4. m = State(-((-y.rho) \div 1), y.u \div 1, y.w \div 1)
    BY <2>1, <2>2 DEF Average
  <2>5. m = y
    BY <2>3, <2>4
  <2> HIDE DEF x, y, m
  <2> QED BY <1>1, <1>3, <2>3, <2>5 DEF y, m
<1>4. CASE r[c - 1].ok /\ r[c + 1].ok
  <2>1. num_valid(r, c) = 2
    BY <1>4 DEF num_valid, fail
  <2>2. /\ Sum(r, c, "rho") = x.rho + y.rho /\ Sum(r, c, "u") = x.u + y.u
        /\ Sum(r, c, "w") = x.w + y.w
    BY <1>1, <1>4 DEF Sum, fail, Values
  <2>3. /\ m.rho = HalfUp(x.rho, y.rho)
        /\ m.u = HalfDown(x.u, y.u) /\ m.w = HalfDown(x.w, y.w)
        /\ m = State(m.rho, m.u, m.w)
    BY <2>1, <2>2 DEF Average, State, HalfUp, HalfDown
  <2>4. /\ x.rho \in Int /\ x.u \in Int /\ x.w \in Int
        /\ y.rho \in Int /\ y.u \in Int /\ y.w \in Int
    BY <1>1 DEF Values
  <2>5. /\ Held(x) /\ Held(y) /\ c - 1 \in Valid(r, c) /\ c + 1 \in Valid(r, c)
    BY <1>1, <1>4, Zenon
  <2> HIDE DEF m
  <2>6. /\ m.rho \in Int /\ x.rho + y.rho <= 2 * m.rho
        /\ x.rho <= y.rho => x.rho <= m.rho /\ m.rho <= y.rho
        /\ y.rho <= x.rho => y.rho <= m.rho /\ m.rho <= x.rho
    <3>1. /\ HalfUp(x.rho, y.rho) \in Int /\ x.rho + y.rho <= 2 * HalfUp(x.rho, y.rho)
          /\ x.rho <= y.rho => x.rho <= HalfUp(x.rho, y.rho) /\ HalfUp(x.rho, y.rho) <= y.rho
          /\ y.rho <= x.rho => y.rho <= HalfUp(x.rho, y.rho) /\ HalfUp(x.rho, y.rho) <= x.rho
      BY <2>4, RoundedUp
    <3> QED BY <2>3, <3>1
  <2>7. /\ m.u \in Int /\ 2 * m.u <= x.u + y.u
        /\ x.u <= y.u => x.u <= m.u /\ m.u <= y.u
        /\ y.u <= x.u => y.u <= m.u /\ m.u <= x.u
    <3>1. /\ HalfDown(x.u, y.u) \in Int /\ 2 * HalfDown(x.u, y.u) <= x.u + y.u
          /\ x.u <= y.u => x.u <= HalfDown(x.u, y.u) /\ HalfDown(x.u, y.u) <= y.u
          /\ y.u <= x.u => y.u <= HalfDown(x.u, y.u) /\ HalfDown(x.u, y.u) <= x.u
      BY <2>4, RoundedDown
    <3> QED BY <2>3, <3>1
  <2>8. m.w \in Int
    BY <2>3, <2>4, RoundedDown
  <2>9. /\ x.u <= SieMax * x.rho /\ y.u <= SieMax * y.rho
        /\ x.rho >= RhoFloor /\ y.rho >= RhoFloor
        /\ x.u >= RhoFloor * SieFloor /\ y.u >= RhoFloor * SieFloor
    BY <2>5 DEF Held, FloorsHold
  <2> HIDE DEF x, y
  <2>10. m.u <= SieMax * m.rho
    <3> DEFINE S == x.rho + y.rho
               T == 2 * m.rho
               k == SieMax * m.rho
    <3>1. SieMax * S <= SieMax * T
      BY <2>4, <2>6, Product, InversionAssumption
    <3>2. SieMax * S = SieMax * x.rho + SieMax * y.rho /\ SieMax * T = 2 * k /\ k \in Int
      BY <2>4, <2>6, InversionAssumption
    <3>3. SieMax * x.rho \in Int /\ SieMax * y.rho \in Int
      BY <2>4, InversionAssumption
    <3>4. x.u + y.u <= SieMax * x.rho + SieMax * y.rho
      BY <2>4, <2>9, <3>3
    <3> HIDE DEF k
    <3>5. 2 * m.u <= 2 * k
      BY <2>4, <2>7, <3>1, <3>2, <3>3, <3>4
    <3> QED BY <2>7, <3>2, <3>5 DEF k
  <2>11. m.rho >= RhoFloor /\ m.u >= RhoFloor * SieFloor
    <3>1. RhoFloor \in Int /\ RhoFloor * SieFloor \in Int
      BY InversionAssumption
    <3> QED BY <2>4, <2>6, <2>7, <2>9, <3>1
  <2>12. m # NaN
    BY <2>6, <2>11, InversionAssumption DEF NaN, State
  <2>13. m \in Values
    BY <2>3, <2>6, <2>7, <2>8 DEF Values, State
  <2>14. Held(m)
    BY <2>10, <2>11, <2>12 DEF Held, FloorsHold
  <2>15. \E lo, hi \in Valid(r, c) : r[lo].prim.rho <= m.rho /\ m.rho <= r[hi].prim.rho
    BY <2>4, <2>5, <2>6 DEF x, y
  <2>16. \E lo, hi \in Valid(r, c) : r[lo].prim.u <= m.u /\ m.u <= r[hi].prim.u
    BY <2>4, <2>5, <2>7 DEF x, y
  <2> QED BY <2>13, <2>14, <2>15, <2>16 DEF m
<1> QED BY <1>1, <1>2, <1>3, <1>4

Typed(x) == Shape(x) /\ x.prim \in Values /\ x.cons \in Values
Good(x) == Typed(x) /\ Held(x.prim)
(* A cell without valid neighbours, until the floors                       *)
Patched(x) == Typed(x) /\ x.prim = Tiny /\ x.cons = Tiny /\ ~x.ok

LEMMA GoodIsNumber == ASSUME NEW x, Good(x) \/ Patched(x) PROVE x.prim # NaN
BY DEF Good, Patched, Held, Tiny, NaN, State

(* The robust inversion writes clamped states or, at a NaN, none.          *)
LEMMA SolvedTyped ==
  ASSUME NEW x, Typed(x), NEW f, NEW g
  PROVE  /\ Typed(RobustSolve(x, f, g))
         /\ x.cons = NaN => RobustSolve(x, f, g).prim = x.prim
         /\ x.cons # NaN => /\ RobustSolve(x, f, g).prim = Clamped(x.cons)
                            /\ RobustSolve(x, f, g).cons = Clamped(x.cons)
                            /\ Held(RobustSolve(x, f, g).prim)
<1> DEFINE y == RobustSolve(x, f, g)
           hat == Clamped(x.cons)
<1>1. x.cons = NaN => y = Cell(x.prim, x.cons, FALSE)
  BY DEF RobustSolve, Typed, Shape, Cell
<1>2. x.cons # NaN => \E ok \in BOOLEAN : y = Cell(hat, hat, ok)
  BY DEF RobustSolve
<1>3. hat \in Values /\ Held(hat)
  BY ClampedHeld DEF Typed
<1> HIDE DEF y, hat
<1>4. CASE x.cons = NaN
  <2>1. Typed(y) /\ y.prim = x.prim
    <3>1. y = Cell(x.prim, x.cons, FALSE)
      BY <1>1, <1>4
    <3> QED BY <3>1 DEF Typed, Shape, Cell
  <2> QED BY <1>4, <2>1 DEF y
<1>5. CASE x.cons # NaN
  <2>1. Typed(y) /\ y.prim = hat /\ y.cons = hat
    BY <1>2, <1>3, <1>5, CellFields DEF Typed
  <2>2. Held(y.prim)
    BY <1>3, <2>1
  <2> QED BY <1>5, <2>1, <2>2 DEF y, hat
<1> QED BY <1>4, <1>5

LEMMA InvertedGood ==
  ASSUME Robust, NEW x, Good(x)
  PROVE  /\ Good(ConservedToPrimitive(x))
         /\ x.cons # NaN => ConservedToPrimitive(x).prim = Clamped(x.cons)
         /\ InBounds(x.cons) /\ ~set.c2p_fail_on_floors => ConservedToPrimitive(x).ok
<1> DEFINE y == ConservedToPrimitive(x)
           f == set.c2p_fail_on_floors
           g == set.c2p_fail_on_ceilings
<1>1. y = RobustSolve(x, f, g)
  BY DEF ConservedToPrimitive, ConservedToPrimitiveRobust, Robust
<1>2. InBounds(x.cons) /\ ~f => y.ok
  <2> SUFFICES ASSUME InBounds(x.cons), ~f PROVE y.ok
    OBVIOUS
  <2> DEFINE hat == Clamped(x.cons)
  <2>1. x.cons # NaN /\ ~used_gamma_max(x.cons)
    BY InversionAssumption DEF InBounds, CeilingsHold, used_gamma_max, Good, Typed, Values
  <2>2. y = Cell(hat, hat, TRUE)
    BY <1>1, <2>1 DEF RobustSolve
  <2> QED BY <2>2 DEF Cell
<1> HIDE DEF y, f, g
<1>3. /\ Good(y)
      /\ x.cons # NaN => y.prim = Clamped(x.cons)
  BY <1>1, SolvedTyped DEF Good
<1> QED BY <1>2, <1>3 DEF y, f

(* The bounds slow what is too fast and change nothing else.               *)
LEMMA CeilGood ==
  ASSUME NEW x, Good(x)
  PROVE  /\ Good(CeilCell(x))
         /\ CeilingsBind => InBounds(CeilCell(x).prim)
         /\ InBounds(x.prim) => CeilCell(x) = x
<1>1. x.prim # NaN /\ x.prim \in Values /\ Held(x.prim) /\ x.ok \in BOOLEAN
  BY DEF Good, Held, Typed, Shape
<1>2. CeilingsHold(x.prim) <=> x.prim.w <= WMax
  BY <1>1 DEF Held, CeilingsHold
<1>3. CASE x.prim.w <= WMax
  <2>1. CeilCell(x) = x
    BY <1>2, <1>3 DEF CeilCell
  <2> QED BY <1>1, <1>3, <2>1, HeldInBounds
<1>4. CASE ~(x.prim.w <= WMax)
  <2> DEFINE q == Rescaled(x.prim)
  <2>1. CeilCell(x) = Cell(q, q, x.ok)
    BY <1>1, <1>2, <1>4 DEF CeilCell
  <2>2. x.prim.w > WMax
    BY <1>1, <1>4, InversionAssumption DEF Values
  <2>3. q \in Values /\ Held(q) /\ (CeilingsBind => InBounds(q))
    BY <1>1, <2>2, RescaledHeld
  <2>4. ~InBounds(x.prim)
    BY <1>4, HeldInBounds
  <2> HIDE DEF q
  <2>5. Good(CeilCell(x)) /\ CeilCell(x).prim = q
    BY <1>1, <2>1, <2>3, CellFields DEF Good, Typed
  <2> QED BY <2>3, <2>4, <2>5
<1> QED BY <1>3, <1>4

LEMMA BoundGood ==
  ASSUME NEW x, Good(x)
  PROVE  /\ Good(Bound(x))
         /\ CeilingsBind => InBounds(Bound(x).prim)
         /\ InBounds(x.prim) => Bound(x) = x
<1>1. FloorsHold(x.prim)
  BY DEF Good, Held
<1>2. FloorCell(x, set.c2p_fail_on_floors, set.c2p_fail_on_ceilings) = x
  BY <1>1 DEF FloorCell, FloorApplied
<1>3. Bound(x) = CeilCell(x)
  BY <1>2 DEF Bound
<1> QED BY <1>3, CeilGood

(* A cell near zero is given the floors, whether or not the inversion      *)
(* fails at them.                                                          *)
LEMMA BoundPatched ==
  ASSUME NEW x, Patched(x)
  PROVE  Good(Bound(x)) /\ (CeilingsBind => InBounds(Bound(x).prim))
<1> DEFINE f == set.c2p_fail_on_floors
           g == set.c2p_fail_on_ceilings
           e == RhoFloor * SieFloor
           add == State(RhoFloor, e, 0)
           poured == [x EXCEPT !.cons = add]
           solved == RobustSolve(poured, f, g)
           y == FloorCell(x, f, g)
<1>1. e \in Int /\ e >= 0 /\ e = SieFloor * RhoFloor /\ e \div SieFloor = RhoFloor
  BY InversionAssumption
<1>2. add \in Values /\ Held(add)
  <2>1. RhoFloor * SieFloor <= RhoFloor * SieMax
    BY Product, InversionAssumption
  <2>2. e <= SieMax * RhoFloor
    BY <2>1, InversionAssumption
  <2> QED BY <1>1, <2>2, InversionAssumption
          DEF Held, FloorsHold, State, NaN, Values
<1>3. FloorApplied(x.prim)
  BY InversionAssumption DEF FloorApplied, FloorsHold, Patched, Tiny, NaN, State
<1>4. Missing(x.prim) = add
  <2>1. x.prim.rho = 0 /\ x.prim.u = 0
    BY DEF Patched, Tiny, State
  <2> HIDE DEF e
  <2>2. RhoFloor - x.prim.rho = RhoFloor /\ e - x.prim.u = e
    BY <1>1, <2>1, InversionAssumption
  <2>3. AtLeast(RhoFloor, e \div SieFloor) = RhoFloor /\ AtLeast(e, SieFloor * RhoFloor) = e
    BY <1>1, InversionAssumption DEF AtLeast
  <2> QED BY <2>2, <2>3 DEF Missing, e
<1>5. Inject(x.cons, add.rho, add.u) = add
  <2>1. x.cons = Tiny /\ Tiny # NaN /\ Tiny.rho = 0 /\ Tiny.u = 0 /\ Tiny.w = 0
    BY DEF Patched, Tiny, NaN, State
  <2>2. add.rho = RhoFloor /\ add.u = e
    BY DEF State
  <2>3. (0 * 0) \div (0 + RhoFloor) = 0 /\ 0 + RhoFloor = RhoFloor /\ 0 + e = e
    BY <1>1, InversionAssumption
  <2> HIDE DEF e
  <2> QED BY <2>1, <2>2, <2>3 DEF Inject
<1> HIDE DEF e, add
<1>6. y = IF solved.ok THEN [solved EXCEPT !.ok = x.ok] ELSE Cell(add, add, x.ok)
  BY <1>3, <1>4, <1>5 DEF FloorCell
<1>7. Typed(poured) /\ poured.cons = add /\ add # NaN
  BY <1>2 DEF Patched, Typed, Shape, Cell, Held
<1>8. Typed(solved) /\ Held(solved.prim)
  <2> HIDE DEF poured
  <2> QED BY <1>7, SolvedTyped
<1> HIDE DEF solved
<1>9. Good(y)
  <2> x.ok \in BOOLEAN
    BY DEF Patched, Typed, Shape
  <2>1. CASE solved.ok
    <3>1. y = Cell(solved.prim, solved.cons, x.ok)
      BY <1>6, <1>8, <2>1 DEF Typed, Shape, Cell
    <3> QED BY <1>8, <3>1, CellFields DEF Good, Typed
  <2>2. CASE ~solved.ok
    BY <1>2, <1>6, <2>2, CellFields DEF Good, Typed
  <2> QED BY <2>1, <2>2
<1>10. Bound(x) = CeilCell(y)
  BY DEF Bound
<1> HIDE DEF y
<1> QED BY <1>9, <1>10, CeilGood

Means(r, c, s) ==
  /\ \E lo, hi \in Valid(r, c) : r[lo].prim.rho <= s.rho /\ s.rho <= r[hi].prim.rho
  /\ \E lo, hi \in Valid(r, c) : r[lo].prim.u <= s.u /\ s.u <= r[hi].prim.u

(* The repair takes a cell between its valid neighbours, or near zero.     *)
LEMMA RepairedGood ==
  ASSUME NEW r, \A n \in Row : Good(r[n]) \/ Patched(r[n]),
         NEW c \in Interior, ~r[c].ok
  PROVE  LET y == Repaired(r, c) IN
         /\ Good(y) \/ Patched(y)
         /\ y.ok = r[c].ok
         /\ y.prim = Tiny \/ Means(r, c, y.prim)
<1> DEFINE s == SlowDown(Stencil(r, c))
           y == Repaired(r, c)
<1>1. c \in Int /\ c \in Row /\ Neighbours(c) \subseteq Row
  BY CellsAssumption DEF Interior, Row, Neighbours
<1>2. r[c].ok \in BOOLEAN
  BY <1>1 DEF Good, Patched, Typed, Shape
<1>3. y = Cell(s, s, r[c].ok)
  BY DEF Repaired
<1>4. Tiny \in Values /\ SlowDown(Tiny) = Tiny
  BY InversionAssumption DEF SlowDown, Tiny, State, Values
<1>5. CASE Stencil(r, c) = Tiny
  <2>1. s = Tiny
    BY <1>4, <1>5
  <2> HIDE DEF s, y
  <2>2. Patched(y)
    BY <1>2, <1>3, <1>4, <2>1, CellFields DEF Patched, Typed
  <2>3. y.ok = r[c].ok /\ y.prim = Tiny
    BY <1>3, <2>1 DEF Cell
  <2> QED BY <2>2, <2>3 DEF y
<1>6. CASE Stencil(r, c) # Tiny
  <2>1. Valid(r, c) # {} /\ Stencil(r, c) = Interpolated(r, c)
    BY <1>6 DEF Stencil
  <2>2. \A n \in Neighbours(c) : r[n].prim \in Values /\ r[n].prim # NaN
    BY <1>1, GoodIsNumber DEF Good, Patched, Typed
  <2>3. \A n \in Valid(r, c) : Held(r[n].prim)
    BY <1>1 DEF Valid, Good, Patched
  <2>4. Interpolated(r, c) = Average(r, c)
    BY <2>2 DEF Interpolated
  <2> DEFINE a == Average(r, c)
  <2>5. a \in Values /\ Held(a) /\ Means(r, c, a)
    BY <1>1, <2>1, <2>2, <2>3, MeanHeld DEF Means
  <2> HIDE DEF a
  <2>6. s \in Values /\ Held(s) /\ s.rho = a.rho /\ s.u = a.u
    <3>1. s = SlowDown(a)
      BY <2>1, <2>4 DEF a
    <3> HIDE DEF s
    <3>2. s = IF a # NaN /\ a.w > WMax THEN Rescaled(a) ELSE a
      BY <3>1 DEF SlowDown
    <3> QED BY <2>5, <3>2, RescaledHeld
  <2> HIDE DEF s, y
  <2>7. s \in Values /\ Held(s) /\ Means(r, c, s)
    BY <2>5, <2>6 DEF Means
  <2>8. Good(y) /\ y.prim = s /\ y.ok = r[c].ok
    BY <1>2, <1>3, <2>7, CellFields DEF Good, Typed
  <2> QED BY <2>7, <2>8 DEF y
<1> QED BY <1>5, <1>6

(* With the robust inversion and repairs, every cell has density and       *)
(* energy within bounds but those near zero that wait for the floors, and  *)
(* is no faster than allowed when it was bounded; what the repair has      *)
(* visited lies between the states its valid neighbours had, and have.     *)
BlockBounded(b) ==
  /\ \A c \in Row :
       \/ Good(row[b][c])
       \/ c \in Interior /\ step[b] \in {2, 3, 7, 8} /\ Patched(row[b][c])
  /\ CeilingsBind /\ step[b] \in {4, 9} => \A c \in Row : InBounds(row[b][c].prim)
Repairs(b) ==
  step[b] \in {2, 7} => \A c \in Row :
    /\ row[b][c].ok <=> Seen(b)[c].ok
    /\ c \in pending[b] \/ c \notin Interior \/ row[b][c].ok => row[b][c] = Seen(b)[c]
    /\ c \in Interior \ pending[b] /\ ~row[b][c].ok =>
         row[b][c].prim = Tiny \/ Means(Seen(b), c, row[b][c].prim)
SentValues(b) == sent[b] # <<>> => sent[b][1] \in Values /\ sent[b][2] \in Values

RobustInv ==
  /\ before = [b \in Blocks |-> before[b]] /\ sent = [b \in Blocks |-> sent[b]]
  /\ set.enable_c2p_fixup => set.enable_floors
  /\ Robust /\ set.enable_c2p_fixup =>
       \A b \in Blocks : BlockBounded(b) /\ Repairs(b) /\ SentValues(b)

LEMMA OtherBlocks ==
  ASSUME NEW a \in Blocks, BlockBounded(a), Repairs(a), SentValues(a),
         row'[a] = row[a], step'[a] = step[a], pending'[a] = pending[a],
         before'[a] = before[a], sent'[a] = sent[a], set' = set
  PROVE  BlockBounded(a)' /\ Repairs(a)' /\ SentValues(a)'
<1>1. BlockBounded(a)'
  BY DEF BlockBounded
<1>2. Repairs(a)'
  BY DEF Repairs, Seen
<1>3. SentValues(a)'
  BY DEF SentValues
<1> QED BY <1>1, <1>2, <1>3

LEMMA FillDerivedBounded ==
  ASSUME Shapes, RobustInv, Robust, set.enable_c2p_fixup,
         NEW b \in Blocks, FillDerived(b)
  PROVE  BlockBounded(b)' /\ Repairs(b)'
<1>1. /\ step[b] \in {1, 6} /\ step'[b] \in {2, 7}
      /\ \A c \in Row : row'[b][c] = ConservedToPrimitive(row[b][c])
      /\ pending'[b] = Interior
  BY FillDerivedRow DEF Shapes
<1>2. before'[b] = row'[b]
  BY DEF FillDerived, RobustInv
<1>3. ASSUME NEW c \in Row PROVE Good(row'[b][c])
  <2>1. Good(row[b][c])
    BY <1>1 DEF RobustInv, BlockBounded
  <2> QED BY <1>1, <2>1, InvertedGood
<1>4. BlockBounded(b)'
  BY <1>1, <1>3 DEF BlockBounded
<1>5. Repairs(b)'
  BY <1>1, <1>2 DEF Repairs, Seen
<1> QED BY <1>4, <1>5

LEMMA FixupCellBounded ==
  ASSUME Shapes, RobustInv, Robust, set.enable_c2p_fixup,
         NEW b \in Blocks, NEW c \in Interior, C2PFixupCell(b, c)
  PROVE  BlockBounded(b)' /\ Repairs(b)'
<1> DEFINE r == row[b]
           y == Repaired(r, c)
<1>1. /\ step[b] \in {2, 7} /\ step' = step
      /\ row'[b] = RepairRow(r, c)
      /\ pending'[b] = pending[b] \ {c}
  BY FixupCellRow
<1>2. before' = before
  BY DEF C2PFixupCell
<1>3. /\ \A n \in Row : Good(r[n]) \/ (n \in Interior /\ Patched(r[n]))
      /\ \A n \in Row : r[n].ok <=> Seen(b)[n].ok
      /\ \A n \in Row : n \in pending[b] \/ n \notin Interior \/ r[n].ok => r[n] = Seen(b)[n]
      /\ \A n \in Row : n \in Interior \ pending[b] /\ ~r[n].ok =>
                           r[n].prim = Tiny \/ Means(Seen(b), n, r[n].prim)
      /\ r = [n \in Row |-> r[n]]
  BY <1>1 DEF RobustInv, BlockBounded, Repairs, Shapes
<1>4. c \in Row
  BY Rows
<1>5. CASE r[c].ok
  <2>1. row'[b] = r
    BY <1>1, <1>5 DEF RepairRow
  <2> HIDE DEF r
  <2>2. BlockBounded(b)'
    BY <1>1, <1>3, <2>1 DEF BlockBounded
  <2>3. Repairs(b)'
    BY <1>1, <1>2, <1>3, <1>5, <2>1 DEF Repairs, Seen
  <2> QED BY <2>2, <2>3
<1>6. CASE ~r[c].ok
  <2>1. row'[b] = [r EXCEPT ![c] = y]
    BY <1>1, <1>6 DEF RepairRow
  <2>2. /\ Good(y) \/ Patched(y)
        /\ y.ok = r[c].ok
        /\ y.prim = Tiny \/ Means(r, c, y.prim)
    <3> HIDE DEF r
    <3> QED BY <1>3, <1>6, RepairedGood
  <2> HIDE DEF r, y
  <2>3. row'[b][c] = y /\ \A n \in Row : n # c => row'[b][n] = r[n]
    BY <1>3, <1>4, <2>1
  <2>4. Means(r, c, y.prim) => Means(Seen(b), c, y.prim)
    <3>1. \A n \in Neighbours(c) : n \in Row
      BY CellsAssumption DEF Neighbours, Interior, Row
    <3>2. /\ Valid(r, c) = Valid(Seen(b), c)
          /\ \A n \in Valid(r, c) : r[n] = Seen(b)[n]
      BY <1>3, <3>1 DEF Valid
    <3> QED BY <3>2 DEF Means
  <2>5. BlockBounded(b)'
    BY <1>1, <1>3, <2>2, <2>3 DEF BlockBounded
  <2>6. Repairs(b)'
    <3> SUFFICES ASSUME NEW n \in Row
                 PROVE  /\ row'[b][n].ok <=> Seen(b)[n].ok
                        /\ n \in pending'[b] \/ n \notin Interior \/ row'[b][n].ok =>
                             row'[b][n] = Seen(b)[n]
                        /\ n \in Interior \ pending'[b] /\ ~row'[b][n].ok =>
                             row'[b][n].prim = Tiny \/ Means(Seen(b), n, row'[b][n].prim)
      BY <1>1, <1>2 DEF Repairs, Seen
    <3>1. CASE n = c
      BY <1>1, <1>3, <1>4, <1>6, <2>2, <2>3, <2>4, <3>1
    <3>2. CASE n # c
      BY <1>1, <1>3, <2>3, <3>2
    <3> QED BY <3>1, <3>2
  <2> QED BY <2>5, <2>6
<1> QED BY <1>5, <1>6

LEMMA FloorsBounded ==
  ASSUME Shapes, RobustInv, Robust, set.enable_c2p_fixup,
         NEW b \in Blocks, ApplyFloors(b)
  PROVE  /\ BlockBounded(b)' /\ Repairs(b)'
         /\ \A c \in Row : Good(row[b][c]) /\ InBounds(row[b][c].prim) =>
                              row'[b][c] = row[b][c]
<1>1. /\ step[b] \in {3, 8} /\ step'[b] \in {4, 9}
      /\ \A c \in Row : row'[b][c] = Bound(row[b][c])
  BY FloorsRow DEF Shapes, RobustInv
<1>2. ASSUME NEW c \in Row
      PROVE  Good(row'[b][c]) /\ (CeilingsBind => InBounds(row'[b][c].prim))
  BY <1>1, BoundGood, BoundPatched DEF RobustInv, BlockBounded
<1>3. BlockBounded(b)' /\ Repairs(b)'
  BY <1>1, <1>2 DEF BlockBounded, Repairs
<1> QED BY <1>1, <1>3, BoundGood

LEMMA ConservedReplaced ==
  ASSUME NEW x, Good(x), NEW q \in Values
  PROVE  LET y == [x EXCEPT !.cons = q] IN Good(y) /\ y.cons = q
<1> DEFINE y == [x EXCEPT !.cons = q]
<1>1. y = Cell(x.prim, q, x.ok) /\ x.ok \in BOOLEAN
  BY DEF Good, Typed, Shape, Cell
<1> HIDE DEF y
<1>2. Typed(y) /\ y.prim = x.prim /\ y.cons = q
  BY <1>1, CellFields DEF Good, Typed
<1> QED BY <1>2 DEF Good, y

LEMMA ReceiveBounded ==
  ASSUME Shapes, RobustInv, Robust, set.enable_c2p_fixup,
         NEW b \in Blocks, Receive(b)
  PROVE  BlockBounded(b)' /\ Repairs(b)'
<1>1. step[b] = 5 /\ step'[b] = 6 /\ sent[other(b)] # <<>> /\ other(b) \in Blocks
  BY TaskNumbers DEF Receive, Doing, Advance, Shapes, other, Blocks
<1>2. \A c \in Row : Good(row[b][c])
  BY <1>1 DEF RobustInv, BlockBounded
<1> DEFINE l == sent[other(b)][2]
           h == sent[other(b)][1]
<1>3. l \in Values /\ h \in Values
  BY <1>1 DEF RobustInv, SentValues
<1>4. /\ \A c \in Row \ {0, Width + 1} : row'[b][c] = row[b][c]
      /\ row'[b][0] = [row[b][0] EXCEPT !.cons = l]
      /\ row'[b][Width + 1] = [row[b][Width + 1] EXCEPT !.cons = h]
  BY ReceiveRow
<1> HIDE DEF l, h
<1>5. 0 \in Row /\ Width + 1 \in Row
  BY CellsAssumption DEF Row
<1>6. \A c \in Row : Good(row'[b][c])
  <2>1. Good(row'[b][0]) /\ Good(row'[b][Width + 1])
    BY <1>2, <1>3, <1>4, <1>5, ConservedReplaced
  <2> QED BY <1>2, <1>4, <2>1
<1> QED BY <1>1, <1>6 DEF BlockBounded, Repairs

(* A task of one block changes nothing of the other.                       *)
Acts(b) ==
  \/ FillDerived(b) \/ (\E c \in Interior : C2PFixupCell(b, c))
  \/ C2PFixupEnds(b) \/ ApplyFloors(b) \/ Send(b) \/ Receive(b)

LEMMA Elsewhere ==
  ASSUME Shapes, RobustInv, NEW b \in Blocks, Acts(b)
  PROVE  /\ before' = [a \in Blocks |-> before'[a]] /\ sent' = [a \in Blocks |-> sent'[a]]
         /\ \A a \in Blocks \ {b} : /\ before'[a] = before[a] /\ sent'[a] = sent[a]
                                    /\ pending'[a] = pending[a] /\ step'[a] = step[a]
                                    /\ row'[a] = row[a]
<1>1. /\ before' = [a \in Blocks |-> before'[a]] /\ sent' = [a \in Blocks |-> sent'[a]]
      /\ \A a \in Blocks \ {b} : before'[a] = before[a] /\ sent'[a] = sent[a]
                                 /\ pending'[a] = pending[a] /\ step'[a] = step[a]
  BY DEF Acts, RobustInv, Shapes, FillDerived, C2PFixupCell, C2PFixupEnds, ApplyFloors,
              Send, Receive, Advance
<1>2. \A a \in Blocks \ {b} : row'[a] = row[a]
  <2>1. CASE FillDerived(b)
    BY <2>1, FillDerivedRow
  <2>2. CASE \E c \in Interior : C2PFixupCell(b, c)
    BY <2>2, FixupCellRow
  <2>3. CASE ApplyFloors(b)
    BY <2>3, FloorsRow
  <2>4. CASE Receive(b)
    BY <2>4, ReceiveRow
  <2>5. CASE C2PFixupEnds(b) \/ Send(b)
    BY <2>5 DEF C2PFixupEnds, Send
  <2> QED BY <2>1, <2>2, <2>3, <2>4, <2>5 DEF Acts
<1> QED BY <1>1, <1>2

LEMMA StepBounded == Shapes /\ RobustInv /\ [Next]_vars => RobustInv'
<1> SUFFICES ASSUME Shapes, RobustInv, [Next]_vars PROVE RobustInv'
  OBVIOUS
<1>1. set' = set
  BY DEF Next, Finished, vars, FillDerived, C2PFixupCell, C2PFixupEnds, ApplyFloors, Send, Receive
<1>2. CASE UNCHANGED vars
  BY <1>2, OtherBlocks DEF vars, RobustInv, Robust
<1>3. ASSUME NEW b \in Blocks,
             \/ FillDerived(b) \/ (\E c \in Interior : C2PFixupCell(b, c))
             \/ C2PFixupEnds(b) \/ ApplyFloors(b) \/ Send(b) \/ Receive(b)
      PROVE  RobustInv'
  <2>1. /\ before' = [a \in Blocks |-> before'[a]] /\ sent' = [a \in Blocks |-> sent'[a]]
        /\ \A a \in Blocks \ {b} : /\ before'[a] = before[a] /\ sent'[a] = sent[a]
                                   /\ pending'[a] = pending[a] /\ step'[a] = step[a]
                                   /\ row'[a] = row[a]
    BY <1>3, Elsewhere DEF Acts
  <2>2. ASSUME Robust, set.enable_c2p_fixup
        PROVE  BlockBounded(b)' /\ Repairs(b)' /\ SentValues(b)'
    <3> USE <2>2
    <3>1. BlockBounded(b) /\ SentValues(b)
      BY DEF RobustInv
    <3>2. CASE ~Send(b)
      <4>1. SentValues(b)'
        <5>1. sent' = sent
          BY <1>3, <3>2 DEF FillDerived, C2PFixupCell, C2PFixupEnds, ApplyFloors, Receive
        <5> QED BY <3>1, <5>1 DEF SentValues
      <4>2. CASE C2PFixupEnds(b)
        <5>1. step[b] \in {2, 7} /\ step'[b] \in {3, 8} /\ row' = row
          BY <4>2, TaskNumbers DEF C2PFixupEnds, Doing, Advance, Shapes
        <5> QED BY <3>1, <4>1, <5>1 DEF BlockBounded, Repairs
      <4> QED BY <1>3, <3>2, <4>1, <4>2, FillDerivedBounded, FixupCellBounded,
                 FloorsBounded, ReceiveBounded
    <3>3. CASE Send(b)
      <4>1. step[b] = 4 /\ step'[b] = 5 /\ row' = row
        BY <3>3, TaskNumbers DEF Send, Doing, Advance, Shapes
      <4>2. 1 \in Row /\ Width \in Row
        BY CellsAssumption DEF Row
      <4>3. sent'[b] = <<row[b][1].cons, row[b][Width].cons>>
        BY <3>3 DEF Send, RobustInv
      <4>4. \A c \in Row : row[b][c].cons \in Values
        BY <3>1 DEF BlockBounded, Good, Patched, Typed
      <4> QED BY <3>1, <4>1, <4>2, <4>3, <4>4 DEF BlockBounded, Repairs, SentValues
    <3> QED BY <3>2, <3>3
  <2>3. ASSUME Robust, set.enable_c2p_fixup, NEW a \in Blocks \ {b}
        PROVE  BlockBounded(a)' /\ Repairs(a)' /\ SentValues(a)'
    BY <1>1, <2>1, <2>3, OtherBlocks DEF RobustInv
  <2> QED BY <1>1, <2>1, <2>2, <2>3 DEF RobustInv, Robust
<1> QED BY <1>2, <1>3 DEF Next, Finished

LEMMA InitBounded == Init => RobustInv
<1> SUFFICES ASSUME Init PROVE RobustInv
  OBVIOUS
<1>1. \A b \in Blocks : \A c \in Row :
        row[b][c] = Cell(Old, IF c \in Interior THEN updated[b][c] ELSE Old, TRUE)
  BY DEF Init
<1>2. Old \in Values /\ Held(Old)
  <2> DEFINE r == 2 * RhoFloor
             e == SieFloor * RhoFloor
  <2>1. r \in Int /\ r >= RhoFloor /\ e \in Int /\ e >= 0
        /\ r * SieFloor = 2 * e /\ RhoFloor * SieFloor = e
    BY InversionAssumption
  <2>2. r * SieFloor <= r * SieMax /\ r * SieMax = SieMax * r
    BY <2>1, Product, InversionAssumption
  <2>3. Old = State(r, 2 * e, 0)
    BY <2>1 DEF Old
  <2> HIDE DEF r, e
  <2> QED BY <2>1, <2>2, <2>3, InversionAssumption
          DEF Held, FloorsHold, State, NaN, Values
<1>3. updated \in [Blocks -> [Interior -> Values]]
  BY CellsAssumption DEF Init, Values
<1>4. ASSUME NEW b \in Blocks PROVE BlockBounded(b)
  <2> SUFFICES ASSUME NEW c \in Row PROVE Good(row[b][c])
    <3>1. step[b] = 1
      BY DEF Init
    <3> QED BY <3>1 DEF BlockBounded
  <2> DEFINE q == IF c \in Interior THEN updated[b][c] ELSE Old
  <2>1. row[b][c] = Cell(Old, q, TRUE) /\ q \in Values
    BY <1>1, <1>2, <1>3
  <2> HIDE DEF q
  <2> QED BY <1>2, <2>1 DEF Good, Typed, Shape, Cell
<1>5. \A b \in Blocks : Repairs(b) /\ SentValues(b)
  BY DEF Init, Repairs, SentValues
<1>6. set.enable_c2p_fixup => set.enable_floors
  <2>1. PICK o \in Options : set = [o EXCEPT !.enable_floors = @ \/ o.enable_c2p_fixup]
    BY DEF Init, Forced
  <2> QED BY <2>1, CellsAssumption DEF Parameters
<1>7. before = [b \in Blocks |-> before[b]] /\ sent = [b \in Blocks |-> sent[b]]
  BY DEF Init
<1> QED BY <1>4, <1>5, <1>6, <1>7 DEF RobustInv

LEMMA Bounding == Spec => [](Shapes /\ RobustInv)
<1>1. Shapes /\ RobustInv /\ [Next]_vars => (Shapes /\ RobustInv)'
  <2> SUFFICES ASSUME Shapes, RobustInv, [Next]_vars PROVE Shapes' /\ RobustInv'
    OBVIOUS
  <2>1. CASE UNCHANGED vars
    BY <2>1, StepBounded DEF vars, Shapes
  <2>2. CASE Next
    BY <2>2, StepBounded, FillDerivedRow, FixupCellRow, FloorsRow, OtherRow
       DEF Next, Finished, vars, Shapes
  <2> QED BY <2>1, <2>2
<1> QED BY <1>1, InitShapes, InitBounded, PTL DEF Spec

(* With the robust inversion and repairs every interior cell leaves the    *)
(* bounds of a stage within floors and ceilings, whatever the update left  *)
(* and even where a cell and its neighbours could not be inverted, or the  *)
(* inversion wrote more than gamma_max.  (gamma_max^2 is 2 or more.)       *)
THEOREM RobustBounded == Spec => []RobustCellsBounded
<1>1. Shapes /\ RobustInv => RobustCellsBounded
  <2> SUFFICES ASSUME Shapes, RobustInv, Robust, set.enable_c2p_fixup, CeilingsBind,
                      NEW b \in Blocks, Bounded(b), NEW c \in Interior
               PROVE  InBounds(row[b][c].prim)
    BY DEF RobustCellsBounded
  <2>1. step[b] \in {4, 9}
    BY TaskNumbers DEF Bounded, Done, Doing, Shapes
  <2>2. c \in Row /\ BlockBounded(b)
    BY Rows DEF RobustInv
  <2> QED BY <2>1, <2>2 DEF BlockBounded
<1> QED BY <1>1, Bounding, PTL

(* Whatever the order in which the kernel visits the cells, a repaired one *)
(* lies between what its valid neighbours were before, or is near zero.    *)
THEOREM RepairsOnlyInterpolate == Spec => []RepairsInterpolate
<1>1. Shapes /\ RobustInv => RepairsInterpolate
  <2> SUFFICES ASSUME Shapes, RobustInv, Robust, set.enable_c2p_fixup,
                      NEW b \in Blocks, Doing(b, "C2PFixup"),
                      NEW c \in Interior \ pending[b], ~Seen(b)[c].ok
               PROVE  \/ row[b][c].prim = Tiny
                      \/ /\ Between(row[b][c].prim, "rho", b, c)
                         /\ Between(row[b][c].prim, "u", b, c)
    BY DEF RepairsInterpolate
  <2>1. step[b] \in {2, 7}
    BY TaskNumbers DEF Doing, Shapes
  <2>2. c \in Row /\ Repairs(b)
    BY Rows DEF RobustInv
  <2>3. row[b][c].prim = Tiny \/ Means(Seen(b), c, row[b][c].prim)
    BY <2>1, <2>2 DEF Repairs
  <2> QED BY <2>3 DEF Means, Between
<1> QED BY <1>1, Bounding, PTL

----------------------------------------------------------------------------
(* The ghosts of a block and the cells of the other they are copies of     *)

(* The conserved states sent stay those of the cells next to the other     *)
(* block until these are inverted again, and are what its ghosts are       *)
(* inverted from; neither inversion fails, so that no repair comes between *)
Edge(i) == IF i = 1 THEN 1 ELSE Width
Ghost(i) == IF i = 1 THEN Width + 1 ELSE 0
Sends(b) ==
  /\ sent[b] # <<>> <=> step[b] \in 5 .. 9
  /\ step[b] \in 5 .. 9 => \A i \in {1, 2} :
       /\ sent[b][i] \in Values /\ InBounds(sent[b][i])
       /\ step[b] \in 5 .. 6 => row[b][Edge(i)].cons = sent[b][i]
       /\ step[b] \in 7 .. 9 => /\ row[b][Edge(i)].ok
                                /\ row[b][Edge(i)].prim = Clamped(sent[b][i])
Receives(b) ==
  step[b] \in 6 .. 9 => \A i \in {1, 2} :
    /\ sent[other(b)] # <<>>
    /\ step[b] = 6 => row[b][Ghost(i)].cons = sent[other(b)][i]
    /\ step[b] \in 7 .. 9 => row[b][Ghost(i)].prim = Clamped(sent[other(b)][i])
Copying == Robust /\ set.enable_c2p_fixup /\ ~set.c2p_fail_on_floors /\ CeilingsBind
CopyInv == Copying => \A b \in Blocks : Sends(b) /\ Receives(b)

LEMMA Edges ==
  ASSUME NEW i \in {1, 2}
  PROVE  /\ Edge(i) \in Interior /\ Edge(i) \in Row
         /\ Ghost(i) \in Row /\ Ghost(i) \notin Interior
BY CellsAssumption DEF Edge, Ghost, Interior, Row

LEMMA OtherBlock ==
  ASSUME NEW b \in Blocks
  PROVE  other(b) \in Blocks /\ other(b) # b /\ \A a \in Blocks : a # b => other(a) = b
BY DEF other, Blocks

(* What the two conditions say of a block.                                 *)
LEMMA Copies ==
  ASSUME Shapes, CopyInv, Copying, NEW b \in Blocks, NEW i \in {1, 2}
  PROVE  /\ sent[b] # <<>> <=> step[b] \in 5 .. 9
         /\ step[b] \in 5 .. 9 => sent[b][i] \in Values /\ InBounds(sent[b][i])
         /\ step[b] \in 5 .. 6 => row[b][Edge(i)].cons = sent[b][i]
         /\ step[b] \in 7 .. 9 => /\ row[b][Edge(i)].ok
                                  /\ row[b][Edge(i)].prim = Clamped(sent[b][i])
         /\ step[b] \in 6 .. 9 => sent[other(b)] # <<>>
         /\ step[b] \in 6 .. 9 => sent[other(b)][i] \in Values /\ InBounds(sent[other(b)][i])
         /\ step[b] = 6 => row[b][Ghost(i)].cons = sent[other(b)][i]
         /\ step[b] \in 7 .. 9 => row[b][Ghost(i)].prim = Clamped(sent[other(b)][i])
<1>1. /\ sent[b] # <<>> <=> step[b] \in 5 .. 9
      /\ step[b] \in 5 .. 9 => sent[b][i] \in Values /\ InBounds(sent[b][i])
      /\ step[b] \in 5 .. 6 => row[b][Edge(i)].cons = sent[b][i]
      /\ step[b] \in 7 .. 9 => /\ row[b][Edge(i)].ok
                               /\ row[b][Edge(i)].prim = Clamped(sent[b][i])
  <2>1. Sends(b)
    BY DEF CopyInv
  <2> QED BY <2>1 DEF Sends
<1>2. /\ step[b] \in 6 .. 9 => sent[other(b)] # <<>>
      /\ step[b] = 6 => row[b][Ghost(i)].cons = sent[other(b)][i]
      /\ step[b] \in 7 .. 9 => row[b][Ghost(i)].prim = Clamped(sent[other(b)][i])
  <2>1. Receives(b)
    BY DEF CopyInv
  <2> QED BY <2>1 DEF Receives
<1>3. other(b) \in Blocks
  BY OtherBlock
<1>4. sent[other(b)] # <<>> => sent[other(b)][i] \in Values /\ InBounds(sent[other(b)][i])
  BY <1>3 DEF CopyInv, Sends
<1> QED BY <1>1, <1>2, <1>4

LEMMA FillDerivedCopies ==
  ASSUME Shapes, RobustInv, CopyInv, Copying, NEW b \in Blocks, FillDerived(b)
  PROVE  Sends(b)' /\ Receives(b)'
<1>1. /\ step[b] \in {1, 6} /\ step'[b] = step[b] + 1 /\ sent' = sent
      /\ \A c \in Row : row'[b][c] = ConservedToPrimitive(row[b][c])
  <2>1. \A c \in Row : row'[b][c] = ConservedToPrimitive(row[b][c])
    BY FillDerivedRow
  <2>2. Doing(b, "FillDerived") /\ Advance(b) /\ sent' = sent
    BY DEF FillDerived
  <2>3. step[b] \in {1, 6} /\ step'[b] = step[b] + 1
    BY <2>2, TaskNumbers DEF Shapes, Advance, Doing
  <2> QED BY <2>1, <2>2, <2>3
<1>2. CASE step[b] = 1
  BY <1>1, <1>2 DEF CopyInv, Sends, Receives
<1>3. CASE step[b] = 6
  <2>1. \A c \in Row : Good(row[b][c])
    BY <1>3 DEF RobustInv, BlockBounded, Copying
  <2>2. ASSUME NEW c \in Row, InBounds(row[b][c].cons)
        PROVE  row'[b][c].ok /\ row'[b][c].prim = Clamped(row[b][c].cons)
    BY <1>1, <2>1, <2>2, InvertedGood DEF Copying, InBounds
  <2>3. ASSUME NEW i \in {1, 2}
        PROVE  /\ sent[b][i] \in Values /\ InBounds(sent[b][i])
               /\ row'[b][Edge(i)].ok /\ row'[b][Edge(i)].prim = Clamped(sent[b][i])
               /\ row'[b][Ghost(i)].prim = Clamped(sent[other(b)][i])
               /\ sent[b] # <<>> /\ sent[other(b)] # <<>>
    BY <1>3, <2>2, Copies, Edges
  <2> QED BY <1>1, <1>3, <2>3 DEF Sends, Receives
<1> QED BY <1>1, <1>2, <1>3

(* Repairs and bounds change neither a cell that was inverted nor a ghost. *)
LEMMA KeptCopies ==
  ASSUME Shapes, CopyInv, Copying, NEW b \in Blocks, sent' = sent,
         \/ step[b] \in {2, 3} /\ step'[b] \in {2, 3, 4}
         \/ step[b] \in {7, 8} /\ step'[b] \in {7, 8, 9},
         step[b] \in {7, 8} => \A i \in {1, 2} :
           /\ row[b][Edge(i)].ok => row'[b][Edge(i)] = row[b][Edge(i)]
           /\ row'[b][Ghost(i)] = row[b][Ghost(i)]
  PROVE  Sends(b)' /\ Receives(b)'
<1>1. CASE step[b] \in {2, 3}
  BY <1>1 DEF CopyInv, Sends, Receives
<1>2. CASE step[b] \in {7, 8}
  <2>1. ASSUME NEW i \in {1, 2}
        PROVE  /\ sent[b][i] \in Values /\ InBounds(sent[b][i])
               /\ row'[b][Edge(i)].ok /\ row'[b][Edge(i)].prim = Clamped(sent[b][i])
               /\ row'[b][Ghost(i)].prim = Clamped(sent[other(b)][i])
               /\ sent[b] # <<>> /\ sent[other(b)] # <<>>
    BY <1>2, Copies
  <2> QED BY <1>2, <2>1 DEF Sends, Receives
<1> QED BY <1>1, <1>2

LEMMA FixupCopies ==
  ASSUME Shapes, CopyInv, Copying, NEW b \in Blocks,
         C2PFixupEnds(b) \/ \E c \in Interior : C2PFixupCell(b, c)
  PROVE  Sends(b)' /\ Receives(b)'
<1>1. CASE C2PFixupEnds(b)
  <2>1. step[b] \in {2, 7} /\ step' = [step EXCEPT ![b] = @ + 1]
    BY <1>1, TaskNumbers DEF C2PFixupEnds, Doing, Advance, Shapes
  <2>3. step'[b] = step[b] + 1
    BY <2>1 DEF Shapes
  <2>2. sent' = sent /\ row' = row
    BY <1>1 DEF C2PFixupEnds
  <2> QED BY <2>1, <2>2, <2>3, KeptCopies
<1>2. ASSUME NEW c \in Interior, C2PFixupCell(b, c) PROVE Sends(b)' /\ Receives(b)'
  <2>1. /\ step[b] \in {2, 7} /\ step' = step /\ sent' = sent
        /\ row'[b] = RepairRow(row[b], c)
    BY <1>2, FixupCellRow DEF C2PFixupCell
  <2>2. c \in Row /\ row[b] = [k \in Row |-> row[b][k]] /\ Shape(row[b][c])
    BY Rows DEF Shapes
  <2>3. /\ \A k \in Row : k # c => row'[b][k] = row[b][k]
        /\ row[b][c].ok => row'[b][c] = row[b][c]
    BY <2>1, <2>2, RepairShape
  <2>4. \A i \in {1, 2} :
           /\ row[b][Edge(i)].ok => row'[b][Edge(i)] = row[b][Edge(i)]
           /\ row'[b][Ghost(i)] = row[b][Ghost(i)]
    BY <2>3, Edges
  <2> QED BY <2>1, <2>4, KeptCopies
<1> QED BY <1>1, <1>2

LEMMA FloorsCopies ==
  ASSUME Shapes, RobustInv, CopyInv, Copying, NEW b \in Blocks, ApplyFloors(b)
  PROVE  Sends(b)' /\ Receives(b)'
<1>1. /\ step[b] \in {3, 8} /\ step'[b] = step[b] + 1 /\ sent' = sent
  <2>1. step[b] \in {3, 8} /\ step' = [step EXCEPT ![b] = @ + 1]
    BY FloorsRow
  <2>2. step \in [Blocks -> 1 .. 9]
    BY DEF Shapes
  <2>3. sent' = sent
    BY DEF ApplyFloors
  <2> QED BY <2>1, <2>2, <2>3
<1>2. \A c \in Row : Good(row[b][c]) /\ InBounds(row[b][c].prim) => row'[b][c] = row[b][c]
  BY FloorsBounded DEF Copying
<1>3. \A c \in Row : row[b][c].ok \/ c \notin Interior => Good(row[b][c])
  BY DEF RobustInv, Copying, BlockBounded, Patched
<1>4. ASSUME step[b] \in {7, 8}, NEW i \in {1, 2}
      PROVE  /\ row[b][Edge(i)].ok => row'[b][Edge(i)] = row[b][Edge(i)]
             /\ row'[b][Ghost(i)] = row[b][Ghost(i)]
  <2>1. /\ row[b][Edge(i)].prim = Clamped(sent[b][i])
        /\ row[b][Ghost(i)].prim = Clamped(sent[other(b)][i])
        /\ sent[b][i] \in Values /\ InBounds(sent[b][i])
        /\ sent[other(b)][i] \in Values /\ InBounds(sent[other(b)][i])
    BY <1>4, Copies
  <2>2. InBounds(Clamped(sent[b][i])) /\ InBounds(Clamped(sent[other(b)][i]))
    BY <2>1, ClampedHeld, HeldInBounds
  <2> QED BY <1>2, <1>3, <2>1, <2>2, Edges
<1> QED BY <1>1, <1>4, KeptCopies

(* What Send copies: the conserved state of both end cells as they are.   *)
LEMMA SendTakesEnds ==
  ASSUME step \in [Blocks -> 1 .. 9], sent = [d \in Blocks |-> sent[d]],
         NEW b \in Blocks, Send(b)
  PROVE  /\ step[b] = 4 /\ step'[b] = 5 /\ row' = row
         /\ sent'[b] = <<row[b][1].cons, row[b][Width].cons>>
<1>1. step[b] = 4
  BY TaskNumbers DEF Send, Doing
<1>2. step'[b] = 5
  BY <1>1 DEF Send, Advance
<1>3. row' = row
  BY DEF Send
<1>4. sent' = [sent EXCEPT ![b] = <<row[b][1].cons, row[b][Width].cons>>]
  BY DEF Send
<1>5. sent'[b] = <<row[b][1].cons, row[b][Width].cons>>
  BY <1>4
<1> QED BY <1>1, <1>2, <1>3, <1>5

LEMMA SendCopies ==
  ASSUME Shapes, Matching, RobustInv, CopyInv, Copying, NEW b \in Blocks, Send(b)
  PROVE  Sends(b)' /\ Receives(b)'
<1>1. /\ step[b] = 4 /\ step'[b] = 5 /\ row' = row
      /\ sent'[b] = <<row[b][1].cons, row[b][Width].cons>>
  <2>1. step \in [Blocks -> 1 .. 9]
    BY DEF Shapes
  <2>2. sent = [d \in Blocks |-> sent[d]]
    BY DEF RobustInv
  <2> QED BY <2>1, <2>2, SendTakesEnds
<1>2. \A i \in {1, 2} : sent'[b][i] = row[b][Edge(i)].cons
  BY <1>1 DEF Edge
<1>3. \A c \in Interior : row[b][c].cons \in Values /\ InBounds(row[b][c].cons)
  <2> SUFFICES ASSUME NEW c \in Interior
               PROVE  row[b][c].cons \in Values /\ InBounds(row[b][c].cons)
    OBVIOUS
  <2>1. Good(row[b][c]) /\ InBounds(row[b][c].prim)
    BY <1>1, Rows DEF RobustInv, BlockBounded, Copying
  <2>2. row[b][c].prim = row[b][c].cons
    BY <1>1 DEF Matching, Together, Same, Copying
  <2> QED BY <2>1, <2>2 DEF Good, Typed
<1>4. sent'[b] # <<>>
  BY <1>1
<1> QED BY <1>1, <1>2, <1>3, <1>4, Edges DEF Sends, Receives

LEMMA ReceiveCopies ==
  ASSUME Shapes, CopyInv, Copying, NEW b \in Blocks, Receive(b)
  PROVE  Sends(b)' /\ Receives(b)'
<1>1. /\ step[b] = 5 /\ step'[b] = 6 /\ sent' = sent /\ sent[other(b)] # <<>>
  BY TaskNumbers DEF Receive, Doing, Advance, Shapes
<1> DEFINE l == sent[other(b)][2]
           h == sent[other(b)][1]
<1>2. /\ \A c \in Row \ {0, Width + 1} : row'[b][c] = row[b][c]
      /\ row'[b][0] = [row[b][0] EXCEPT !.cons = l]
      /\ row'[b][Width + 1] = [row[b][Width + 1] EXCEPT !.cons = h]
  BY ReceiveRow
<1>3. 0 \in Row /\ Width + 1 \in Row /\ Shape(row[b][0]) /\ Shape(row[b][Width + 1])
  <2>1. 0 \in Row /\ Width + 1 \in Row
    BY CellsAssumption DEF Row
  <2> QED BY <2>1 DEF Shapes
<1> HIDE DEF l, h
<1>4. row'[b][0].cons = l /\ row'[b][Width + 1].cons = h
  BY <1>2, <1>3 DEF Shape, Cell
<1>5. ASSUME NEW i \in {1, 2}
      PROVE  /\ sent[b][i] \in Values /\ InBounds(sent[b][i]) /\ sent[b] # <<>>
             /\ row'[b][Edge(i)].cons = sent[b][i]
             /\ row'[b][Ghost(i)].cons = sent[other(b)][i]
  <2>1. row'[b][Edge(i)] = row[b][Edge(i)]
    BY <1>2, Edges, Rows
  <2>2. row'[b][Ghost(i)].cons = sent[other(b)][i]
    BY <1>4 DEF Ghost, l, h
  <2> QED BY <1>1, <2>1, <2>2, Copies
<1> QED BY <1>1, <1>5 DEF Sends, Receives

(* A block keeps its copies while the other works: what the other sent is  *)
(* replaced only by its own Send, before which it had sent nothing.        *)
LEMMA CopiesElsewhere ==
  ASSUME Shapes, RobustInv, CopyInv, Copying, NEW b \in Blocks, Acts(b),
         NEW a \in Blocks, a # b
  PROVE  Sends(a)' /\ Receives(a)'
<1>1. Sends(a) /\ Receives(a) /\ Sends(b) /\ other(a) = b
  BY OtherBlock DEF CopyInv
<1>2. /\ sent'[a] = sent[a] /\ step'[a] = step[a] /\ row'[a] = row[a]
  BY Elsewhere
<1>3. Sends(a)'
  BY <1>1, <1>2 DEF Sends
<1>4. CASE ~Send(b)
  <2>1. sent' = sent
    BY <1>4 DEF Acts, FillDerived, C2PFixupCell, C2PFixupEnds, ApplyFloors, Receive
  <2>2. Receives(a)'
    BY <1>1, <1>2, <2>1 DEF Receives
  <2> QED BY <1>3, <2>2
<1>5. CASE Send(b)
  <2>1. step[b] = 4
    BY <1>5, TaskNumbers DEF Send, Doing, Shapes
  <2>2. ~(sent[b] # <<>>)
    BY <1>1, <2>1 DEF Sends
  <2>3. step[a] \notin 6 .. 9
    BY <1>1, <2>2 DEF Receives
  <2> QED BY <1>2, <1>3, <2>3 DEF Receives
<1> QED BY <1>4, <1>5

LEMMA StepCopies ==
  Shapes /\ Matching /\ RobustInv /\ CopyInv /\ [Next]_vars => CopyInv'
<1> SUFFICES ASSUME Shapes, Matching, RobustInv, CopyInv, [Next]_vars, Copying'
             PROVE  \A a \in Blocks : Sends(a)' /\ Receives(a)'
  BY DEF CopyInv
<1>1. set' = set
  BY DEF Next, Finished, vars, FillDerived, C2PFixupCell, C2PFixupEnds, ApplyFloors, Send, Receive
<1>2. Copying
  BY <1>1 DEF Copying, Robust
<1>3. CASE UNCHANGED vars
  BY <1>2, <1>3 DEF vars, CopyInv, Sends, Receives
<1>4. ASSUME NEW b \in Blocks, Acts(b)
      PROVE  \A a \in Blocks : Sends(a)' /\ Receives(a)'
  <2>1. Sends(b)' /\ Receives(b)'
    BY <1>2, <1>4, FillDerivedCopies, FixupCopies, FloorsCopies, SendCopies, ReceiveCopies
       DEF Acts
  <2>2. ASSUME NEW a \in Blocks, a # b PROVE Sends(a)' /\ Receives(a)'
    BY <1>2, <1>4, <2>2, CopiesElsewhere
  <2> QED BY <2>1, <2>2
<1> QED BY <1>3, <1>4 DEF Next, Finished, Acts

(* After the exchange both blocks of a face have the primitives of its     *)
(* cells in common, although each inverts and bounds its own copy.         *)
THEOREM GhostsCopyOwners == Spec => []GhostsMatchOwners
<1>1. Init => Matching /\ CopyInv
  BY DEF Init, Matching, Together, CopyInv, Sends, Receives
<1>2. Shapes /\ CopyInv => GhostsMatchOwners
  <2> SUFFICES ASSUME Shapes, CopyInv, Copying, \A b \in Blocks : Done(b),
                      NEW b \in Blocks, NEW c \in Row \ Interior
               PROVE  row[b][c].prim = Owner(b, c).prim
    BY DEF GhostsMatchOwners, Copying
  <2>1. other(b) \in Blocks
    BY OtherBlock
  <2>2. step[b] = 9 /\ step[other(b)] = 9
    BY <2>1, TaskNumbers DEF Done, Doing, Shapes
  <2>3. PICK i \in {1, 2} : c = Ghost(i) /\ Edge(i) = IF c = 0 THEN Width ELSE 1
    <3>1. c = 0 \/ c = Width + 1
      BY CellsAssumption DEF Row, Interior
    <3>2. CASE c = 0
      BY <3>2 DEF Ghost, Edge
    <3>3. CASE c = Width + 1
      BY <3>3, CellsAssumption DEF Ghost, Edge
    <3> QED BY <3>1, <3>2, <3>3
  <2>4. row[b][Ghost(i)].prim = Clamped(sent[other(b)][i])
    BY <2>2, Copies
  <2>5. row[other(b)][Edge(i)].prim = Clamped(sent[other(b)][i])
    BY <2>1, <2>2, Copies
  <2> QED BY <2>3, <2>4, <2>5 DEF Owner
<1>3. Shapes /\ Matching /\ RobustInv /\ CopyInv /\ [Next]_vars
        => (Shapes /\ Matching /\ RobustInv /\ CopyInv)'
  BY StepMatching, StepBounded, StepCopies
<1> QED BY <1>1, <1>2, <1>3, InitShapes, InitBounded, PTL DEF Spec

=============================================================================
