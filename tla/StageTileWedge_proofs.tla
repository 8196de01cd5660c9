------------------------ MODULE StageTileWedge_proofs ------------------------
(***************************************************************************)
(* Proofs about StageTileWedge, for any tile, camera, directions and step  *)
(* scale: which marches their bound cuts short, and, of steps no longer    *)
(* than a tile, that every march ends on the border and the walk between   *)
(* the two exits closes within a lap.                                      *)
(***************************************************************************)
EXTENDS StageTileWedge, TLAPS

-----------------------------------------------------------------------------
(***************************************************************************)
(* Division.                                                               *)
(***************************************************************************)
LEMMA DivBounds ==
  ASSUME NEW n \in Int, NEW d \in Nat \ {0}
  PROVE  n \div d \in Int /\ d * (n \div d) <= n /\ n < d * (n \div d) + d
OBVIOUS

\* A quotient is a coordinate of the block from a tile before it, exclusive, to
\* its far edge: division rounds toward zero.
InReach(n, t) == -t < n /\ n < Span * t

LEMMA QuotientInBlock ==
  ASSUME NEW n \in Int, NEW t \in Nat \ {0}
  PROVE  /\ Quotient(n, t) \in Int
         /\ Quotient(n, t) \in 0 .. Last <=> InReach(n, t)
         /\ InReach(n, t) /\ n <= 0 => Quotient(n, t) = 0
         /\ InReach(n, t) /\ n >= Last * t => Quotient(n, t) = Last
<1>1. CASE n >= 0
  <2>1. PICK q \in Int : q = n \div t /\ t * q <= n /\ n < t * q + t
    BY DivBounds
  <2>2. q >= 0
    BY <1>1, <2>1
  <2>3. n < 6 * t <=> q <= 5
    <3>1. ASSUME q <= 5 PROVE n < 6 * t
      BY <2>1, <2>2, <3>1
    <3>2. ASSUME n < 6 * t PROVE q <= 5
      BY <2>1, <2>2, <3>2
    <3> QED
      BY <3>1, <3>2
  <2>4. n <= 0 => q = 0
    BY <1>1, <2>1, <2>2
  <2>5. n >= 5 * t /\ n < 6 * t => q = 5
    BY <2>1, <2>2
  <2> QED
    BY <1>1, <2>1, <2>2, <2>3, <2>4, <2>5 DEF Quotient, InReach, Span, Last
<1>2. CASE n < 0
  <2>1. PICK q \in Int : q = (-n) \div t /\ t * q <= -n /\ -n < t * q + t
    BY DivBounds
  <2>2. q >= 0
    BY <1>2, <2>1
  <2>3. -t < n <=> q = 0
    BY <1>2, <2>1, <2>2
  <2> QED
    BY <1>2, <2>1, <2>2, <2>3 DEF Quotient, InReach, Span, Last
<1> QED
  BY <1>1, <1>2

-----------------------------------------------------------------------------
(***************************************************************************)
(* One axis of a march.                                                    *)
(***************************************************************************)
\* The steps an axis is said to need lead across the block and a step further.
LEMMA AxisStepsCross ==
  ASSUME tile \in Nat \ {0}, NEW s \in Int \ {0}
  PROVE  AxisSteps(s) \in Nat \ {0} /\ AxisSteps(s) * Abs(s) >= Span * tile + Abs(s)
<1>1. PICK m \in Nat \ {0} : m = Abs(s)
  BY DEF Abs
<1>2. PICK n \in Nat : n = Span * tile
  BY DEF Span
<1>3. PICK q \in Int : q = (n + m - 1) \div m /\ n + m - 1 < m * q + m
  <2>1. PICK k \in Int : k = n + m - 1
    OBVIOUS
  <2>2. k \div m \in Int /\ k < m * (k \div m) + m
    BY DivBounds
  <2> QED
    BY <2>1, <2>2
<1>4. m * q >= n
  BY <1>1, <1>2, <1>3
<1>5. q >= 0
  BY <1>1, <1>2, <1>4
<1>6. (q + 1) * m = m * q + m
  BY <1>1, <1>3
<1>7. AxisSteps(s) = q + 1
  BY <1>1, <1>2, <1>3 DEF AxisSteps, CeilingOf
<1>8. m * q + m >= n + m
  BY <1>1, <1>2, <1>3, <1>4
<1>9. (q + 1) * m >= n + m
  BY <1>6, <1>8
<1>10. AxisSteps(s) \in Nat \ {0}
  BY <1>3, <1>5, <1>7
<1>11. AxisSteps(s) * Abs(s) = (q + 1) * m
  BY <1>1, <1>7, Zenon
<1> QED
  BY <1>1, <1>2, <1>9, <1>10, <1>11, Zenon

\* After that many steps the axis is out of the block, unless it moves down from
\* the block's last tile; then it is in the tile before the block.
LEMMA AxisAtItsBound ==
  ASSUME tile \in Nat \ {0}, NEW s \in Int \ {0}, NEW o \in Int, 0 <= o, o < Span * tile,
         NEW p \in Int, p = o + AxisSteps(s) * s, InReach(p, tile)
  PROVE  s < 0 /\ o > Last * tile /\ p - s < 0
<1>1. PICK b \in Nat : b = AxisSteps(s)
  BY AxisStepsCross
<1>2. CASE s > 0
  <2>1. b * s >= 6 * tile + s
    BY <1>1, <1>2, AxisStepsCross DEF Abs, Span
  <2>2. p = o + b * s
    BY <1>1
  <2> QED
    BY <1>2, <2>1, <2>2 DEF InReach, Span
<1>3. CASE s < 0
  <2>1. b * (-s) >= 6 * tile - s
    BY <1>1, <1>3, AxisStepsCross DEF Abs, Span
  <2>2. p = o + b * s /\ b * (-s) = -(b * s)
    BY <1>1
  <2>3. p <= o - 6 * tile + s
    BY <2>1, <2>2
  <2> QED
    BY <1>3, <2>3 DEF InReach, Span, Last
<1> QED
  BY <1>2, <1>3

\* A step no longer than a tile leaves the block from a tile of its edge.
LEMMA AxisLeavesFromEdge ==
  ASSUME NEW t \in Nat \ {0}, NEW s \in Int, Abs(s) <= t, NEW p \in Int,
         InReach(p - s, t), ~InReach(p, t)
  PROVE  Quotient(p - s, t) \in {0, Last}
<1>1. p - s <= 0 \/ p - s >= Last * t
  BY DEF InReach, Abs, Span, Last
<1>2. p - s \in Int
  OBVIOUS
<1> QED
  BY <1>1, <1>2, QuotientInBlock

-----------------------------------------------------------------------------
(***************************************************************************)
(* The query, and what is computed from it.                                *)
(***************************************************************************)
QueryTyped ==
  /\ tile \in Tiles /\ camera \in Coordinates \X Coordinates /\ stepScale \in StepScales
  /\ directions \in (Directions \X Directions) \X (Directions \X Directions)

LEMMA RaysAreSteps ==
  ASSUME QueryTyped
  PROVE  /\ tile \in Int
         /\ \A e \in 1 .. 2 : /\ StepOf(directions[e])[1] \in Int
                              /\ StepOf(directions[e])[2] \in Int
         /\ Ray = StepOf(directions[1]) \/ Ray = StepOf(directions[2])
         /\ Ray[1] \in Int /\ Ray[2] \in Int
<1>1. /\ tile \in Int /\ stepScale \in Int
      /\ \A e \in 1 .. 2 : directions[e][1] \in Int /\ directions[e][2] \in Int
  BY QueryAssumption DEF QueryTyped
<1>2. \A word \in Int : (stepScale * word) \div StepDivisor \in Int
  BY <1>1, DivisorAssumption, DivBounds
<1>3. \A e \in 1 .. 2 : StepOf(directions[e])[1] \in Int /\ StepOf(directions[e])[2] \in Int
  BY <1>1, <1>2 DEF StepOf
<1> QED
  BY <1>1, <1>3 DEF Ray

\* The march starts in the block; past its upper clamp only from the substitute.
LEMMA OriginInBlock ==
  ASSUME QueryTyped, tile > 0
  PROVE  \A a \in 1 .. 2 :
           /\ FromOrigin[a] \in Int /\ 0 <= FromOrigin[a] /\ FromOrigin[a] < Span * tile
           /\ FromOrigin[a] > Last * tile => Clamped[a] = 3 * tile - 1
<1>1. tile \in Int /\ camera[1] \in Int /\ camera[2] \in Int
  BY QueryAssumption DEF QueryTyped
<1>2. \A c \in Int : /\ Clamp(c) \in Int /\ 0 <= Clamp(c) + 3 * tile
                     /\ Clamp(c) + 3 * tile < 6 * tile
                     /\ Clamp(c) + 3 * tile > 5 * tile => Clamp(c) = 3 * tile - 1
  BY <1>1 DEF Clamp
<1>3. /\ Clamped[1] = Clamp(camera[1]) /\ Clamped[2] = Clamp(camera[2])
      /\ FromOrigin[1] = Clamped[1] + 3 * tile /\ FromOrigin[2] = Clamped[2] + 3 * tile
  BY DEF Clamped, FromOrigin
<1> QED
  BY <1>1, <1>2, <1>3 DEF Span, Last

\* The bound of a march is that of one of the axes that move.
LEMMA BoundIsOfAnAxis ==
  ASSUME tile \in Nat \ {0}, NEW ray, ray[1] \in Int, ray[2] \in Int
  PROVE  /\ StepBound(ray) \in Nat
         /\ StepBound(ray) # 0 =>
              \E a \in 1 .. 2 : ray[a] # 0 /\ StepBound(ray) = AxisSteps(ray[a])
<1> DEFINE moving == {a \in 1 .. 2 : ray[a] # 0}
           bounds == {AxisSteps(ray[a]) : a \in moving}
<1>1. \A a \in moving : ray[a] \in Int \ {0} /\ AxisSteps(ray[a]) \in Nat \ {0}
  <2> SUFFICES ASSUME NEW a \in moving
               PROVE  ray[a] \in Int \ {0} /\ AxisSteps(ray[a]) \in Nat \ {0}
    OBVIOUS
  <2>1. ray[a] \in Int \ {0}
    <3>1. a = 1 \/ a = 2
      OBVIOUS
    <3> QED
      BY <3>1
  <2> QED
    BY <2>1, AxisStepsCross
<1>2. CASE bounds = {}
  BY <1>2 DEF StepBound
<1>3. CASE bounds # {}
  <2>1. \E b \in bounds : \A other \in bounds : b <= other
    <3>1. bounds \subseteq Nat
      BY <1>1
    <3>2. \E x, y \in bounds : \A z \in bounds : z = x \/ z = y
      <4>1. CASE 1 \in moving /\ 2 \in moving
        BY <4>1
      <4>2. CASE 1 \in moving /\ 2 \notin moving
        BY <4>2
      <4>3. CASE 1 \notin moving /\ 2 \in moving
        BY <4>3
      <4>4. CASE 1 \notin moving /\ 2 \notin moving
        BY <1>3, <4>4
      <4> QED
        BY <4>1, <4>2, <4>3, <4>4
    <3> HIDE DEF bounds
    <3> QED
      BY <3>1, <3>2
  <2>2. StepBound(ray) \in bounds
    BY <1>3, <2>1 DEF StepBound, Min
  <2> QED
    BY <1>1, <2>2
<1> QED
  BY <1>2, <1>3

-----------------------------------------------------------------------------
(***************************************************************************)
(* The inductive invariant of the marches: where a march is follows from   *)
(* how many steps it took, and what it reached is the cell one step back.  *)
(***************************************************************************)
StateTyped ==
  /\ status \in Statuses /\ phase \in Phases
  /\ position[1] \in Int /\ position[2] \in Int /\ position \in Int \X Int
  /\ steps \in Nat
  /\ reached \in Cells \cup {NoCell} /\ leftExit \in Cells \cup {NoCell}
  /\ selection \subseteq Cells

Marchable ==
  /\ tile \in Nat \ {0}
  /\ \A e \in 1 .. 2 : StepBound(StepOf(directions[e])) # 0

OnItsRay ==
  /\ position[1] = FromOrigin[1] + steps * Ray[1]
  /\ position[2] = FromOrigin[2] + steps * Ray[2]

ReachedBehind ==
  steps > 0 => /\ reached \in Cells
               /\ reached = <<Quotient(position[2] - Ray[2], tile),
                              Quotient(position[1] - Ray[1], tile)>>

WedgeInv ==
  /\ QueryTyped /\ StateTyped
  /\ phase = "begin" => steps = 0
  /\ phase \notin {"begin", "over"} => Marchable
  /\ phase \in {"left", "right"} => OnItsRay /\ ReachedBehind
  /\ phase \in {"right", "walk"} => leftExit \in Cells

LEMMA CellsAreInReach ==
  ASSUME tile \in Nat \ {0}, NEW p, p[1] \in Int, p[2] \in Int
  PROVE  CellAt(p) \in Cells <=> InReach(p[1], tile) /\ InReach(p[2], tile)
<1>1. /\ Quotient(p[1], tile) \in 0 .. Last <=> InReach(p[1], tile)
      /\ Quotient(p[2], tile) \in 0 .. Last <=> InReach(p[2], tile)
  BY QuotientInBlock
<1> QED
  BY <1>1 DEF CellAt, Cells

LEMMA CameraInBlock ==
  ASSUME QueryTyped, tile > 0
  PROVE  CameraCell \in Cells
<1>1. tile \in Nat \ {0}
  BY RaysAreSteps
<1>2. /\ FromOrigin[1] \in Int /\ InReach(FromOrigin[1], tile)
      /\ FromOrigin[2] \in Int /\ InReach(FromOrigin[2], tile)
  BY <1>1, OriginInBlock DEF InReach
<1> QED
  BY <1>1, <1>2, CellsAreInReach DEF CameraCell

\* What does not touch the query leaves what is computed from it.
LEMMA QueryStands ==
  ASSUME UNCHANGED query
  PROVE  /\ QueryTyped' <=> QueryTyped
         /\ Marchable' <=> Marchable
         /\ FromOrigin' = FromOrigin /\ Clamped' = Clamped /\ CameraCell' = CameraCell
         /\ tile' = tile /\ directions' = directions
         /\ \A ray : StepBound(ray)' = StepBound(ray)
         /\ \A e : StepOf(e)' = StepOf(e)
<1>1. UNCHANGED <<tile, camera, stepScale, directions>>
  BY DEF query
<1>2. \A n : AxisSteps(n)' = AxisSteps(n) /\ Clamp(n)' = Clamp(n)
  BY <1>1 DEF AxisSteps, Clamp
<1>3. \A ray : StepBound(ray)' = StepBound(ray)
  <2> SUFFICES ASSUME NEW ray PROVE StepBound(ray)' = StepBound(ray)
    OBVIOUS
  <2> DEFINE bounds == {AxisSteps(ray[axis]) : axis \in {a \in 1 .. 2 : ray[a] # 0}}
  <2>1. bounds' = bounds
    BY <1>2
  <2> QED
    BY <2>1 DEF StepBound
<1>4. \A e : StepOf(e)' = StepOf(e)
  BY <1>1 DEF StepOf
<1>5. Clamped' = Clamped
  BY <1>1, <1>2 DEF Clamped
<1>6. FromOrigin' = FromOrigin
  BY <1>1, <1>5 DEF FromOrigin
<1>7. CameraCell' = CameraCell
  BY <1>1, <1>6 DEF CameraCell, CellAt
<1>8. Marchable' <=> Marchable
  BY <1>1, <1>3, <1>4 DEF Marchable
<1> QED
  BY <1>1, <1>3, <1>4, <1>5, <1>6, <1>7, <1>8 DEF QueryTyped

LEMMA BorderMoves ==
  ASSUME NEW c \in Cells
  PROVE  NextOnBorder(c) \in Cells
BY DEF NextOnBorder, Cells, Last, Span

LEMMA BeginsKeeps == WedgeInv /\ Begin => WedgeInv'
<1> SUFFICES ASSUME WedgeInv, Begin PROVE WedgeInv'
  OBVIOUS
<1>1. UNCHANGED query /\ UNCHANGED <<steps, reached, leftExit, selection>> /\ steps = 0
  BY DEF Begin, WedgeInv
<1>2. CASE phase' = "over" /\ status' \in Statuses /\ position' = position
  BY <1>1, <1>2, QueryStands DEF WedgeInv, StateTyped, Phases
<1>3. CASE /\ phase' = "left" /\ status' = status /\ position' = FromOrigin /\ tile > 0
           /\ 0 \notin {StepBound(StepOf(directions[1])), StepBound(StepOf(directions[2]))}
  <2>1. Marchable
    <3>1. tile \in Nat \ {0}
      BY <1>3, RaysAreSteps DEF WedgeInv
    <3> QED
      BY <1>3, <3>1 DEF Marchable
  <2>2. FromOrigin[1] \in Int /\ FromOrigin[2] \in Int
    BY <1>3, OriginInBlock DEF WedgeInv
  <2>3. position' \in Int \X Int /\ position'[1] \in Int /\ position'[2] \in Int
    BY <1>3, <2>2 DEF FromOrigin
  <2>4. QueryTyped' /\ Marchable' /\ FromOrigin' = FromOrigin
    BY <1>1, <2>1, QueryStands DEF WedgeInv
  <2>5. Ray'[1] \in Int /\ Ray'[2] \in Int
    <3>1. Ray' = StepOf(directions[1])
      BY <1>1, <1>3, QueryStands DEF Ray
    <3> QED
      BY <3>1, RaysAreSteps DEF WedgeInv
  <2>6. OnItsRay' /\ ReachedBehind'
    BY <1>1, <1>3, <2>2, <2>4, <2>5 DEF OnItsRay, ReachedBehind
  <2>7. StateTyped'
    BY <1>1, <1>3, <2>3 DEF WedgeInv, StateTyped, Phases
  <2> QED
    BY <1>1, <1>3, <2>4, <2>6, <2>7 DEF WedgeInv
<1>4. tile <= 0 \/ tile > 0
  BY RaysAreSteps DEF WedgeInv
<1> QED
  BY <1>2, <1>3, <1>4 DEF Begin, Refuse, Statuses

\* Marching is on the ray of its phase, and starts in the block.
LEMMA MarchingFacts ==
  ASSUME WedgeInv, phase \in {"left", "right"}
  PROVE  /\ tile \in Nat \ {0} /\ Ray[1] \in Int /\ Ray[2] \in Int
         /\ position[1] \in Int /\ position[2] \in Int /\ steps \in Nat
         /\ StepBound(Ray) \in Nat \ {0}
         /\ FromOrigin[1] \in Int /\ FromOrigin[2] \in Int
         /\ steps = 0 => Inside
<1>1. tile \in Nat \ {0} /\ Ray[1] \in Int /\ Ray[2] \in Int
  BY RaysAreSteps DEF WedgeInv, Marchable
<1>2. StepBound(Ray) # 0
  BY DEF WedgeInv, Marchable, Ray
<1>3. FromOrigin[1] \in Int /\ FromOrigin[2] \in Int
  BY <1>1, OriginInBlock DEF WedgeInv
<1>4. position[1] \in Int /\ position[2] \in Int /\ steps \in Nat
  BY DEF WedgeInv, StateTyped
<1>5. ASSUME steps = 0 PROVE Inside
  <2>1. position[1] = FromOrigin[1] /\ position[2] = FromOrigin[2]
    BY <1>1, <1>3, <1>5 DEF WedgeInv, OnItsRay
  <2> QED
    BY <1>1, <2>1, CameraInBlock DEF WedgeInv, CameraCell, Inside, CellAt
<1> QED
  BY <1>1, <1>2, <1>3, <1>4, <1>5, BoundIsOfAnAxis

LEMMA MarchKeeps == WedgeInv /\ March => WedgeInv'
<1> SUFFICES ASSUME WedgeInv, March PROVE WedgeInv'
  OBVIOUS
<1>1. /\ phase \in {"left", "right"} /\ Inside
      /\ reached' = CellAt(position) /\ selection' = selection \cup {CellAt(position)}
      /\ position' = <<position[1] + Ray[1], position[2] + Ray[2]>> /\ steps' = steps + 1
      /\ UNCHANGED query /\ UNCHANGED <<status, phase, leftExit>>
  BY DEF March
<1>2. /\ tile \in Nat \ {0} /\ Ray[1] \in Int /\ Ray[2] \in Int /\ steps \in Nat
      /\ position[1] \in Int /\ position[2] \in Int
      /\ FromOrigin[1] \in Int /\ FromOrigin[2] \in Int
  BY <1>1, MarchingFacts
<1>3. Ray' = Ray /\ FromOrigin' = FromOrigin /\ tile' = tile
  BY <1>1, QueryStands DEF Ray
<1>4. /\ position'[1] = position[1] + Ray[1] /\ position'[2] = position[2] + Ray[2]
      /\ position' \in Int \X Int
  BY <1>1, <1>2
<1>5. StateTyped'
  BY <1>1, <1>2, <1>4 DEF WedgeInv, StateTyped, Inside
<1>6. OnItsRay'
  <2>1. position[1] = FromOrigin[1] + steps * Ray[1] /\ position[2] = FromOrigin[2] + steps * Ray[2]
    BY <1>1 DEF WedgeInv, OnItsRay
  <2>2. position[1] + Ray[1] = FromOrigin[1] + (steps + 1) * Ray[1]
    <3>1. PICK o, s, k \in Int : o = FromOrigin[1] /\ s = Ray[1] /\ k = steps
      BY <1>2
    <3>2. (o + k * s) + s = o + (k + 1) * s
      OBVIOUS
    <3> QED
      BY <2>1, <3>1, <3>2
  <2>3. position[2] + Ray[2] = FromOrigin[2] + (steps + 1) * Ray[2]
    <3>1. PICK o, s, k \in Int : o = FromOrigin[2] /\ s = Ray[2] /\ k = steps
      BY <1>2
    <3>2. (o + k * s) + s = o + (k + 1) * s
      OBVIOUS
    <3> QED
      BY <2>1, <3>1, <3>2
  <2> QED
    BY <1>1, <1>3, <1>4, <2>2, <2>3 DEF OnItsRay
<1>7. ReachedBehind'
  <2>1. position'[1] - Ray[1] = position[1] /\ position'[2] - Ray[2] = position[2]
    BY <1>2, <1>4
  <2> QED
    BY <1>1, <1>3, <2>1 DEF ReachedBehind, CellAt, Inside
<1>8. QueryTyped' /\ (Marchable' <=> Marchable)
  BY <1>1, QueryStands DEF WedgeInv
<1> QED
  BY <1>1, <1>5, <1>6, <1>7, <1>8 DEF WedgeInv

LEMMA MarchOverKeeps == WedgeInv /\ MarchOver => WedgeInv'
<1> SUFFICES ASSUME WedgeInv, MarchOver PROVE WedgeInv'
  OBVIOUS
<1>1. /\ phase \in {"left", "right"} /\ steps' = 0 /\ selection' = selection
      /\ UNCHANGED query
  BY DEF MarchOver
<1>2. QueryTyped' /\ Marchable' /\ FromOrigin' = FromOrigin /\ tile' = tile
      /\ \A e : StepOf(e)' = StepOf(e)
  BY <1>1, QueryStands DEF WedgeInv
<1>3. /\ tile \in Nat \ {0} /\ FromOrigin[1] \in Int /\ FromOrigin[2] \in Int
      /\ steps = 0 => Inside
      /\ StepBound(Ray) # 0
  BY <1>1, MarchingFacts
<1>4. steps > 0
  BY <1>3 DEF MarchOver, WedgeInv, StateTyped
<1>5. reached \in Cells
  BY <1>1, <1>4 DEF WedgeInv, ReachedBehind
<1>6. reached # NoCell
  BY <1>5 DEF NoCell, Cells, Last, Span
<1>7. CASE phase = "left"
  <2>1. /\ phase' = "right" /\ status' = status /\ leftExit' = reached
        /\ reached' = <<0, 0>> /\ position' = FromOrigin
    BY <1>6, <1>7 DEF MarchOver, Refuse
  <2>2. position' \in Int \X Int /\ position'[1] \in Int /\ position'[2] \in Int
    BY <1>3, <2>1 DEF FromOrigin
  <2>3. StateTyped'
    BY <1>1, <1>5, <2>1, <2>2 DEF WedgeInv, StateTyped, Phases, Cells, Last, Span
  <2>4. Ray'[1] \in Int /\ Ray'[2] \in Int
    <3>1. Ray' = StepOf(directions[2])
      BY <1>1, <1>2, <2>1 DEF Ray, query
    <3> QED
      BY <3>1, RaysAreSteps DEF WedgeInv
  <2>5. OnItsRay' /\ ReachedBehind'
    BY <1>1, <1>2, <1>3, <2>1, <2>4 DEF OnItsRay, ReachedBehind
  <2> QED
    BY <1>1, <1>2, <1>5, <2>1, <2>3, <2>5 DEF WedgeInv
<1>8. CASE phase = "right"
  <2>1. phase' = "walk" /\ UNCHANGED <<status, leftExit, reached, position>>
    BY <1>8 DEF MarchOver
  <2>2. StateTyped'
    BY <1>1, <2>1 DEF WedgeInv, StateTyped, Phases
  <2> QED
    BY <1>1, <1>2, <1>8, <2>1, <2>2 DEF WedgeInv
<1> QED
  BY <1>1, <1>7, <1>8

LEMMA AfterMarchesKeeps == WedgeInv /\ (Walk \/ FillRows \/ DropNear) => WedgeInv'
<1> SUFFICES ASSUME WedgeInv, Walk \/ FillRows \/ DropNear PROVE WedgeInv'
  OBVIOUS
<1>1. /\ UNCHANGED query /\ UNCHANGED <<position, reached>> /\ phase \in {"walk", "fill", "drop"}
      /\ phase' \in {"walk", "fill", "drop", "over"}
  BY DEF Walk, FillRows, DropNear, Refuse
<1>2. QueryTyped' /\ Marchable' /\ Marchable
  BY <1>1, QueryStands DEF WedgeInv
<1>3. /\ status' \in Statuses /\ steps' \in Nat /\ selection' \subseteq Cells
      /\ leftExit' \in Cells \cup {NoCell} /\ (phase' = "walk" => leftExit' \in Cells)
  <2>1. CASE Walk
    <3>1. NextOnBorder(leftExit) \in Cells
      BY <2>1, BorderMoves DEF Walk, WedgeInv
    <3> QED
      BY <2>1, <3>1 DEF Walk, Refuse, WedgeInv, StateTyped, Statuses
  <2>2. CASE FillRows
    BY <2>2 DEF FillRows, WedgeInv, StateTyped
  <2>3. CASE DropNear
    <3>1. CameraCell \in Cells
      BY <1>2, CameraInBlock DEF WedgeInv, Marchable
    <3> QED
      BY <2>3, <3>1 DEF DropNear, WedgeInv, StateTyped, Statuses
  <2> QED
    BY <2>1, <2>2, <2>3
<1> QED
  BY <1>1, <1>2, <1>3 DEF WedgeInv, StateTyped, Phases

LEMMA WedgeInvHolds == Init => WedgeInv
BY DEF Init, WedgeInv, QueryTyped, StateTyped, Statuses, Phases

LEMMA WedgeInvKept == WedgeInv /\ [Next]_vars => WedgeInv'
<1> SUFFICES ASSUME WedgeInv, [Next]_vars PROVE WedgeInv'
  OBVIOUS
<1>1. CASE UNCHANGED vars
  <2>1. UNCHANGED query /\ Ray' = Ray
    BY <1>1, QueryStands DEF vars, query, Ray
  <2> QED
    BY <1>1, <2>1, QueryStands DEF vars, WedgeInv, StateTyped, OnItsRay, ReachedBehind
<1> QED
  BY <1>1, BeginsKeeps, MarchKeeps, MarchOverKeeps, AfterMarchesKeeps DEF Next, Over

LEMMA WedgeInvAlways == Spec => []WedgeInv
BY WedgeInvHolds, WedgeInvKept, PTL DEF Spec

-----------------------------------------------------------------------------
\* Of a march at its bound and still in the block: the axis the bound is of moves
\* down from the last tile, and what was reached is on the block's first row or
\* column.
LEMMA CutMarch ==
  ASSUME WedgeInv, MarchAtItsBound, Inside
  PROVE  \E a \in 1 .. 2 :
           /\ Ray[a] < 0 /\ Clamped[a] = 3 * tile - 1
           /\ position[a] - Ray[a] < 0
<1>1. /\ phase \in {"left", "right"} /\ steps = StepBound(Ray)
      /\ tile \in Nat \ {0} /\ Ray[1] \in Int /\ Ray[2] \in Int /\ StepBound(Ray) # 0
      /\ position[1] \in Int /\ position[2] \in Int
  BY MarchingFacts DEF MarchAtItsBound
<1>2. PICK a \in 1 .. 2 : Ray[a] # 0 /\ StepBound(Ray) = AxisSteps(Ray[a])
  BY <1>1, BoundIsOfAnAxis
<1>3. a = 1 \/ a = 2
  OBVIOUS
<1>4. /\ Ray[a] \in Int \ {0} /\ position[a] \in Int /\ InReach(position[a], tile)
  BY <1>1, <1>2, <1>3, CellsAreInReach DEF Inside
<1>5. position[a] = FromOrigin[a] + AxisSteps(Ray[a]) * Ray[a]
  BY <1>1, <1>2, <1>3 DEF WedgeInv, OnItsRay
<1>6. /\ FromOrigin[a] \in Int /\ 0 <= FromOrigin[a] /\ FromOrigin[a] < Span * tile
      /\ FromOrigin[a] > Last * tile => Clamped[a] = 3 * tile - 1
  BY <1>1, OriginInBlock DEF WedgeInv
<1>7. Ray[a] < 0 /\ FromOrigin[a] > Last * tile /\ position[a] - Ray[a] < 0
  BY <1>1, <1>4, <1>5, <1>6, AxisAtItsBound
<1> QED
  BY <1>6, <1>7

\* marchStepBound cuts a march short only from a camera past the block's upper
\* edge that marches down, whatever the tile size, the camera, the directions and
\* the step scale (marchRay, marchStepBound).
THEOREM OnlyClampedMarchesEverCut == Spec => []OnlyClampedMarchesAreCut
<1>1. WedgeInv => OnlyClampedMarchesAreCut
  BY CutMarch DEF OnlyClampedMarchesAreCut
<1> QED
  BY <1>1, WedgeInvAlways, PTL

-----------------------------------------------------------------------------
(***************************************************************************)
(* The border is a cycle: the places of its cells along the walk.          *)
(***************************************************************************)
Place(c) ==
  IF c[1] = Last /\ c[2] < Last THEN c[2]
  ELSE IF c[2] = Last /\ c[1] > 0 THEN 2 * Last - c[1]
  ELSE IF c[1] = 0 /\ c[2] > 0 THEN 3 * Last - c[2]
  ELSE 3 * Last + c[1]

\* The moves from one cell to another, a whole lap to itself.
Ahead(c, d) == IF Place(d) > Place(c) THEN Place(d) - Place(c) ELSE Place(d) - Place(c) + Lap

LEMMA BorderCells ==
  ASSUME NEW c \in Border
  PROVE  \E row, column \in 0 .. 5 :
           /\ c = <<row, column>> /\ c[1] = row /\ c[2] = column
           /\ row = 0 \/ row = 5 \/ column = 0 \/ column = 5
BY DEF Border, Cells, Last, Span

LEMMA BorderIsACycle ==
  ASSUME NEW c \in Border
  PROVE  /\ NextOnBorder(c) \in Border
         /\ Place(c) \in 0 .. Lap - 1
         /\ Place(NextOnBorder(c)) = IF Place(c) = Lap - 1 THEN 0 ELSE Place(c) + 1
<1>1. PICK row, column \in 0 .. 5 :
        /\ c = <<row, column>> /\ c[1] = row /\ c[2] = column
        /\ row = 0 \/ row = 5 \/ column = 0 \/ column = 5
  BY BorderCells
<1>2. Place(c) \in 0 .. Lap - 1
  BY <1>1 DEF Place, Lap, Last, Span
<1>3. CASE row = 5 /\ column < 5
  <2>1. NextOnBorder(c) = <<5, column + 1>>
    BY <1>1, <1>3 DEF NextOnBorder, Last, Span
  <2>2. Place(c) = column /\ Place(<<5, column + 1>>) = column + 1
    BY <1>1, <1>3 DEF Place, Last, Span
  <2>3. <<5, column + 1>> \in Border
    BY <1>3 DEF Border, Cells, Last, Span
  <2> QED
    BY <1>2, <1>3, <2>1, <2>2, <2>3 DEF Lap, Last, Span
<1>4. CASE column = 5 /\ row > 0
  <2>1. NextOnBorder(c) = <<row - 1, 5>>
    BY <1>1, <1>4 DEF NextOnBorder, Last, Span
  <2>2. Place(c) = 10 - row /\ Place(<<row - 1, 5>>) = 11 - row
    BY <1>1, <1>4 DEF Place, Last, Span
  <2>3. <<row - 1, 5>> \in Border
    BY <1>4 DEF Border, Cells, Last, Span
  <2> QED
    BY <1>2, <1>4, <2>1, <2>2, <2>3 DEF Lap, Last, Span
<1>5. CASE row = 0 /\ column > 0
  <2>1. NextOnBorder(c) = <<0, column - 1>>
    BY <1>1, <1>5 DEF NextOnBorder, Last, Span
  <2>2. Place(c) = 15 - column /\ Place(<<0, column - 1>>) = 16 - column
    BY <1>1, <1>5 DEF Place, Last, Span
  <2>3. <<0, column - 1>> \in Border
    BY <1>5 DEF Border, Cells, Last, Span
  <2> QED
    BY <1>2, <1>5, <2>1, <2>2, <2>3 DEF Lap, Last, Span
<1>6. CASE column = 0 /\ row < 5
  <2>1. NextOnBorder(c) = <<row + 1, 0>>
    BY <1>1, <1>6 DEF NextOnBorder, Last, Span
  <2>2. Place(c) = 15 + row /\ Place(<<row + 1, 0>>) = IF row = 4 THEN 0 ELSE 16 + row
    BY <1>1, <1>6 DEF Place, Last, Span
  <2>3. <<row + 1, 0>> \in Border
    BY <1>6 DEF Border, Cells, Last, Span
  <2> QED
    BY <1>2, <1>6, <2>1, <2>2, <2>3 DEF Lap, Last, Span
<1> QED
  BY <1>1, <1>3, <1>4, <1>5, <1>6

LEMMA PlacesDiffer ==
  ASSUME NEW c \in Border, NEW d \in Border, Place(c) = Place(d)
  PROVE  c = d
<1>1. PICK row, column \in 0 .. 5 :
        /\ c = <<row, column>> /\ c[1] = row /\ c[2] = column
        /\ row = 0 \/ row = 5 \/ column = 0 \/ column = 5
  BY BorderCells
<1>2. PICK dRow, dColumn \in 0 .. 5 :
        /\ d = <<dRow, dColumn>> /\ d[1] = dRow /\ d[2] = dColumn
        /\ dRow = 0 \/ dRow = 5 \/ dColumn = 0 \/ dColumn = 5
  BY BorderCells
<1>3. row = dRow /\ column = dColumn
  BY <1>1, <1>2 DEF Place, Last, Span
<1> QED
  BY <1>1, <1>2, <1>3

LEMMA WalkGetsNearer ==
  ASSUME NEW c \in Border, NEW d \in Border
  PROVE  /\ Ahead(c, d) \in 1 .. Lap
         /\ NextOnBorder(c) # d => Ahead(NextOnBorder(c), d) = Ahead(c, d) - 1
<1>1. PICK x, y, z \in 0 .. 19 :
        x = Place(c) /\ y = Place(d) /\ z = Place(NextOnBorder(c))
  BY BorderIsACycle DEF Lap, Last, Span
<1>2. z = IF x = 19 THEN 0 ELSE x + 1
  BY <1>1, BorderIsACycle DEF Lap, Last, Span
<1>3. Ahead(c, d) = (IF y > x THEN y - x ELSE (y - x) + 20)
  BY <1>1 DEF Ahead, Lap, Last, Span
<1>4. Ahead(NextOnBorder(c), d) = (IF y > z THEN y - z ELSE (y - z) + 20)
  BY <1>1 DEF Ahead, Lap, Last, Span
<1>5. NextOnBorder(c) # d => z # y
  BY <1>1, BorderIsACycle, PlacesDiffer
<1> QED
  BY <1>2, <1>3, <1>4, <1>5 DEF Lap, Last, Span

-----------------------------------------------------------------------------
(***************************************************************************)
(* The walk between the exits.                                             *)
(***************************************************************************)
LEMMA StepsAreShort ==
  ASSUME QueryTyped, StepsWithinATile, tile > 0
  PROVE  Abs(Ray[1]) <= tile /\ Abs(Ray[2]) <= tile
<1>1. \A e \in 1 .. 2 : directions[e][1] \in Directions /\ directions[e][2] \in Directions
  BY DEF QueryTyped
<1>2. \A e \in 1 .. 2 : /\ Abs(StepOf(directions[e])[1]) <= tile
                        /\ Abs(StepOf(directions[e])[2]) <= tile
  BY <1>1 DEF StepsWithinATile, StepOf, QueryTyped
<1> QED
  BY <1>2 DEF Ray

\* A march that is over, by leaving the block or by its bound, reached the border.
LEMMA MarchEndsOnBorder ==
  ASSUME WedgeInv, StepsWithinATile, phase \in {"left", "right"},
         steps = StepBound(Ray) \/ ~Inside
  PROVE  reached \in Border
<1>1. /\ tile \in Nat \ {0} /\ Ray[1] \in Int /\ Ray[2] \in Int /\ steps \in Nat
      /\ position[1] \in Int /\ position[2] \in Int
      /\ StepBound(Ray) # 0 /\ (steps = 0 => Inside)
  BY MarchingFacts
<1>2. steps > 0
  BY <1>1
<1>3. /\ reached \in Cells
      /\ reached = <<Quotient(position[2] - Ray[2], tile), Quotient(position[1] - Ray[1], tile)>>
  BY <1>2 DEF WedgeInv, ReachedBehind
<1>4. PICK back, up \in Int : back = position[1] - Ray[1] /\ up = position[2] - Ray[2]
  BY <1>1
<1>5. Quotient(up, tile) \in 0 .. Last /\ Quotient(back, tile) \in 0 .. Last
  BY <1>3, <1>4 DEF Cells
<1>6. InReach(back, tile) /\ InReach(up, tile)
  BY <1>1, <1>5, QuotientInBlock
<1>7. Quotient(up, tile) \in {0, Last} \/ Quotient(back, tile) \in {0, Last}
  <2>1. CASE ~Inside
    <3>1. Abs(Ray[1]) <= tile /\ Abs(Ray[2]) <= tile
      BY <1>1, StepsAreShort DEF WedgeInv
    <3>2. ~InReach(position[1], tile) \/ ~InReach(position[2], tile)
      BY <1>1, <2>1, CellsAreInReach DEF Inside
    <3>3. CASE ~InReach(position[1], tile)
      BY <1>1, <1>4, <1>6, <3>1, <3>3, AxisLeavesFromEdge
    <3>4. CASE ~InReach(position[2], tile)
      BY <1>1, <1>4, <1>6, <3>1, <3>4, AxisLeavesFromEdge
    <3> QED
      BY <3>2, <3>3, <3>4
  <2>2. CASE Inside
    <3>1. PICK a \in 1 .. 2 : position[a] - Ray[a] < 0
      BY <2>2, CutMarch DEF MarchAtItsBound
    <3>2. back < 0 \/ up < 0
      BY <1>4, <3>1
    <3>3. \A n \in Int : n < 0 => n <= 0
      OBVIOUS
    <3>4. CASE back < 0
      BY <1>1, <1>6, <3>3, <3>4, QuotientInBlock, Zenon
    <3>5. CASE up < 0
      BY <1>1, <1>6, <3>3, <3>5, QuotientInBlock, Zenon
    <3> QED
      BY <3>2, <3>4, <3>5
  <2> QED
    BY <2>1, <2>2
<1> QED
  BY <1>3, <1>4, <1>7 DEF Border

WalkInv ==
  /\ WedgeInv
  /\ status \notin {"cameraOutsideBlock", "borderWalkUnbounded"}
  /\ phase = "right" => leftExit \in Border
  /\ phase = "walk" => /\ leftExit \in Border /\ reached \in Border
                       /\ steps + Ahead(leftExit, reached) <= Lap

LEMMA WalkInvHolds == Init => WalkInv
BY WedgeInvHolds DEF Init, WalkInv

LEMMA WalkInvKept ==
  ASSUME StepsWithinATile, WalkInv, [Next]_vars
  PROVE  WalkInv'
<1>1. WedgeInv'
  BY WedgeInvKept DEF WalkInv
<1>2. CASE Begin
  <2>1. phase' \in {"left", "over"} /\ status' \notin {"cameraOutsideBlock", "borderWalkUnbounded"}
    <3>1. tile <= 0 \/ tile > 0
      BY RaysAreSteps DEF WalkInv, WedgeInv
    <3> QED
      BY <1>2, <3>1 DEF Begin, Refuse, WalkInv
  <2> QED
    BY <1>1, <2>1 DEF WalkInv
<1>3. CASE March
  BY <1>1, <1>3 DEF March, WalkInv
<1>4. CASE MarchOver
  <2>1. reached \in Border
    BY <1>4, MarchEndsOnBorder DEF MarchOver, WalkInv
  <2>2. reached # NoCell
    BY <2>1 DEF Border, Cells, NoCell, Last, Span
  <2>3. CASE phase = "left"
    <3>1. phase' = "right" /\ status' = status /\ leftExit' = reached
      BY <1>4, <2>2, <2>3 DEF MarchOver
    <3> QED
      BY <1>1, <2>1, <3>1 DEF WalkInv
  <2>4. CASE phase = "right"
    <3>1. phase' = "walk" /\ steps' = 0 /\ UNCHANGED <<status, leftExit, reached>>
      BY <1>4, <2>4 DEF MarchOver
    <3>2. leftExit \in Border
      BY <2>4 DEF WalkInv
    <3>3. Ahead(leftExit, reached) \in 1 .. Lap
      BY <2>1, <3>2, WalkGetsNearer
    <3>4. steps' + Ahead(leftExit, reached) <= Lap
      BY <3>1, <3>3 DEF Lap, Last, Span
    <3> QED
      BY <1>1, <2>1, <3>1, <3>2, <3>4 DEF WalkInv
  <2> QED
    BY <1>4, <2>3, <2>4 DEF MarchOver
<1>5. CASE Walk
  <2>1. /\ phase = "walk" /\ leftExit \in Border /\ reached \in Border /\ steps \in Nat
        /\ steps + Ahead(leftExit, reached) <= Lap /\ reached' = reached
    BY <1>5 DEF Walk, WalkInv, WedgeInv, StateTyped
  <2>2. Ahead(leftExit, reached) \in 1 .. Lap
    BY <2>1, WalkGetsNearer
  <2>3. steps # 2 * Lap
    BY <2>1, <2>2 DEF Lap, Last, Span
  <2>4. /\ leftExit' = NextOnBorder(leftExit) /\ steps' = steps + 1 /\ status' = status
        /\ phase' = IF NextOnBorder(leftExit) = reached THEN "fill" ELSE "walk"
    BY <1>5, <2>3 DEF Walk
  <2>5. CASE NextOnBorder(leftExit) = reached
    BY <1>1, <2>4, <2>5 DEF WalkInv
  <2>6. CASE NextOnBorder(leftExit) # reached
    <3>1. Ahead(leftExit', reached) = Ahead(leftExit, reached) - 1
      BY <2>1, <2>4, <2>6, WalkGetsNearer
    <3>2. steps' + Ahead(leftExit', reached') <= Lap
      BY <2>1, <2>2, <2>4, <3>1 DEF Lap, Last, Span
    <3>3. leftExit' \in Border
      BY <2>1, <2>4, BorderIsACycle
    <3> QED
      BY <1>1, <2>1, <2>4, <2>6, <3>2, <3>3 DEF WalkInv
  <2> QED
    BY <2>5, <2>6
<1>6. CASE FillRows \/ DropNear
  BY <1>1, <1>6 DEF FillRows, DropNear, WalkInv
<1>7. CASE UNCHANGED vars
  BY <1>1, <1>7 DEF vars, WalkInv
<1> QED
  BY <1>2, <1>3, <1>4, <1>5, <1>6, <1>7 DEF Next, Over

LEMMA WalkInvIsEnough == WalkInv => WalkCloses
<1> SUFFICES ASSUME WalkInv PROVE WalkCloses
  OBVIOUS
<1>1. TypeOK
  BY CameraInBlock DEF WalkInv, WedgeInv, StateTyped, TypeOK
<1>2. ExitsOnBorder
  BY DEF WalkInv, ExitsOnBorder
<1>3. NeverGivesUp
  <2>1. ASSUME phase = "walk" PROVE steps < Lap
    <3>1. Ahead(leftExit, reached) \in 1 .. Lap /\ steps \in Nat
      BY <2>1, WalkGetsNearer DEF WalkInv, WedgeInv, StateTyped
    <3> QED
      BY <2>1, <3>1 DEF WalkInv, Lap, Last, Span
  <2> QED
    BY <2>1 DEF WalkInv, NeverGivesUp
<1> QED
  BY <1>1, <1>2, <1>3 DEF WalkCloses

\* Of steps no longer than a tile, every march ends on the border, the walk from
\* exit to exit closes within a lap, and select never aborts the game, whatever
\* the tile size, the camera and the directions (select, selectTiles).
THEOREM WalkAlwaysCloses ==
  ASSUME StepsWithinATile
  PROVE  Spec => []WalkCloses
<1>1. WalkInv /\ [Next]_vars => WalkInv'
  BY WalkInvKept
<1> QED
  BY <1>1, WalkInvHolds, WalkInvIsEnough, PTL DEF Spec
=============================================================================
