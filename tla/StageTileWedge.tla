--------------------------- MODULE StageTileWedge ---------------------------
(***************************************************************************)
(* The stage tile selector of game/widescreen/stage_tile_wedge.cpp: which  *)
(* of a stage's 6x6 tile cells lie in the camera's wedge.  Each edge of    *)
(* the wedge is marched from the camera's cell to where it leaves the      *)
(* block, the border between the two exits is walked, the rows between are *)
(* filled, and the cells nearest the camera are dropped.                   *)
(*                                                                         *)
(* A direction is a pair <<sine, cosine>>, any two words here; the widened *)
(* wedge that indexes the direction tables is not modelled.                *)
(***************************************************************************)
EXTENDS Integers, FiniteSets, FiniteSetsExt

CONSTANTS
  Tiles,        (* tile sizes a query may carry                            *)
  Coordinates,  (* camera coordinates a query may carry, on either axis    *)
  Directions,   (* words of the direction tables                           *)
  StepScales,   (* step scales a stage may publish                         *)
  StepDivisor   (* 2^15 in the code                                        *)

ASSUME QueryAssumption == (Tiles \cup Coordinates \cup Directions \cup StepScales) \subseteq Int
ASSUME DivisorAssumption == StepDivisor \in Nat \ {0}

Span == 6
Last == Span - 1
Cells == (0 .. Last) \X (0 .. Last)          (* <<row, column>>            *)
Border == {c \in Cells : c[1] \in {0, Last} \/ c[2] \in {0, Last}}
Unreached == 32767                            (* 0x7FFF                     *)

VARIABLES
  tile, camera, stepScale, directions,  (* the query; camera and directions
                                           are pairs, first then second      *)
  status,          (* "running", or the SelectionStatus select returns     *)
  phase,           (* where `select` is                                    *)
  position,        (* along and across of marchRay                         *)
  steps,           (* iterations of the march or of the border walk        *)
  reached,         (* last cell the march was in; later the walk's cell    *)
  leftExit,        (* exit cell of the first march                         *)
  selection        (* selected cells                                       *)

query == <<tile, camera, stepScale, directions>>
vars == <<query, status, phase, position, steps, reached, leftExit, selection>>

NoCell == <<-1, -1>>
Phases == {"begin", "left", "right", "walk", "fill", "drop", "over"}
Statuses == {"running", "ok", "noTileSize", "noStepScale", "marchUnbounded",
             "cameraOutsideBlock", "borderWalkUnbounded"}

-----------------------------------------------------------------------------
Abs(n) == IF n < 0 THEN -n ELSE n
CeilingOf(n, d) == (n + d - 1) \div d

\* Division as C++ and the guest do it, toward zero.
Quotient(n, d) == IF n >= 0 THEN n \div d ELSE -((-n) \div d)

\* clampedToBlock, one coordinate; mutated: the upper substitute is one off.
ClampOneOff(c) == IF c < -2 * tile THEN -3 * tile ELSE IF c >= 2 * tile THEN 3 * tile ELSE c
Clamp(c) == IF c < -2 * tile THEN -3 * tile ELSE IF c >= 2 * tile THEN 3 * tile - 1 ELSE c

Clamped == <<Clamp(camera[1]), Clamp(camera[2])>>

\* The block's origin is -3*tile on both axes (FUN_8006C95C).
FromOrigin == <<Clamped[1] + 3 * tile, Clamped[2] + 3 * tile>>

\* blockCoordinate on both axes, as the cell <<row, column>>.
CellAt(p) == <<Quotient(p[2], tile), Quotient(p[1], tile)>>

\* stepComponent: an arithmetic shift rounds down.
StepOf(direction) == <<(stepScale * direction[1]) \div StepDivisor,
                       (stepScale * direction[2]) \div StepDivisor>>
Ray == StepOf(IF phase = "left" THEN directions[1] ELSE directions[2])

\* marchStepBound: the fewest iterations an axis that moves is said to need;
\* 0 when no axis moves.  Mutated: half the block's span.
HalfBlockSteps(component) == CeilingOf(3 * tile, Abs(component)) + 1
AxisSteps(component) == CeilingOf(Span * tile, Abs(component)) + 1
StepBound(ray) ==
  LET bounds == {AxisSteps(ray[axis]) : axis \in {a \in 1 .. 2 : ray[a] # 0}}
  IN  IF bounds = {} THEN 0 ELSE Min(bounds)

\* walkBorder's four moves are one walk around the block: along the last row,
\* up the last column, back along the first row, down the first column.
NextOnBorder(c) ==
  CASE c[1] = Last /\ c[2] < Last -> <<c[1], c[2] + 1>>
    [] c[2] = Last /\ c[1] > 0    -> <<c[1] - 1, c[2]>>
    [] c[1] = 0 /\ c[2] > 0       -> <<c[1], c[2] - 1>>
    [] c[2] = 0 /\ c[1] < Last    -> <<c[1] + 1, c[2]>>
    [] OTHER                      -> c

Lap == 4 * Last

\* No step of an edge is longer than a tile, as the stages publish them: a tile
\* of ten units to a step scale of seven, and directions of at most 4096 in 2^15.
StepsWithinATile ==
  \A t \in Tiles, scale \in StepScales, word \in Directions :
    t > 0 => Abs((scale * word) \div StepDivisor) <= t

-----------------------------------------------------------------------------
Init ==
  /\ tile \in Tiles /\ camera \in Coordinates \X Coordinates
  /\ stepScale \in StepScales
  /\ directions \in (Directions \X Directions) \X (Directions \X Directions)
  /\ status = "running" /\ phase = "begin"
  /\ position = <<0, 0>> /\ steps = 0
  /\ reached = NoCell /\ leftExit = NoCell
  /\ selection = {}

Refuse(reason) == status' = reason /\ phase' = "over"

\* select's refusals, and the start of the first march.
Begin ==
  /\ phase = "begin"
  /\ CASE tile <= 0 -> Refuse("noTileSize")
       [] tile > 0 /\ stepScale = 0 -> Refuse("noStepScale")
       [] tile > 0 /\ stepScale # 0 ->
            IF 0 \in {StepBound(StepOf(directions[1])), StepBound(StepOf(directions[2]))}
              THEN Refuse("marchUnbounded")
              ELSE phase' = "left" /\ UNCHANGED status
  /\ position' = IF phase' = "left" THEN FromOrigin ELSE position
  /\ UNCHANGED <<query, steps, reached, leftExit, selection>>

Inside == CellAt(position) \in Cells

\* One iteration of marchRay: the cell entered is selected.
March ==
  /\ phase \in {"left", "right"}
  /\ steps < StepBound(Ray) /\ Inside
  /\ reached' = CellAt(position)
  /\ selection' = selection \cup {CellAt(position)}
  /\ position' = <<position[1] + Ray[1], position[2] + Ray[2]>>
  /\ steps' = steps + 1
  /\ UNCHANGED <<query, status, phase, leftExit>>

\* marchRay ends, out of the block or out of iterations: the first march is
\* followed by the second, from the camera's cell again, and that by the walk.
MarchOver ==
  /\ phase \in {"left", "right"}
  /\ steps = StepBound(Ray) \/ ~Inside
  /\ steps' = 0
  /\ IF phase = "left"
       THEN /\ IF reached = NoCell
                 THEN Refuse("cameraOutsideBlock")
                 ELSE phase' = "right" /\ UNCHANGED status
            /\ leftExit' = reached
            /\ reached' = <<0, 0>>
            /\ position' = FromOrigin
       ELSE /\ phase' = "walk"
            /\ UNCHANGED <<status, leftExit, reached, position>>
  /\ UNCHANGED <<query, selection>>

\* One move of walkBorder from the first exit (kept in leftExit) towards the
\* second (in reached); two laps without meeting it end the walk.
Walk ==
  /\ phase = "walk"
  /\ LET cell == NextOnBorder(leftExit)
     IN  IF steps = 2 * Lap
           THEN Refuse("borderWalkUnbounded") /\ UNCHANGED <<steps, leftExit, selection>>
           ELSE /\ leftExit' = cell
                /\ selection' = selection \cup {cell}
                /\ steps' = steps + 1
                /\ phase' = IF cell = reached THEN "fill" ELSE "walk"
                /\ UNCHANGED status
  /\ UNCHANGED <<query, position, reached>>

\* fillRows: each row is filled between its outermost selected cells.
FillRows ==
  /\ phase = "fill"
  /\ selection' = {c \in Cells : \E l, r \in selection :
                     l[1] = c[1] /\ r[1] = c[1] /\ l[2] <= c[2] /\ c[2] <= r[2]}
  /\ phase' = "drop"
  /\ UNCHANGED <<query, status, position, steps, reached, leftExit>>

CameraCell == CellAt(FromOrigin)

\* blockDistance.
Distance(cells, c) ==
  IF c \in cells THEN Abs(c[1] - CameraCell[1]) + Abs(c[2] - CameraCell[2]) ELSE Unreached

\* The cells that may set the threshold: the block's centre.
Centre == (2 .. 3) \X (2 .. 3)

\* The camera's cell is marked, and no cell as near as the nearest selected
\* cell of the centre stays.
DropNear ==
  /\ phase = "drop"
  /\ LET marked == selection \cup {CameraCell}
         distances == {Distance(marked, c) : c \in Centre}
         nearRing == Min(distances)
     IN  selection' = {c \in marked : Distance(marked, c) > nearRing}
  /\ phase' = "over" /\ status' = "ok"
  /\ UNCHANGED <<query, position, steps, reached, leftExit>>

Over == phase = "over" /\ UNCHANGED vars

Next == Begin \/ March \/ MarchOver \/ Walk \/ FillRows \/ DropNear \/ Over

Spec == Init /\ [][Next]_vars

-----------------------------------------------------------------------------
TypeOK ==
  /\ status \in Statuses /\ phase \in Phases
  /\ position \in Int \X Int /\ steps \in Nat
  /\ {reached, leftExit} \subseteq Cells \cup {NoCell}
  /\ selection \subseteq Cells
  /\ tile > 0 => CameraCell \in Cells

\* However a march ends, by leaving the block or by its bound, its exit is a
\* cell of the border: the border walk starts and ends where its moves lead
\* (marchRay, walkBorder).
ExitsOnBorder == phase = "walk" => {leftExit, reached} \subseteq Border

\* A stage that publishes a tile size, a step scale and a step for both edges
\* gets its tiles selected: the guards against an unentered block and an
\* endless border walk never abort the game (select, selectTiles), the walk
\* meeting the second exit within its first lap.
NeverGivesUp ==
  /\ status \notin {"cameraOutsideBlock", "borderWalkUnbounded"}
  /\ phase = "walk" => steps < Lap

MarchAtItsBound == phase \in {"left", "right"} /\ steps = StepBound(Ray)

\* A march is cut short by its bound only from a camera past the block's upper
\* edge, marching down: there the quotient's rounding toward zero keeps it in
\* the block a tile longer than marchStepBound allows for.
OnlyClampedMarchesAreCut ==
  MarchAtItsBound /\ Inside =>
    \E axis \in 1 .. 2 : Ray[axis] < 0 /\ Clamped[axis] = 3 * tile - 1

\* The border walk closes: it starts and ends on the border, and no guard fires.
WalkCloses == TypeOK /\ ExitsOnBorder /\ NeverGivesUp

\* A march at its bound has left the block: the bound is the "iterations a march
\* needs to leave the block" (stage_tile_wedge.cpp:104).
BoundCoversTheMarch == MarchAtItsBound => ~Inside
=============================================================================
