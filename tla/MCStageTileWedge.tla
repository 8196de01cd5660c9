-------------------------- MODULE MCStageTileWedge --------------------------
(***************************************************************************)
(* StageTileWedge with tiles three units wide.  The camera is past either  *)
(* end of the block or within it, and the steps of an edge are two, one or *)
(* no units either way: -1 comes from rounding a half down.                *)
(***************************************************************************)
EXTENDS StageTileWedge

MCCoordinates == {-7, -1, 4, 6}
MCDirections == {-4, -1, 0, 2, 4}

ASSUME MCStepsAssumption == StepsWithinATile
=============================================================================
