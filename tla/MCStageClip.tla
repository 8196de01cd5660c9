---------------------------- MODULE MCStageClip ----------------------------
EXTENDS StageClip

\* A draw width of 4, shown as it is, widened by the guest itself, and with a
\* margin of 2 columns on either side of the canvas.
MCPlans ==
  { [wide |-> FALSE, presentation |-> 4, draw |-> 4],
    [wide |-> TRUE, presentation |-> 8, draw |-> 8],
    [wide |-> TRUE, presentation |-> 8, draw |-> 4] }

Quad(l, r, t, b) == << <<l, t>>, <<r, t>>, <<l, b>>, <<r, b>> >>

\* In each margin, across a margin's edge, across the whole canvas and above,
\* and a triangle that is shown although none of its vertices is.
MCPrimitives ==
  { [opcode |-> "quadTextured", vertices |-> Quad(-2, -1, 0, 1)],
    [opcode |-> "quadFlat", vertices |-> Quad(5, 9, -1, 1)],
    [opcode |-> "quadFlat", vertices |-> Quad(6, 7, 0, 2)],
    [opcode |-> "triangleTextured", vertices |-> << <<-4, -2>>, <<9, -1>>, <<3, 3>> >>],
    [opcode |-> "triangleTextured", vertices |-> << <<-5, 4>>, <<9, 4>>, <<2, -6>> >>],
    [opcode |-> "unknown", vertices |-> Quad(0, 1, 0, 1)] }

MCEffects == { Quad(-2, -1, 100, 101), Quad(0, 1, 470, 480) }
=============================================================================
