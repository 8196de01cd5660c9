--------------------------- MODULE MCFrameDriver ---------------------------
(***************************************************************************)
(* Small instances of FrameDriver.  The driver alone: two buffers, one     *)
(* character, and words that wrap after three values, so that a stale      *)
(* field number differs from the two before it.  The warp inside the       *)
(* driver: two characters, no clock, and command lines of no number,       *)
(* either character, and the first number past the last one.               *)
(***************************************************************************)
EXTENDS FrameDriver, TLC

MCFewWords == {-1, 0}
MCWords == {-1, 0, 1, 2}

BufferSymmetry == Permutations(Buffers)
=============================================================================
