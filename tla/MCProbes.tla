------------------------------ MODULE MCProbes ------------------------------
(***************************************************************************)
(* A small instance of Probes: the two aspects, and rows of two words.     *)
(***************************************************************************)
EXTENDS Probes

\* The pair, 4:3 first.
MCBoth == <<"4x3", "16x9">>
=============================================================================
