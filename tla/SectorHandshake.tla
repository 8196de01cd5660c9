-------------------------- MODULE SectorHandshake --------------------------
(***************************************************************************)
(* What the three CD overrides promise the loader: a read that is asked    *)
(* for is answered by its own sector, once, before another is asked for.   *)
(***************************************************************************)
CONSTANTS
  ReadIds,
  NoRead

VARIABLES
  asked,      (* the read the loader holds                                 *)
  underway    (* the read whose sector the drive or the controller has     *)

handshakeVars == <<asked, underway>>

HandshakeInit == asked = NoRead /\ underway = NoRead

Ask(r) ==
  /\ asked = NoRead
  /\ asked' = r
  /\ UNCHANGED underway

Send ==
  /\ asked # NoRead /\ underway = NoRead
  /\ underway' = asked
  /\ UNCHANGED asked

Consume ==
  /\ asked # NoRead /\ underway = asked
  /\ asked' = NoRead /\ underway' = NoRead

HandshakeNext == (\E r \in ReadIds : Ask(r)) \/ Send \/ Consume

HandshakeSpec == HandshakeInit /\ [][HandshakeNext]_handshakeVars
=============================================================================
