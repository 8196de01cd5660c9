--------------------------- MODULE FrameProtocol ---------------------------
(***************************************************************************)
(* What the frame driver promises the renderer: ordering tables are built  *)
(* one at a time, every table that is opened is closed before another is,  *)
(* and the barrier hands over a finished table only, the newest one or the *)
(* one it handed over last.                                                *)
(***************************************************************************)
CONSTANTS
  Buffers,    (* the buffer descriptors the game draws into *)
  NoBuffer    (* no buffer has been drawn yet               *)

VARIABLES
  building,   (* the tables that are open                   *)
  finished,   (* the table closed most recently             *)
  submitted   (* the table handed over most recently        *)

protocolVars == <<building, finished, submitted>>

ProtocolInit ==
  /\ building = {}
  /\ finished = NoBuffer
  /\ submitted = NoBuffer

Open(b) ==
  /\ building = {}
  /\ building' = {b}
  /\ UNCHANGED <<finished, submitted>>

Close(b) ==
  /\ building = {b}
  /\ building' = {}
  /\ finished' = b
  /\ UNCHANGED submitted

Submit ==
  /\ building = {}
  /\ submitted' \in {finished, submitted}
  /\ UNCHANGED <<building, finished>>

ProtocolNext ==
  \/ \E b \in Buffers : Open(b) \/ Close(b)
  \/ Submit

ProtocolSpec == ProtocolInit /\ [][ProtocolNext]_protocolVars
=============================================================================
