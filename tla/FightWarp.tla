----------------------------- MODULE FightWarp -----------------------------
(***************************************************************************)
(* The warp command of game/frame/fight_warp.cpp: `warp <p1> <p2>` arms a  *)
(* request; at a field boundary with no guest call in flight the warp      *)
(* starts VS from the main menu, and later fills in character select and   *)
(* takes its exit.  The retail menus are the environment: they move        *)
(* between screens by themselves and because of the warp's calls.          *)
(***************************************************************************)
EXTENDS Integers, Sequences

CONSTANTS
  CharacterCount,  (* characters a command may name: 0 .. CharacterCount-1 *)
  Words,           (* what a word of a command line parses to (-1: no number) *)
  NoRequest        (* the empty std::optional<Request>                     *)

ASSUME CharacterCountAssumption == CharacterCount \in Nat \ {0}
ASSUME WordsAssumption == Words \subseteq Int

VARIABLES
  request,         (* FightWarp::request_                                  *)
  started,         (* FightWarp::started_                                  *)
  screen,          (* guest words 0x800AE204 (mode) and 0x800AE224 (phase) *)
  selection,       (* guest words of character select, both players        *)
  startsSinceArm   (* history: game starts made since the last arming      *)

warpVars == <<request, started, screen, selection, startsSinceArm>>

Characters == 0 .. CharacterCount - 1

\* Requests and guest selections are pairs, first and second player.
Pairs(S) == S \X S

ASSUME NoRequestAssumption == NoRequest \notin Pairs(Characters)

\* Mode and phase as far as anything tells them apart: the main menu waiting
\* for a choice (4, 1), character select waiting for its players (10, 2), any
\* other state of a mode with a body, and a mode outside the function table.
Screens == {"menuChoosing", "selectWaiting", "otherMode", "noMode"}

\* The words that follow `warp` on a command line; the parser looks at three.
Lines == UNION {[1 .. n -> Words] : n \in 0 .. 3}

\* `character`: a number below the count.
ValidCharacter(word) == word \in Characters

\* The selection word character select reads: character << 2, costume 0.
\* A mutated form forgets the shift.
UnshiftedWord(character) == character
SelectionWord(character) == 4 * character

-----------------------------------------------------------------------------
WarpInit ==
  /\ request = NoRequest
  /\ started = FALSE
  /\ screen = "otherMode"
  /\ selection = <<0, 0>>
  /\ startsSinceArm = 0

\* A command line `arm` takes: two words, both characters.
Accepted(line) == Len(line) = 2 /\ \A i \in 1 .. 2 : ValidCharacter(line[i])

\* Whether the warp counts as started once armed; mutated: arming leaves it.
KeepsStarted == started
StartedByArm == FALSE

\* FightWarp::arm: a command line of exactly two characters replaces the
\* request; any other line is refused and changes nothing.
Arm(line) ==
  /\ Accepted(line)
  /\ request' = <<line[1], line[2]>>
  /\ started' = StartedByArm
  /\ startsSinceArm' = 0
  /\ UNCHANGED <<screen, selection>>

ArmRefused(line) ==
  /\ ~Accepted(line)
  /\ UNCHANGED warpVars

\* When each branch of FightWarp::apply is due; mutated: the select branch
\* tests started_ the wrong way round.
SelectDueUnstarted == request # NoRequest /\ ~started /\ screen = "selectWaiting"
MenuDue == request # NoRequest /\ ~started /\ screen = "menuChoosing"
SelectDue == request # NoRequest /\ started /\ screen = "selectWaiting"

\* FightWarp::apply, first branch: game start and menu leave run in the guest
\* and may leave any screen behind.
StartVersus ==
  /\ MenuDue
  /\ started' = TRUE
  /\ startsSinceArm' = startsSinceArm + 1
  /\ screen' \in Screens
  /\ UNCHANGED <<request, selection>>

\* FightWarp::apply, second branch: both choices, then the select's own exit.
TakeSelect ==
  /\ SelectDue
  /\ selection' = <<SelectionWord(request[1]), SelectionWord(request[2])>>
  /\ screen' = "otherMode"
  /\ request' = NoRequest
  /\ started' = FALSE
  /\ UNCHANGED startsSinceArm

\* FightWarp::apply when neither branch is due.
PassBy ==
  /\ ~MenuDue /\ ~SelectDue
  /\ UNCHANGED warpVars

Apply == StartVersus \/ TakeSelect \/ PassBy

\* The guest moves between its screens; players choose for themselves too.
GuestMenus ==
  /\ screen' \in Screens
  /\ selection' \in {selection} \cup Pairs({SelectionWord(c) : c \in Characters})
  /\ UNCHANGED <<request, started, startsSinceArm>>

ArmSome == \E line \in Lines : Arm(line)

WarpNext ==
  \/ ArmSome
  \/ \E line \in Lines : ArmRefused(line)
  \/ Apply
  \/ GuestMenus

WarpSpec == WarpInit /\ [][WarpNext]_warpVars

-----------------------------------------------------------------------------
WarpTypeOK ==
  /\ request \in Pairs(Characters) \cup {NoRequest}
  /\ started \in BOOLEAN
  /\ screen \in Screens
  /\ selection \in Pairs({SelectionWord(c) : c \in Characters})
  /\ startsSinceArm \in Nat

\* A request sees at most one game start of its own, and the flag that lets
\* character select be taken is up exactly while that start is the armed
\* request's: re-arming in the middle of a warp begins again at the menu
\* (FightWarp::arm clears started_, FightWarp::apply sets it).
StartBelongsToRequest ==
  /\ startsSinceArm <= 1
  /\ started <=> (request # NoRequest /\ startsSinceArm = 1)

\* Whenever a request is consumed, the guest is left with exactly the two
\* characters of the latest arming and on the exit of character select
\* (fight_warp.cpp:65-74), never a mixture with an earlier request.
RequestConsumedWhole ==
  [][(request # NoRequest /\ request' = NoRequest) =>
        /\ startsSinceArm = 1
        /\ screen = "selectWaiting" /\ screen' = "otherMode"
        /\ \A player \in 1 .. 2 : selection'[player] = 4 * request[player]]_warpVars
=============================================================================
