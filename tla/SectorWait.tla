----------------------------- MODULE SectorWait -----------------------------
(***************************************************************************)
(* The frame driver and the loader together.  Mode 2's body asks for a     *)
(* sector and spins on the loader's busy byte, with no timeout, across     *)
(* fields: only the sector callback clears that byte, and what brings the  *)
(* sector to it (the VBlank timer's chain, the command writer, the drive,  *)
(* the CD interrupt) runs in the turns the driver gives the guest, which   *)
(* go on only because the driver holds and resumes the body.               *)
(*                                                                         *)
(* No guest time passes between turns: at the host's boundary the drive    *)
(* and the timer stand still.                                              *)
(***************************************************************************)
EXTENDS FrameDriver, SectorReadyOrder

CONSTANT
  NoWait

VARIABLE
  waits                (* the call that is in the loader's wait, or NoWait *)

ASSUME NoWaitAssumption == NoWait \notin SpanningCalls

allVars == <<vars, cd, waits>>

\* A spanning call runs: CoreMachine::advance.
Turn == at \in {"boot", "resume"} \/ (at = "mode" /\ screen # "noMode")

\* Guest code runs, in a turn or in a finite call of the field or of the boot.
GuestRuns == at \notin {"off", "idle", "aborted"}

Running(s) == IF at = "boot" THEN CallOf(s) ELSE "modeBody"

-----------------------------------------------------------------------------
WaitInit == Init /\ SectorInit /\ waits = NoWait

\* The loader asks for a sector, in whatever guest code is running.
AskForSector == GuestRuns /\ StartRead /\ UNCHANGED <<vars, waits>>

\* The call that runs enters FUN_8006BEA8, and leaves it in a turn of its own.
CallEntersWait == Turn /\ EnterWait /\ waits' = Running(stage) /\ UNCHANGED vars

CallLeavesWait ==
  /\ Turn /\ waits = Running(stage)
  /\ LeaveWait
  /\ waits' = NoWait
  /\ UNCHANGED vars

InGuestTime(A) == GuestRuns /\ A /\ UNCHANGED <<vars, waits>>

\* The VBlank timer, the drive and the interrupt.
Timer == InGuestTime(WriteReadCommand \/ CompleteHead)
OtherCommand == InGuestTime(WriteOtherCommand)
Drive == InGuestTime(RaiseSector)
OtherInterrupt == InGuestTime(RaiseOther)
Interrupt == InGuestTime(TakeInterrupt)

\* A call in the wait does not return; mutated: it does.
ReturnsAnyway(outcome) == TRUE
MayEnd(outcome) == waits # NoWait => outcome # "Returned"

\* The end of a turn.
EndTurn(outcome) ==
  /\ MayEnd(outcome)
  /\ BootCall(outcome) \/ ModeBody(outcome) \/ ResumeBody(outcome)

\* The rest of the driver, without the warp.
Host ==
  \/ RunBootPrefix \/ MainOverride \/ BootFails \/ StepFrame
  \/ Barrier \/ ClearTables \/ NoModeBody \/ FinishFrame \/ FiniteCallFails
  \/ \E b \in BOOLEAN : Deliver(b) \/ Present(b)
  \/ Aborted

Driver == (Host \/ \E outcome \in Outcomes : EndTurn(outcome)) /\ UNCHANGED <<cd, waits>>

WaitNext ==
  \/ AskForSector \/ CallEntersWait \/ CallLeavesWait
  \/ Timer \/ OtherCommand \/ Drive \/ OtherInterrupt \/ Interrupt
  \/ Driver

WaitSpec == WaitInit /\ [][WaitNext]_allVars

-----------------------------------------------------------------------------
\* A turn is one display field of guest time (FiniteFrame::kFieldTurnCycles), so
\* in turn after turn the timer runs, the drive delivers what it owes, a pending
\* interrupt is taken, and a wait that is over is left.  A call that is not in
\* the wait returns in the end.  Nothing is assumed of a call that waits.
WaitFairness ==
  /\ WF_allVars((RunBootPrefix \/ MainOverride) /\ Driver)
  /\ WF_allVars(StepFrame /\ Driver)
  /\ WF_allVars(Field /\ Driver)
  /\ SF_allVars(Turn /\ Timer)
  /\ SF_allVars(Turn /\ Drive)
  /\ SF_allVars(Turn /\ Interrupt)
  /\ SF_allVars(CallLeavesWait)
  /\ SF_allVars(BootCall("Returned") /\ Driver)
  /\ SF_allVars(ResumeBody("Returned") /\ Driver)

WaitFairSpec == WaitSpec /\ WaitFairness

-----------------------------------------------------------------------------
\* The types; a wait the loader is in is one of the call that is suspended or
\* running.
WaitTypeOK ==
  /\ TypeOK /\ CdTypeOK
  /\ waits \in SpanningCalls \cup {NoWait}
  /\ cd.waiting <=> waits # NoWait
  /\ waits # NoWait => waits = (IF Turn THEN Running(stage) ELSE spanning) \/ at = "aborted"

\* A call in the loader's wait leaves it, however many fields it takes: the
\* driver goes on giving turns to the call, and in its turns the three CD
\* overrides let no order of timer, drive and interrupt lose the sector whose
\* callback alone clears the byte it spins on (loader_lifecycle.h:13).
SpinEnds == waits # NoWait ~> waits = NoWait \/ at = "aborted"

\* The held byte comes down again even when nobody is in that wait, which is
\* the card's case: busy 0, held 1, polled frame after frame
\* (docs/issues/0020), as long as the guest goes on getting turns.
HeldByteFalls == []<>Turn => (cd.held # NoRead ~> cd.held = NoRead)

\* So a frame whose body waits is finished in some later field, which is what
\* FrameDriver assumes of every spanning call.
WaitingFrameFinishes ==
  (waits = "modeBody" /\ at = "idle") ~> (at = "aborted" \/ (at = "idle" /\ building = {}))

\* Waits on either byte end, and every frame that waited is finished.
WaitsEnd == SpinEnds /\ HeldByteFalls /\ WaitingFrameFinishes
=============================================================================
