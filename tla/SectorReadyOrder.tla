-------------------------- MODULE SectorReadyOrder --------------------------
(***************************************************************************)
(* The three overrides of game/cd/sector_ready_order.cpp among the guest   *)
(* code they order: the loader that starts a read and waits for it, the    *)
(* completion chain driven by the VBlank timer, the command writer that    *)
(* flushes pending interrupts, the drive, and the CD interrupt service.    *)
(*                                                                         *)
(* Reads are instant, so the sector's INT1 may come at any time after the  *)
(* command is acknowledged: before the completion that installs its        *)
(* consumer, and across a flush that would discard it.                     *)
(*                                                                         *)
(* The loader words, the chain and the controller form one record, so that *)
(* guest code called from guest code is a function applied in an action.   *)
(***************************************************************************)
EXTENDS Naturals, Sequences

CONSTANTS
  Reads,        (* identities of reads: 1 .. Reads, reused in turn         *)
  ChainDepth    (* entries the completion chain holds                      *)

ASSUME ReadsAssumption == Reads \in Nat \ {0}
ASSUME ChainDepthAssumption == ChainDepth \in 1 .. Reads - 1

VARIABLE
  cd            (* the record below                                        *)

NoRead == 0
ReadIds == 1 .. Reads
ReadStages == {"queued", "commanded", "acknowledged"}
Events == {"nothing", "command", "sector", "other"}

\* loader_lifecycle.h's words and what the guest keeps behind them.  The held
\* byte holds 0 or 1 and the model the identity of the read it stands for.
State == [
  held      : ReadIds \cup {NoRead},      \* 0x800A069F, the wait byte
  busy      : BOOLEAN,                    \* 0x800A069E
  waiting   : BOOLEAN,                    \* the guest thread is in FUN_8006BEA8
  installed : BOOLEAN,                    \* 0x8009B8E8, callback 0x8006C2A0
  chain     : Seq([read : ReadIds, stage : ReadStages]),
  due       : ReadIds \cup {NoRead},      \* acknowledged read, sector to come
  pending   : Events,                     \* the controller's INT flags
  sector    : ReadIds \cup {NoRead},      \* whose INT1 is pending
  last      : ReadIds \cup {NoRead},      \* history: read started most recently
  lost      : BOOLEAN ]                   \* history: a sector nobody consumed

SectorEventClass == 1
OtherEventClass == 4
ChainCompletionClass == 2

-----------------------------------------------------------------------------
(***************************************************************************)
(* The overrides.                                                          *)
(***************************************************************************)
\* chainCompletionApplies; mutated: every completion installs the callback.
AlwaysApplies(c, class) == TRUE
ChainCompletionApplies(c, class) == class # ChainCompletionClass \/ c.held # NoRead

\* chainCompletionOverride around the callback FUN_8006C26C.
ChainCompletion(c, class) ==
  IF ChainCompletionApplies(c, class) /\ class = ChainCompletionClass
    THEN [c EXCEPT !.installed = TRUE]
    ELSE c

\* completeReadBeforeSector: whether the completion is delivered ahead of the
\* sector; mutated: it is left to the timer.
LeftToTheTimer(c, class) == FALSE
OwesCompletion(c, class) == class = SectorEventClass /\ c.held # NoRead /\ ~c.installed

\* The event class the original ready hook finds in $a0: the override puts the
\* caller's registers back.  Mutated: it finds what the nested call left.
NestedClass(c, class) == IF OwesCompletion(c, class) THEN ChainCompletionClass ELSE class
RestoredClass(c, class) == class

\* The per-sector handler and FUN_8006C2A0: the callback takes a class-1 event,
\* ends the read, clears both loader bytes and is withdrawn; a sector without a
\* callback goes nowhere.
PerSectorHandler(c, class) ==
  IF c.installed /\ class = SectorEventClass
    THEN [c EXCEPT !.held = NoRead, !.busy = FALSE, !.installed = FALSE]
    ELSE [c EXCEPT !.lost = @ \/ c.sector # NoRead]

\* readyHookOverride.
ReadyHook(c, class) ==
  LET before == IF OwesCompletion(c, class) THEN ChainCompletion(c, ChainCompletionClass) ELSE c
  IN  PerSectorHandler(before, RestoredClass(c, class))

\* FUN_80084A30: a command's acknowledgement lets its read deliver, a data
\* interrupt goes to the ready hook.
InterruptService(c) ==
  CASE c.pending = "command" ->
         [c EXCEPT !.chain[1].stage = "acknowledged", !.due = c.chain[1].read,
                   !.pending = "nothing"]
    [] c.pending = "sector" ->
         [ReadyHook(c, SectorEventClass) EXCEPT !.pending = "nothing", !.sector = NoRead]
    [] c.pending = "other" ->
         [ReadyHook(c, OtherEventClass) EXCEPT !.pending = "nothing"]
    [] c.pending = "nothing" -> c

\* serviceInterruptsBeforeFlush; mutated: the flush comes first.
ServicesNothing(c) == c
ServiceBeforeFlush(c) == IF c.held # NoRead THEN InterruptService(c) ELSE c

\* flushOverride: FUN_800842E0 discards whatever is still pending.
Flush(c) ==
  LET serviced == ServiceBeforeFlush(c)
  IN  [serviced EXCEPT !.pending = "nothing", !.sector = NoRead,
                       !.lost = @ \/ serviced.pending = "sector"]

-----------------------------------------------------------------------------
(***************************************************************************)
(* The guest and the drive around them.                                    *)
(***************************************************************************)
SectorInit ==
  cd = [held |-> NoRead, busy |-> FALSE, waiting |-> FALSE, installed |-> FALSE,
        chain |-> <<>>, due |-> NoRead, pending |-> "nothing", sector |-> NoRead,
        last |-> NoRead, lost |-> FALSE]

\* 0x8006C1A4: with no read in flight the loader raises the held byte and
\* submits to the chain.  The guest has one thread, which is not in the wait.
StartRead ==
  LET read == (cd.last % Reads) + 1
  IN  /\ ~cd.waiting
      /\ cd.held = NoRead
      /\ Len(cd.chain) < ChainDepth
      /\ cd' = [cd EXCEPT !.held = read, !.last = read,
                          !.chain = Append(@, [read |-> read, stage |-> "queued"])]

\* FUN_8006BEA8 with the held byte up: it calls FUN_8006C1FC, which finds the
\* read in flight and leaves the busy byte set, and spins on that byte.
EnterWait ==
  /\ ~cd.waiting
  /\ cd.held # NoRead
  /\ cd' = [cd EXCEPT !.waiting = TRUE, !.busy = TRUE]

\* The spin's exit; mutated: the wait looks at the byte once and goes on.
LooksOnce == TRUE
SpinIsOver == ~cd.busy

\* The spin falls through to 0x8006BEFC: the wait clears the held byte itself.
LeaveWait ==
  /\ cd.waiting
  /\ SpinIsOver
  /\ cd' = [cd EXCEPT !.waiting = FALSE, !.held = NoRead]

HeadIs(stage) == cd.chain # <<>> /\ Head(cd.chain).stage = stage

\* The VBlank timer (FUN_8008FDE8) moves the head of the chain on: the command
\* writer FUN_8008FCC0 flushes, then writes the read command.
WriteReadCommand ==
  /\ HeadIs("queued")
  /\ cd' = [Flush(cd) EXCEPT !.chain[1].stage = "commanded", !.pending = "command"]

\* The command writer with any other command; it waits for the head's own
\* acknowledgement first.
WriteOtherCommand ==
  /\ ~HeadIs("commanded")
  /\ cd' = Flush(cd)

\* FUN_8008E928: the timer delivers the head's class-2 completion.
CompleteHead ==
  /\ HeadIs("acknowledged")
  /\ cd' = [ChainCompletion(cd, ChainCompletionClass) EXCEPT !.chain = Tail(@)]

\* The drive raises INT1 for a read it has acknowledged, once no interrupt is
\* pending before it.
RaiseSector ==
  /\ cd.due # NoRead
  /\ cd.pending = "nothing"
  /\ cd' = [cd EXCEPT !.pending = "sector", !.sector = cd.due, !.due = NoRead]

\* The drive may also report what is no sector (the end of the disc).
RaiseOther ==
  /\ cd.pending = "nothing"
  /\ cd' = [cd EXCEPT !.pending = "other"]

\* The CD interrupt is taken.
TakeInterrupt ==
  /\ cd.pending # "nothing"
  /\ cd' = InterruptService(cd)

SectorNext ==
  \/ StartRead
  \/ EnterWait
  \/ LeaveWait
  \/ WriteReadCommand
  \/ WriteOtherCommand
  \/ CompleteHead
  \/ RaiseSector
  \/ RaiseOther
  \/ TakeInterrupt

SectorSpec == SectorInit /\ [][SectorNext]_cd

-----------------------------------------------------------------------------
CdTypeOK == cd \in State

\* No sector is discarded by a flush or serviced without a consumer: whatever
\* the order of timer, command writer, drive and interrupt, the INT1 of a read
\* reaches the sector callback (docs/issues/0020, blocker 3).
NoSectorLost == ~cd.lost

\* A read the loader holds is always on its way to its sector: asked for and
\* not yet acknowledged, or acknowledged and not yet raised, or raised and
\* pending; and no sector is on its way for a read that has ended.
SectorOnItsWay ==
  LET askedFor == {cd.chain[i].read : i \in {k \in DOMAIN cd.chain :
                                              cd.chain[k].stage # "acknowledged"}}
  IN  IF cd.held = NoRead
        THEN askedFor \cup {cd.due, cd.sector} = {NoRead}
        ELSE (askedFor \cup {cd.due, cd.sector}) \ {NoRead} = {cd.held}

\* The sector callback is in place only while a read is owed a sector: a
\* class-2 completion that comes after its read has ended, with no other
\* read asked for, installs nothing (sector_ready_order.cpp:91-93).
CallbackOnlyWhileOwed == cd.installed => cd.held # NoRead

\* A class-2 completion that arrives after its own read already finished does
\* not apply (sector_ready_order.h:28).  The loader may have asked for its next
\* read by then: the held byte says that a read is held, not which.
LateCompletionDoesNotApply ==
  [][CompleteHead /\ Head(cd.chain).read # cd.held
       => ~ChainCompletionApplies(cd, ChainCompletionClass)]_cd

\* The sector of a read is underway from its command's acknowledgement to its
\* consumer, in the drive first and then in the controller.
Underway(c) == IF c.due # NoRead THEN c.due ELSE c.sector

\* The overrides and the guest code they order implement the handshake: a read
\* is ended by its own sector and by nothing else, its sector is on its way once,
\* and none is on its way that nobody asked for.
Handshake == INSTANCE SectorHandshake WITH
  ReadIds <- ReadIds, NoRead <- NoRead, asked <- cd.held, underway <- Underway(cd)
ImplementsHandshake == Handshake!HandshakeSpec
=============================================================================
