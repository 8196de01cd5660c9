---------------------------- MODULE FrameDriver ----------------------------
(***************************************************************************)
(* The frame driver of game/frame: the boot prefix, the two retail         *)
(* initializers, and the native main loop that advances the game one       *)
(* display field per host call.  A mode body or an initializer may outlive *)
(* its field: it is a spanning guest call, suspended and resumed.          *)
(*                                                                         *)
(* A field is cut into steps where the code calls into the guest, since    *)
(* that is where guest memory changes under it and where it can abort.     *)
(* Field numbers and the frame counter wrap, as the 32-bit words do.       *)
(***************************************************************************)
EXTENDS FightWarp

CONSTANTS
  Buffers,         (* the display buffer descriptors                       *)
  NoBuffer,        (* the value of a buffer word nobody has written        *)
  WordModulus      (* 2^32 in the code: field numbers and frame counter    *)

ASSUME WordModulusAssumption == WordModulus \in Nat \ {0}
ASSUME NoBufferAssumption == NoBuffer \notin Buffers

VARIABLES
  at,              (* the next step of the host thread                     *)
  fault,           (* why the process aborted                              *)
  bootStarted, bootComplete,
  stage, callPending, stepBuffer,        (* FrameDriver::stepState_        *)
  spanning,        (* the call a ResumableGuestCall holds suspended        *)
  nextField,       (* the frame number the host passes next                *)
  logicFrame,      (* game_.timing.logicFrame                              *)
  timerEnabled, activeBuffer, currentBuffer, priorBuffer, frameCounter,
  roots,           (* the buffer the ordering-table root words belong to   *)
  building,        (* tables cleared and not yet spliced                   *)
  frameBuffer,     (* `buffer` of the field step                           *)
  services,        (* history: what the field did for the host, in order   *)
  finished, submitted,    (* history: last table spliced, last handed over *)
  stamp            (* history: what the open table was opened under        *)

bootVars == <<bootStarted, bootComplete>>
stepVars == <<stage, callPending, stepBuffer, spanning>>
clockVars == <<nextField, logicFrame>>
bufferVars == <<activeBuffer, currentBuffer, priorBuffer, roots, frameBuffer>>
tableVars == <<building, finished, submitted, stamp>>
driverVars == <<at, fault, bootVars, stepVars, clockVars, timerEnabled,
                frameCounter, bufferVars, tableVars, services>>
vars == <<driverVars, warpVars>>

Stages == {"FirstInitializer", "SecondInitializer", "Running"}
Outcomes == {"Returned", "Suspended", "Refused"}
Places == {"off", "dispatch", "idle", "boot", "resume", "barrier", "deliver",
           "present", "clear", "mode", "splice", "aborted"}
Faults == {"none", "boot", "disagree", "refused", "unreleased", "unreturned"}

\* 32-bit words wrap; mutated: they grow.
Unbounded(word) == word + 1
Successor(word) == (word + 1) % WordModulus

\* The spanning call a stage is in: an initializer, then mode bodies.
CallOf(s) == IF s = "Running" THEN "modeBody" ELSE s
SpanningCalls == {"none", "FirstInitializer", "SecondInitializer", "modeBody"}

Stamp(field, counter, b) == [field |-> field, counter |-> counter, roots |-> b]

-----------------------------------------------------------------------------
Init ==
  /\ WarpInit
  /\ at = "off" /\ fault = "none"
  /\ bootStarted = FALSE /\ bootComplete = FALSE
  /\ stage = "FirstInitializer" /\ callPending = FALSE /\ stepBuffer = NoBuffer
  /\ spanning = "none"
  /\ nextField = 0 /\ logicFrame = 0
  /\ timerEnabled = FALSE
  /\ activeBuffer \in Buffers
  /\ currentBuffer = NoBuffer /\ priorBuffer = NoBuffer /\ roots = NoBuffer
  /\ frameBuffer = NoBuffer
  /\ frameCounter = 0
  /\ building = {} /\ finished = NoBuffer /\ submitted = NoBuffer
  /\ stamp = Stamp(0, 0, NoBuffer)
  /\ services = <<>>

Go(place) == at' = place /\ UNCHANGED fault

\* Every refusal is std::abort: the process keeps nothing.
Abort(reason) == at' = "aborted" /\ fault' = reason

\* What guest code may do to the words the driver reads while it runs.
GuestBody ==
  /\ GuestMenus
  /\ timerEnabled' \in BOOLEAN
  /\ activeBuffer' \in Buffers

\* ResumableGuestCall: starting a call, and advancing the one it holds; there
\* is nothing to advance when none is held.
BeginSpanning(call, outcome) ==
  spanning' = IF outcome = "Suspended" THEN call ELSE "none"

ResumeSpanning(outcome) ==
  /\ spanning = "none" => outcome = "Refused"
  /\ spanning' = IF outcome = "Suspended" THEN spanning ELSE "none"

-----------------------------------------------------------------------------
\* FrameDriver::runBootPrefix up to the dispatch of the retail entry.
RunBootPrefix ==
  /\ at = "off"
  /\ ~bootStarted
  /\ bootStarted' = TRUE
  /\ Go("dispatch")
  /\ UNCHANGED <<bootComplete, stepVars, clockVars, timerEnabled, frameCounter,
                 bufferVars, tableVars, services, warpVars>>

\* mainOverride: the retail entry reaches main, whose prologue runs once and
\* leaves the dispatch with a host transfer.
MainOverride ==
  /\ at = "dispatch"
  /\ bootStarted /\ ~bootComplete
  /\ bootComplete' = TRUE
  /\ Go("idle")
  /\ UNCHANGED <<bootStarted, stepVars, clockVars, timerEnabled, frameCounter,
                 bufferVars, tableVars, services, warpVars>>

\* The dispatch ends any other way, or without having reached main.
BootFails ==
  /\ at = "dispatch"
  /\ Abort("boot")
  /\ UNCHANGED <<bootVars, stepVars, clockVars, timerEnabled, frameCounter,
                 bufferVars, tableVars, services, warpVars>>

\* A console command between two fields.
ArmWarp ==
  /\ at = "idle"
  /\ ArmSome
  /\ UNCHANGED driverVars

-----------------------------------------------------------------------------
\* What a held field leaves of the warp: it is not applied; mutated: it is.
AppliesAnyway == Apply
HeldWarp == UNCHANGED warpVars

\* The logic frame after a held field; mutated: every field names its own.
EveryField == nextField
HeldLogicFrame == logicFrame

\* What a held main-loop field does before it resumes the body; mutated: it
\* reads the pad after the image is out.
PadLast == <<"present", "audio", "pad">>
HeldServices == <<"pad", "present", "audio">>

\* Where a held field goes on; mutated: it shows the image and resumes nothing.
NotResumed == "idle"
HeldPlace == IF stage = "Running" THEN "resume" ELSE "boot"

\* FrameDriver::stepFrame with a call held: the logic frame and the warp wait,
\* and the field starts the service of a held image (or of a held boot).
HeldField ==
  /\ callPending
  /\ logicFrame' = HeldLogicFrame
  /\ HeldWarp
  /\ services' = IF stage = "Running" THEN HeldServices ELSE <<"present", "audio">>
  /\ Go(HeldPlace)

\* FrameDriver::stepFrame:212.
WarpAtBoundary == IF stage = "Running" THEN Apply ELSE UNCHANGED warpVars

\* FrameDriver::stepFrame with no call held: the field names a logic frame,
\* and the warp may act before the frame's own calls.
FreshField ==
  /\ ~callPending
  /\ logicFrame' = nextField
  /\ WarpAtBoundary
  /\ services' = IF stage = "Running" THEN <<>> ELSE <<"present", "audio">>
  /\ Go(IF stage = "Running" THEN "barrier" ELSE "boot")

\* FrameDriver::stepFrame: refuses to run when its own record and the call
\* object disagree.
StepFrame ==
  /\ at = "idle"
  /\ bootComplete
  /\ nextField' = Successor(nextField)
  /\ IF callPending # (spanning # "none")
       THEN Abort("disagree") /\ UNCHANGED <<logicFrame, services, warpVars>>
       ELSE HeldField \/ FreshField
  /\ UNCHANGED <<bootVars, stepVars, timerEnabled, frameCounter, bufferVars, tableVars>>

\* StepState::callPending after an advance; mutated: a return leaves it.
PendingForever(outcome) == callPending \/ outcome = "Suspended"
PendingAfter(outcome) ==
  CASE outcome = "Returned"  -> FALSE
    [] outcome = "Suspended" -> TRUE
    [] outcome = "Refused"   -> callPending

\* StepState::stage after an advance of an initializer; mutated: the first
\* initializer's return leads back to it.
SameStage(outcome) == IF outcome = "Returned" /\ stage = "SecondInitializer" THEN "Running" ELSE stage
StageAfter(outcome) ==
  CASE outcome # "Returned"                                    -> stage
    [] outcome = "Returned" /\ stage = "FirstInitializer"      -> "SecondInitializer"
    [] outcome = "Returned" /\ stage # "FirstInitializer"      -> "Running"

\* One turn of the loop in stepBoot: the first initializer's return starts the
\* second in the same field, the second's return starts the main loop.
BootCall(outcome) ==
  /\ at = "boot"
  /\ IF callPending THEN ResumeSpanning(outcome) ELSE BeginSpanning(stage, outcome)
  /\ GuestBody
  /\ callPending' = PendingAfter(outcome)
  /\ stage' = StageAfter(outcome)
  /\ CASE outcome = "Returned"  -> Go(IF stage = "FirstInitializer" THEN "boot" ELSE "idle")
       [] outcome = "Suspended" -> Go("idle")
       [] outcome = "Refused"   -> Abort("refused")
  /\ UNCHANGED <<bootVars, stepBuffer, clockVars, frameCounter, currentBuffer, priorBuffer,
                 roots, frameBuffer, tableVars, services>>

\* The buffer the callback is given; mutated: the one that is active.
ActiveBuffer == activeBuffer
BufferToHandOver == IF timerEnabled THEN currentBuffer ELSE priorBuffer

\* FiniteFrame::runBarrier up to the event: with the frame timer enabled the
\* buffer drawn last becomes the one the callback hands over.
Barrier ==
  /\ at = "barrier"
  /\ priorBuffer' = BufferToHandOver
  /\ services' = Append(services, "pad")
  /\ Go("deliver")
  /\ UNCHANGED <<bootVars, stepVars, clockVars, timerEnabled, frameCounter, activeBuffer,
                 currentBuffer, roots, frameBuffer, tableVars, warpVars>>

\* The RCntCNT2 event.  A registered callback hands the prior buffer over and
\* counts itself, which releases the barrier; otherwise barrierOverride aborts.
Deliver(counted) ==
  /\ at = "deliver"
  /\ IF counted
       THEN /\ submitted' = priorBuffer
            /\ services' = Append(services, "submit")
            /\ Go("present")
       ELSE Abort("unreleased") /\ UNCHANGED <<submitted, services>>
  /\ UNCHANGED <<bootVars, stepVars, clockVars, timerEnabled, frameCounter, bufferVars,
                 building, finished, stamp, warpVars>>

\* FiniteFrame::step after the barrier: commit what was handed over, count the
\* frame, and switch buffers unless the render mode keeps the active one.
Present(keepBuffer) ==
  /\ at = "present"
  /\ services' = Append(Append(services, "present"), "audio")
  /\ frameCounter' = Successor(frameCounter)
  /\ IF keepBuffer THEN UNCHANGED activeBuffer ELSE activeBuffer' \in Buffers
  /\ Go("clear")
  /\ UNCHANGED <<bootVars, stepVars, clockVars, timerEnabled, currentBuffer, priorBuffer,
                 roots, frameBuffer, tableVars, warpVars>>

\* The frame's ordering tables: the active buffer becomes current, its tables
\* are cleared and its roots selected.
ClearTables ==
  /\ at = "clear"
  /\ frameBuffer' = activeBuffer
  /\ currentBuffer' = activeBuffer
  /\ roots' = activeBuffer
  /\ building' = building \cup {activeBuffer}
  /\ stamp' = Stamp(logicFrame, frameCounter, activeBuffer)
  /\ Go("mode")
  /\ UNCHANGED <<bootVars, stepVars, clockVars, timerEnabled, frameCounter, activeBuffer,
                 priorBuffer, finished, submitted, services, warpVars>>

\* The mode body: a spanning call that fills the frame's tables.  A suspended
\* body ends the field with the buffer it draws into remembered.
ModeBody(outcome) ==
  /\ at = "mode"
  /\ screen # "noMode"
  /\ stepBuffer' = frameBuffer
  /\ BeginSpanning("modeBody", outcome)
  /\ GuestBody
  /\ callPending' = PendingAfter(outcome)
  /\ CASE outcome = "Returned"  -> Go("splice")
       [] outcome = "Suspended" -> Go("idle")
       [] outcome = "Refused"   -> Abort("refused")
  /\ UNCHANGED <<bootVars, stage, clockVars, frameCounter, currentBuffer, priorBuffer,
                 roots, frameBuffer, tableVars, services>>

\* A mode outside the table of functions draws nothing.
NoModeBody ==
  /\ at = "mode"
  /\ screen = "noMode"
  /\ Go("splice")
  /\ UNCHANGED <<bootVars, stepVars, clockVars, timerEnabled, frameCounter, bufferVars,
                 tableVars, services, warpVars>>

\* The buffer a resumed frame finishes; mutated: the one active by then.
ActiveByThen == activeBuffer
ResumedBuffer == stepBuffer

\* A field that holds a mode body advances it; on return the frame finishes
\* with the remembered buffer.
ResumeBody(outcome) ==
  /\ at = "resume"
  /\ ResumeSpanning(outcome)
  /\ GuestBody
  /\ callPending' = PendingAfter(outcome)
  /\ frameBuffer' = IF outcome = "Returned" THEN ResumedBuffer ELSE frameBuffer
  /\ CASE outcome = "Returned"  -> Go("splice")
       [] outcome = "Suspended" -> Go("idle")
       [] outcome = "Refused"   -> Abort("refused")
  /\ UNCHANGED <<bootVars, stage, stepBuffer, clockVars, frameCounter, currentBuffer,
                 priorBuffer, roots, tableVars, services>>

\* finishFrame: both tables of the buffer are spliced into its drawing list.
FinishFrame ==
  /\ at = "splice"
  /\ building' = building \ {frameBuffer}
  /\ finished' = frameBuffer
  /\ Go("idle")
  /\ UNCHANGED <<bootVars, stepVars, clockVars, timerEnabled, frameCounter, bufferVars,
                 submitted, stamp, services, warpVars>>

\* FiniteGuestCall::callToReturn aborts when a finite guest call does not
\* return within its turn, wherever the field makes one: the warp's calls at
\* the boundary, and the main loop's own.
FiniteCallFails ==
  /\ \/ at = "idle" /\ stage = "Running" /\ ~callPending /\ MenuDue
     \/ at \in {"barrier", "deliver", "present", "clear", "splice"}
  /\ Abort("unreturned")
  /\ UNCHANGED <<bootVars, stepVars, clockVars, timerEnabled, frameCounter, bufferVars,
                 tableVars, services, warpVars>>

Aborted == at = "aborted" /\ UNCHANGED vars

Field ==
  \/ \E outcome \in Outcomes : BootCall(outcome) \/ ModeBody(outcome) \/ ResumeBody(outcome)
  \/ Barrier
  \/ \E counted \in BOOLEAN : Deliver(counted)
  \/ \E keepBuffer \in BOOLEAN : Present(keepBuffer)
  \/ ClearTables
  \/ NoModeBody
  \/ FinishFrame

Next ==
  \/ RunBootPrefix \/ MainOverride \/ BootFails
  \/ ArmWarp
  \/ StepFrame
  \/ Field
  \/ FiniteCallFails
  \/ Aborted

Spec == Init /\ [][Next]_vars

\* The host keeps stepping fields and a field's own code keeps running; a
\* guest call that is advanced field after field returns in the end, because
\* its waits get the host turns and interrupts they wait for
\* (finite_frame.h:41).  Nothing else is assumed of the guest.
Fairness ==
  /\ WF_vars(RunBootPrefix \/ MainOverride)
  /\ WF_vars(StepFrame)
  /\ WF_vars(Field)
  /\ SF_vars(BootCall("Returned"))
  /\ SF_vars(ResumeBody("Returned"))

FairSpec == Spec /\ Fairness

-----------------------------------------------------------------------------
TypeOK ==
  /\ WarpTypeOK
  /\ at \in Places /\ fault \in Faults
  /\ bootStarted \in BOOLEAN /\ bootComplete \in BOOLEAN
  /\ stage \in Stages /\ callPending \in BOOLEAN
  /\ stepBuffer \in Buffers \cup {NoBuffer}
  /\ spanning \in SpanningCalls
  /\ nextField \in 0 .. WordModulus - 1 /\ logicFrame \in 0 .. WordModulus - 1
  /\ frameCounter \in 0 .. WordModulus - 1
  /\ timerEnabled \in BOOLEAN
  /\ activeBuffer \in Buffers
  /\ {currentBuffer, priorBuffer, roots, frameBuffer, finished, submitted}
       \subseteq Buffers \cup {NoBuffer}
  /\ building \subseteq Buffers
  /\ stamp \in [field : 0 .. WordModulus - 1, counter : 0 .. WordModulus - 1,
               roots : Buffers \cup {NoBuffer}]
  /\ services \in Seq({"pad", "submit", "present", "audio"})

\* Between two fields the driver's record of a pending call and the call the
\* machine holds are one and the same, and it is the call of the driver's
\* stage: the disagreement abort of FrameDriver::stepFrame never fires, no
\* initializer or body is begun over one that is still running.
PendingAgrees ==
  /\ at = "idle" => spanning = (IF callPending THEN CallOf(stage) ELSE "none")
  /\ fault # "disagree"

\* A frame that outlives its field keeps its ordering tables to itself: they
\* are open from ClearTables to FinishFrame, however many fields that takes
\* and whichever buffer the guest makes active meanwhile, and no other table
\* is (FiniteFrame::step remembers the buffer in StepState).
HeldFrameOwnsItsTables ==
  /\ at \in {"idle", "resume"} /\ stage = "Running" /\ callPending => building = {stepBuffer}
  /\ at \in {"mode", "splice"} => building = {frameBuffer}
  /\ at \in {"barrier", "deliver", "present", "clear"} => building = {}

\* The tables are finished under the logic frame, the frame count and the
\* roots they were opened under: a held field republishes none of them, so
\* the renderer attributes every primitive of a frame to one frame
\* (FrameDriver::stepFrame:209, FiniteFrame::step:187-199 and 208).
FrameIdentity ==
  at = "splice" => stamp = Stamp(logicFrame, frameCounter, frameBuffer)
                   /\ roots = frameBuffer

\* What a field does for the host, in order: a fresh field reads the pad and
\* hands the prior frame over before it presents, a held field reads the pad
\* and presents the held image, a boot field only presents; every field
\* presents once and drains audio once, and only a field that named a new
\* logic frame hands anything over (finite_frame.cpp:84-85, 187-204).
FieldServices ==
  at = "idle" =>
    \/ services = <<>> /\ nextField = 0 /\ stage = "FirstInitializer" /\ ~callPending
    \/ /\ stage = "Running"
       /\ services = <<"pad", "submit", "present", "audio">>
       /\ nextField = Successor(logicFrame)
    \/ stage = "Running" /\ services = <<"pad", "present", "audio">>
    \/ services = <<"present", "audio">> /\ building = {} /\ finished = NoBuffer

\* The warp touches the guest only at a boundary of the running main loop at
\* which no guest call is suspended and no table is open
\* (frame_driver.cpp:209-215; fight_warp.h:52).
WarpOnlyAtOpenBoundary ==
  [][((~started /\ started') \/ (request # NoRequest /\ request' = NoRequest))
        => at = "idle" /\ spanning = "none" /\ building = {} /\ stage = "Running"]_vars

\* The driver implements the ordering-table protocol.
Protocol == INSTANCE FrameProtocol
ImplementsProtocol == Protocol!ProtocolSpec

\* The boot prefix and both initializers end in the main loop unless the
\* process aborts.
BootReachesMainLoop == <>(stage = "Running" \/ at = "aborted")

\* A frame whose body outlives its field is finished in some later field: the
\* held image gives way, unless the process aborts.
HeldFrameFinishes ==
  (stage = "Running" /\ callPending) ~> (at = "aborted" \/ (at = "idle" /\ building = {}))

\* The driver gets somewhere: out of the boot, and out of every held frame.
DriverProgresses == BootReachesMainLoop /\ HeldFrameFinishes

\* The main loop is at a boundary at which the warp may act, with this screen.
OpenBoundary(s) == at = "idle" /\ stage = "Running" /\ ~callPending /\ screen = s

\* Once the console replaces the request no more, a warp lands as long as the
\* menu and character select keep coming back at a boundary, through held frames
\* and whatever the player chooses between: whether VS is still to be started or
\* the player backs out to the menu half way, it is never stranded
\* (frame_driver.h:74, "later field boundaries take it through").
WarpLands ==
  ( /\ <>[][~ArmWarp]_vars
    /\ []<>OpenBoundary("menuChoosing")
    /\ []<>OpenBoundary("selectWaiting") ) => <>[](request = NoRequest)
=============================================================================
